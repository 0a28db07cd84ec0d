---------------------------- MODULE DispatchFair ----------------------------
(***************************************************************************)
(* Liveness of Dispatch.  The main thread runs on, the clock ticks, and    *)
(* the processor is fast enough for its interrupts: between two waits of   *)
(* the main loop at most Burst ticks and interrupt registrations happen.   *)
(* Nothing else is assumed of the callers; in particular an operation may  *)
(* register itself again.                                                  *)
(***************************************************************************)
EXTENDS Dispatch

CONSTANT Burst  \* bound: interrupts and ticks in one pass of the main loop

ASSUME BurstAssumption == Burst \in Nat

VARIABLE load   \* interrupts and ticks since the main loop last waited

Awake == line # "wait"

\* A step of the world outside the main thread, within the bound.
Outside(A) ==
  /\ Awake => load < Burst
  /\ A
  /\ load' = IF Awake THEN load + 1 ELSE load

FairInit == Init /\ load = 0

Main ==
  /\ MainThread
  /\ load' = IF line' = "wait" THEN 0 ELSE load

CallerStep(c, f) == PostIdle(c, f) \/ \E d \in Delay : PostTimed(c, f, d)

FairNext ==
  \/ Main
  \/ \E f \in Task :
       \/ Outside(CallerStep("interrupt", f))
       \/ \E c \in Context \ {"interrupt"} : CallerStep(c, f) /\ UNCHANGED load
  \/ Outside(Tick)

\* The processor executes, and its RTC counts: the bound on interrupts never
\* holds the clock back for ever, hence strong fairness of the tick.
FairSpec ==
  /\ FairInit
  /\ [][FairNext]_<<vars, load>>
  /\ WF_<<vars, load>>(Main)
  /\ SF_<<vars, load>>(Outside(Tick))

\* Every registered task is started: an idle one although the processor may be
\* about to sleep, a timed one although its compare value may be overwritten by
\* the registration of another, or be about to pass while it is being set.
EventuallyStarted == \A f \in Task : f \in pending ~> f \notin pending

=============================================================================
