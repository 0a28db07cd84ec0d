------------------------------ MODULE Scheduler ------------------------------
(***************************************************************************)
(* What the dispatcher promises its callers, without blocks or pointers:   *)
(* idle tasks start in the order they were registered, timed tasks start   *)
(* when they are due and the earliest first, and each starts once.         *)
(***************************************************************************)
EXTENDS Integers, Sequences

CONSTANTS Task, TimeMod, Delay

VARIABLES
  idle,    \* registered idle tasks, oldest first
  alarms,  \* registered timed tasks: pairs <<task, time>>
  clock

Later(t1, t2) == (t1 - t2) % TimeMod < TimeMod \div 2 - 1

Waiting == {idle[i] : i \in DOMAIN idle} \cup {a[1] : a \in alarms}

Init == idle = <<>> /\ alarms = {} /\ clock = 0

Request(f) ==
  /\ f \notin Waiting
  /\ idle' = Append(idle, f)
  /\ UNCHANGED <<alarms, clock>>

RequestAt(f, d) ==
  /\ f \notin Waiting
  /\ alarms' = alarms \cup {<<f, (clock + d) % TimeMod>>}
  /\ UNCHANGED <<idle, clock>>

StartIdle ==
  /\ idle # <<>>
  /\ idle' = Tail(idle)
  /\ UNCHANGED <<alarms, clock>>

StartDue(a) ==
  /\ Later(clock, a[2])
  /\ \A b \in alarms : Later(b[2], a[2])
  /\ alarms' = alarms \ {a}
  /\ UNCHANGED <<idle, clock>>

Pass == clock' = (clock + 1) % TimeMod /\ UNCHANGED <<idle, alarms>>

Next ==
  \/ \E f \in Task : Request(f) \/ \E d \in Delay : RequestAt(f, d)
  \/ StartIdle
  \/ \E a \in alarms : StartDue(a)
  \/ Pass

Spec == Init /\ [][Next]_<<idle, alarms, clock>>
=============================================================================
