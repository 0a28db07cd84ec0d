--------------------------- MODULE DispatchRefines ---------------------------
(***************************************************************************)
(* The pointer-level dispatcher implements Scheduler: the idle tasks are   *)
(* read off the linked list in link order, the timed ones off the blocks   *)
(* of the sorted list.                                                     *)
(***************************************************************************)
EXTENDS Dispatch, Sequences

\* The sequence s lists blocks of the idle list in link order.
InOrder(s) ==
  /\ head["main"] = NULL <=> s = <<>>
  /\ s # <<>> => /\ s[1] = head["main"] /\ s[Len(s)] = tail["main"]
                 /\ \A i \in 1..(Len(s) - 1) : s[i + 1] = next[s[i]]

Order ==
  CHOOSE s \in UNION {[1..n -> Block("main")] : n \in 0..PoolSize} : InOrder(s)

IdleTasks  == [i \in 1..Len(Order) |-> func[Order[i]]]
TimedTasks == {<<func[o], time[o]>> : o \in Block("timer")}

Promise == INSTANCE Scheduler
             WITH idle <- IdleTasks, alarms <- TimedTasks, clock <- now

\* Every step of the lists is a step of the promise or invisible to it: idle
\* operations run first in, first out, timed ones never early and in time
\* order across the wrap of the counter, none is lost or started twice.
KeepsPromise == Promise!Spec
=============================================================================
