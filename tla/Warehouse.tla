----------------------------- MODULE Warehouse -----------------------------
(***************************************************************************)
(* What the data warehouse promises a caller that writes one value at a    *)
(* time: a value per id, replaced in one indivisible step, and present     *)
(* when the write is reported finished.  A power loss ends the write under *)
(* way and changes no value.                                               *)
(***************************************************************************)
CONSTANTS Id, Value, None

VARIABLES
  stored,   \* what a read of each id returns
  pending,  \* writes accepted and not finished
  outages   \* tells one power loss from the next

Item == [id : Id, value : Value]

Init ==
  /\ stored = [id \in Id |-> None]
  /\ pending = {}
  /\ outages = 0

Accept(w) ==
  /\ pending = {}
  /\ pending' = {w}
  /\ UNCHANGED <<stored, outages>>

Commit(w) ==
  /\ w \in pending
  /\ stored' = [stored EXCEPT ![w.id] = w.value]
  /\ UNCHANGED <<pending, outages>>

Finish(w) ==
  /\ w \in pending
  /\ stored[w.id] = w.value
  /\ pending' = {}
  /\ UNCHANGED <<stored, outages>>

Outage ==
  /\ outages' # outages
  /\ pending' = {}
  /\ UNCHANGED stored

Next ==
  \/ \E w \in Item : Accept(w) \/ Commit(w) \/ Finish(w)
  \/ Outage

Spec == Init /\ [][Next]_<<stored, pending, outages>>
=============================================================================
