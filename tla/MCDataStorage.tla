--------------------------- MODULE MCDataStorage ---------------------------
(***************************************************************************)
(* Model checking of DataStorage, and its refinement of Warehouse: the     *)
(* value stored for an id is the one a read finds.                         *)
(***************************************************************************)
EXTENDS DataStorage, TLC

Promise == INSTANCE Warehouse
             WITH stored <- [id \in Id |-> Read(id)],
                  pending <- {writing[i] : i \in DOMAIN writing},
                  outages <- outages

\* Whatever flash operations a write takes, its value appears to readers in one
\* step, before data_storage_on_finish is called, and nothing else changes what
\* they read.
KeepsPromise == Promise!Spec

Values == Permutations(Value)

\* Everywhere but between the erasure of the area and its rewriting.
OutsideRewrite == {0, 1, 21, 22, 25}
DuringRewrite  == {23, 24}
Never == {}
=============================================================================
