--------------------------- MODULE DeviceManagerProofs --------------------------
(***************************************************************************)
(* What the proofs about both device managers share: the types of the      *)
(* table, the flash and the queue, when a slot of the flash agrees with    *)
(* the table, and lemmas about the operators of DeviceManager, for any     *)
(* number of peers, entries and keys.                                      *)
(***************************************************************************)
EXTENDS DeviceManager, FiniteSetTheorems, FunctionTheorems, WellFoundedInduction,
        SequenceTheorems, TLAPS

Bits == {"connected", "bonded", "encrypted", "pairing", "pending", "update"}
Entry == [ids : SUBSET {"addr", "irk"}, addr : Peer \cup {None}, ediv : Key \cup {None}]
Secret == Key \cup {None, Blank}
Block == [peer : Entry \cup {Blank}, bond : Secret, gatts : Context \cup {Blank}]
Pairing == {"authenticating", "params", "stk", "distributed"}
Link == [proc : Procedure \cup {None}, secured : BOOLEAN, cccd : Attributes, reply : Secret]
State == SUBSET Bits
Conn == [state : State, peer : Peer \cup {None}, dev : Slot \cup {None}]
Held == [Peer -> Key \cup {None}]
Operation == [op : {"clear", "store", "update"}, slot : Slot, part : {"all", "peer", "bond", "gatts"}]
Operations == Seq(Operation)

(* Something is queued for a slot; a slot of the link's, which did not     *)
(* bond; what the flash holds of an entry, or of none; the entry of a slot *)
(* is the one in flash.                                                    *)
Waits(s) == \E i \in 1 .. Len(queue) : queue[i].slot = s
Fresh(s) == s = conn.dev /\ ~Has("bonded")
Written(b) == b = EmptyBlock \/ (b.peer \in Entry /\ b.peer.ids # {})
Agree(e, b) == \/ e = Unassigned /\ b = EmptyBlock
               \/ e = b.peer /\ e.ids # {}

(* One entry per peer that can be recognised by its address. *)
Unique(t) == \A r, s \in Slot : t[r].addr \in Peer \ Resolvable /\ t[r].addr = t[s].addr
                                   => r = s

-----------------------------------------------------------------------------
\* Constants and operators.

LEMMA Constants ==
  /\ None \notin Peer /\ None \notin Slot /\ None \notin Key /\ Blank \notin Key
  /\ None \notin Procedure /\ Pairing \cup {"encrypting"} \subseteq Procedure
  /\ Blank # None /\ Garbled \notin Secret /\ Garbled # Blank
  /\ Blank \notin Entry /\ Garbled \notin Entry
  /\ Blank \notin Context /\ Garbled \notin Context
  /\ Slot = 0 .. MaxBonds - 1 /\ MaxBonds \in Nat \ {0} /\ QueueSize \in Nat \ {0}
  /\ Resolvable \subseteq Peer
<1>1. /\ None \notin Peer \cup Slot \cup Key \cup Procedure
      /\ {Blank, Garbled} \cap (Key \cup {None}) = {} /\ Blank # Garbled
      /\ MaxBonds \in Nat \ {0} /\ QueueSize \in Nat \ {0} /\ Resolvable \subseteq Peer
      /\ {Blank, Garbled} \cap Context = {}
  BY BondsAssumption
<1>2. \A e \in Entry : e \notin {Blank, Garbled}
  <2>1. \A ids \in SUBSET {"addr", "irk"}, p \in Peer \cup {None}, key \in Key \cup {None} :
          [ids |-> ids, addr |-> p, ediv |-> key] \notin {Blank, Garbled}
    BY BondsAssumption
  <2>2. ASSUME NEW e \in Entry  PROVE e = [ids |-> e.ids, addr |-> e.addr, ediv |-> e.ediv]
                                      /\ e.ids \in SUBSET {"addr", "irk"}
                                      /\ e.addr \in Peer \cup {None} /\ e.ediv \in Key \cup {None}
    BY DEF Entry
  <2> QED BY <2>1, <2>2
<1>3. Pairing \cup {"encrypting"} \subseteq Procedure
  BY DEF Pairing, Procedure
<1> QED BY <1>1, <1>2, <1>3 DEF Secret, Slot

LEMMA Values ==
  /\ Unassigned \in Entry /\ EmptyBlock \in Block /\ Down \in Link /\ Idle \in Conn
  /\ Unassigned.ids = {} /\ Unassigned.addr = None
  /\ EmptyBlock.peer = Blank /\ EmptyBlock.bond = Blank
  /\ Down.proc = None /\ ~Down.secured
  /\ Idle.state = {} /\ Idle.peer = None /\ Idle.dev = None
<1>1. Unassigned \in Entry /\ Unassigned.ids = {} /\ Unassigned.addr = None
  BY DEF Unassigned, Entry
<1>2. EmptyBlock \in Block /\ EmptyBlock.peer = Blank /\ EmptyBlock.bond = Blank
  BY DEF EmptyBlock, Block, Secret
<1>3. Down \in Link /\ Down.proc = None /\ ~Down.secured
  BY DEF Down, Link, Secret, Attributes
<1>4. {} \in State
  BY DEF State
<1>5. Idle \in Conn /\ Idle.state = {} /\ Idle.peer = None /\ Idle.dev = None
  BY <1>4 DEF Idle, Conn
<1> QED BY <1>1, <1>2, <1>3, <1>5

LEMMA EntryFields ==
  ASSUME NEW e \in Entry
  PROVE  e.addr \in Peer \cup {None} /\ e.ids \in SUBSET {"addr", "irk"}
BY DEF Entry

LEMMA LeastOf ==
  ASSUME NEW S \in SUBSET Slot, S # {}
  PROVE  Least(S) \in S
<1>1. S \subseteq Nat
  BY Constants
<1>2. PICK m \in S : \A n \in S : <<n, m>> \notin OpToRel(<, Nat)
  BY <1>1, NatLessThanWellFounded, WFMin
<1>3. \A n \in S : m <= n
  <2>1. \A n \in S : ~(n < m)
    BY <1>1, <1>2 DEF OpToRel
  <2> QED BY <1>1, <2>1
<1> QED BY <1>3 DEF Least

(* What a start-up makes of a block. *)
LEMMA Loads ==
  ASSUME NEW f \in [Slot -> Block], \A s \in Slot : Written(f[s])
  PROVE  /\ Loaded(f) \in [Slot -> Entry]
         /\ \A s \in Slot : Agree(Loaded(f)[s], f[s])
<1>1. ASSUME NEW s \in Slot  PROVE Loaded(f)[s] \in Entry /\ Agree(Loaded(f)[s], f[s])
  <2>1. Loaded(f)[s] = IF f[s].peer \in {Blank, Garbled} THEN Unassigned ELSE f[s].peer
    BY DEF Loaded
  <2>2. CASE f[s] = EmptyBlock
    BY <2>1, <2>2, Values DEF Agree
  <2>3. CASE f[s].peer \in Entry /\ f[s].peer.ids # {}
    BY <2>1, <2>3, Constants DEF Agree
  <2> QED BY <2>2, <2>3 DEF Written
<1>2. Loaded(f) = [s \in Slot |-> Loaded(f)[s]]
  BY DEF Loaded
<1> QED BY <1>1, <1>2

LEMMA AgreeLoads ==
  ASSUME NEW f \in [Slot -> Block], NEW s \in Slot, NEW e \in Entry, Agree(e, f[s])
  PROVE  e = Loaded(f)[s]
<1>1. Loaded(f)[s] = IF f[s].peer \in {Blank, Garbled} THEN Unassigned ELSE f[s].peer
  BY DEF Loaded
<1> QED BY <1>1, Constants, Values DEF Agree

LEMMA ConnFields ==
  ASSUME NEW c \in Conn, NEW state \in State, NEW d, d = [c EXCEPT !.state = state]
  PROVE  d \in Conn /\ d.state = state /\ d.peer = c.peer /\ d.dev = c.dev
BY DEF Conn

LEMMA LinkFields ==
  ASSUME NEW l \in Link, NEW proc \in Procedure \cup {None}, NEW secured \in BOOLEAN, NEW reply \in Secret,
         NEW m, m = [l EXCEPT !.proc = proc, !.secured = secured, !.reply = reply]
  PROVE  /\ m \in Link /\ m.proc = proc /\ m.secured = secured /\ m.reply = reply
BY DEF Link

LEMMA Allocates ==
  ASSUME NEW p \in Peer
  PROVE  /\ Allocated(p) \in Entry /\ Allocated(p).ids # {}
         /\ Allocated(p).addr = IF p \in Resolvable THEN None ELSE p
<1>1. CASE p \in Resolvable
  <2>1. Allocated(p) = [ids |-> {"irk"}, addr |-> None, ediv |-> None]
    BY <1>1 DEF Allocated, Unassigned
  <2> QED BY <1>1, <2>1 DEF Entry
<1>2. CASE p \notin Resolvable
  <2>1. Allocated(p) = [ids |-> {"addr"}, addr |-> p, ediv |-> None]
    BY <1>2 DEF Allocated
  <2> QED BY <1>2, <2>1 DEF Entry
<1> QED BY <1>1, <1>2

(* The entry of a peer that has bonded. *)
LEMMA BondedEntry ==
  ASSUME NEW e \in Entry, e.ids # {}, NEW p \in Peer, p \in Resolvable => e.addr = p,
         NEW key \in Key \cup {None}, NEW idKey \in BOOLEAN
  PROVE  LET b == Bonded(e, p, key, idKey)
         IN  b \in Entry /\ b.ids # {} /\ b.addr = p /\ b.ediv = key
<1>1. PICK ids \in SUBSET {"addr", "irk"} :
         /\ ids = e.ids \cup (IF idKey THEN {"irk"} ELSE {})
                        \cup (IF p \in Resolvable THEN {} ELSE {"addr"})
         /\ ids # {}
  BY DEF Entry
<1>2. Bonded(e, p, key, idKey) =
         [ids |-> ids, addr |-> IF p \in Resolvable THEN e.addr ELSE p, ediv |-> key]
  BY <1>1 DEF Bonded
<1>3. Bonded(e, p, key, idKey) = [ids |-> ids, addr |-> p, ediv |-> key]
  BY <1>2
<1> QED BY <1>1, <1>3 DEF Entry

-----------------------------------------------------------------------------
\* The queue.

LEMMA TailOf ==
  ASSUME NEW q \in Operations, q # <<>>
  PROVE  /\ Tail(q) \in Operations /\ Len(Tail(q)) = Len(q) - 1 /\ Len(q) >= 1
         /\ \A i \in 1 .. Len(q) : i # 1 => i - 1 \in 1 .. Len(Tail(q)) /\ Tail(q)[i - 1] = q[i]
         /\ \A i \in 1 .. Len(Tail(q)) : i + 1 \in 1 .. Len(q) /\ Tail(q)[i] = q[i + 1]
BY DEF Operations

(* The slots of a set in turn: every place has its slot. *)
Below(S, s) == {t \in S : t < s}
Turn(S, i) == CHOOSE s \in S : Cardinality(Below(S, s)) = i - 1

LEMMA TurnOf ==
  ASSUME NEW S \in SUBSET Slot
  PROVE  /\ IsFiniteSet(S) /\ Cardinality(S) \in Nat
         /\ \A i \in 1 .. Cardinality(S) : Turn(S, i) \in S
<1>1. IsFiniteSet(S) /\ Cardinality(S) \in Nat /\ S \subseteq Nat
  <2>1. Slot = 0 .. MaxBonds - 1 /\ MaxBonds \in Nat
    BY Constants
  <2>2. IsFiniteSet(Slot) /\ Slot \subseteq Nat
    BY <2>1, FS_Interval
  <2> QED BY <2>2, FS_Subset, FS_CardinalityType
<1>2. PICK n \in Nat : n = Cardinality(S)
  BY <1>1
<1>3. PICK rank : rank = [s \in S |-> Cardinality(Below(S, s))]
  OBVIOUS
<1>4. ASSUME NEW s \in S
      PROVE  IsFiniteSet(Below(S, s)) /\ Cardinality(Below(S, s)) \in 0 .. n - 1
  <2>1. Below(S, s) \in SUBSET S /\ Below(S, s) \in SUBSET (S \ {s})
    BY <1>1 DEF Below
  <2>2. IsFiniteSet(Below(S, s)) /\ Cardinality(Below(S, s)) \in Nat
    BY <1>1, <2>1, FS_Subset, FS_CardinalityType
  <2>3. IsFiniteSet(S \ {s}) /\ Cardinality(S \ {s}) = n - 1
    BY <1>1, <1>2, FS_RemoveElement
  <2>4. Cardinality(Below(S, s)) <= n - 1
    BY <2>1, <2>3, FS_Subset
  <2> QED BY <1>2, <2>2, <2>4
<1>5. ASSUME NEW r \in S, NEW s \in S, r < s
      PROVE  Cardinality(Below(S, r)) # Cardinality(Below(S, s))
  <2>1. Below(S, r) \cup {r} \in SUBSET Below(S, s) /\ r \notin Below(S, r)
    <3>1. \A t \in S : t < r => t < s
      BY <1>1, <1>5
    <3>2. ~(r < r)
      BY <1>1
    <3> QED BY <1>5, <3>1, <3>2 DEF Below
  <2>2. /\ IsFiniteSet(Below(S, r) \cup {r})
        /\ Cardinality(Below(S, r) \cup {r}) = Cardinality(Below(S, r)) + 1
    BY <1>4, <2>1, FS_AddElement
  <2>3. Cardinality(Below(S, r) \cup {r}) <= Cardinality(Below(S, s))
    BY <1>4, <2>1, FS_Subset
  <2> QED BY <1>4, <2>2, <2>3
<1>6. rank \in Injection(S, 0 .. n - 1)
  <2>1. rank \in [S -> 0 .. n - 1]
    BY <1>3, <1>4
  <2>2. \A r, s \in S : rank[r] = rank[s] => r = s
    <3>1. \A r, s \in S : r # s => r < s \/ s < r
      BY <1>1
    <3> QED BY <1>3, <1>5, <3>1
  <2> QED BY <2>1, <2>2 DEF Injection, IsInjective
<1>7. rank \in Surjection(S, 0 .. n - 1)
  <2>1. IsFiniteSet(0 .. n - 1) /\ Cardinality(0 .. n - 1) = n
    BY FS_Interval
  <2> QED BY <1>2, <1>6, <2>1, FS_Injection
<1>8. ASSUME NEW i \in 1 .. n  PROVE Turn(S, i) \in S
  <2>1. i - 1 \in 0 .. n - 1
    OBVIOUS
  <2>2. PICK s \in S : rank[s] = i - 1
    BY <1>7, <2>1 DEF Surjection
  <2>3. Cardinality(Below(S, s)) = i - 1
    BY <1>3, <2>2
  <2> QED BY <2>3 DEF Turn
<1> QED BY <1>1, <1>2, <1>8

(* Erasures are queued for slots of the set, for as many as there is room. *)
LEMMA Freed ==
  ASSUME NEW S \in SUBSET Slot, queue = <<>>
  PROVE  /\ QueueFreed(S) \in Operations /\ Len(QueueFreed(S)) <= QueueSize
         /\ S # {} => Len(QueueFreed(S)) >= 1
         /\ \A i \in 1 .. Len(QueueFreed(S)) :
               QueueFreed(S)[i].op = "clear" /\ QueueFreed(S)[i].slot \in S
         /\ \A s \in Slot :
               TableFreed(S)[s] = IF \E i \in 1 .. Len(QueueFreed(S)) : QueueFreed(S)[i].slot = s
                                  THEN Unassigned ELSE table[s]
<1>1. PICK n \in Nat : n = Cardinality(S)
  BY TurnOf
<1>2. PICK ops : ops = [i \in 1 .. n |-> Op("clear", Turn(S, i), "all")]
  OBVIOUS
<1>3. /\ ops \in Seq(Operation) /\ Len(ops) = n
      /\ \A i \in 1 .. n : ops[i].op = "clear" /\ ops[i].slot \in S
  <2>1. ASSUME NEW i \in 1 .. n
        PROVE  ops[i] \in Operation /\ ops[i].op = "clear" /\ ops[i].slot \in S
    <3>1. Turn(S, i) \in S /\ Turn(S, i) \in Slot
      BY <1>1, TurnOf
    <3>2. ops[i] = [op |-> "clear", slot |-> Turn(S, i), part |-> "all"]
      BY <1>2 DEF Op
    <3> QED BY <3>1, <3>2 DEF Operation
  <2> QED BY <1>2, <2>1
<1>4. PICK q : q = QueueFreed(S)
  OBVIOUS
<1>5. PICK m \in Nat : m = (IF n <= QueueSize THEN n ELSE QueueSize)
                      /\ q = <<>> \o SubSeq(ops, 1, m)
  <2>1. q = Queued(ops)
    BY <1>1, <1>2, <1>4 DEF QueueFreed, Turn, Below
  <2>2. Len(queue) = 0 /\ QueueSize \in Nat
    BY Constants
  <2>3. q = queue \o SubSeq(ops, 1, IF n <= QueueSize - 0 THEN n ELSE QueueSize - 0)
    BY <1>3, <2>1, <2>2 DEF Queued
  <2> QED BY <2>2, <2>3
<1>9. m <= n /\ m <= QueueSize /\ (n >= 1 => m >= 1)
  <2>1. QueueSize \in Nat \ {0}
    BY Constants
  <2> QED BY <1>5, <2>1
<1>6. /\ q \in Seq(Operation) /\ Len(q) = m
      /\ \A i \in 1 .. m : q[i] = ops[i]
  <2>1. \A i \in 1 .. m : ops[i] \in Operation
    BY <1>3, <1>9, ElementOfSeq
  <2>2. /\ SubSeq(ops, 1, m) \in Seq(Operation)
        /\ Len(SubSeq(ops, 1, m)) = m
        /\ \A i \in 1 .. m : SubSeq(ops, 1, m)[i] = ops[i]
    BY <1>3, <1>9, <2>1, SubSeqProperties
  <2>3. q = SubSeq(ops, 1, m)
    BY <1>5, <2>2
  <2> QED BY <2>2, <2>3
<1>7. /\ q \in Operations /\ Len(q) <= QueueSize /\ (S # {} => Len(q) >= 1)
      /\ \A i \in 1 .. Len(q) : q[i].op = "clear" /\ q[i].slot \in S
  <2>1. S # {} => n >= 1
    BY <1>1, TurnOf, FS_EmptySet
  <2> QED BY <1>3, <1>6, <1>9, <2>1 DEF Operations
<1>8. ASSUME NEW s \in Slot
      PROVE  TableFreed(S)[s] = IF \E i \in 1 .. Len(q) : q[i].slot = s
                                THEN Unassigned ELSE table[s]
  <2>1. Len(queue) + 1 = 1
    OBVIOUS
  <2>2. s \in {q[i].slot : i \in 1 .. Len(q)} <=> \E i \in 1 .. Len(q) : q[i].slot = s
    OBVIOUS
  <2>3. TableFreed(S) = [r \in Slot |-> IF r \in {q[i].slot : i \in 1 .. Len(q)}
                                         THEN Unassigned ELSE table[r]]
    BY <1>4, <2>1 DEF TableFreed
  <2> QED BY <2>2, <2>3
<1> QED BY <1>4, <1>7, <1>8

-----------------------------------------------------------------------------
\* The whitelist.

(* A whitelist with a place for every slot leaves none out. *)
LEMMA AllListed ==
  ASSUME NEW kind \in {"addr", "irk"}, NEW s \in Slot, kind \in table[s].ids, conn.dev # s
  PROVE  s \in Whitelist(MaxBonds, MaxBonds)
<1>1. PICK all : all = {r \in Slot : kind \in table[r].ids /\ conn.dev # r}
  OBVIOUS
<1>2. PICK below : below = {t \in all : t < s}
  OBVIOUS
<1>3. s \in Nat /\ s < MaxBonds /\ MaxBonds \in Nat
  BY Constants
<1>4. below \subseteq 0 .. s - 1
  BY <1>1, <1>2, <1>3 DEF Slot
<1>5. IsFiniteSet(0 .. s - 1) /\ Cardinality(0 .. s - 1) = s
  BY <1>3, FS_Interval
<1>6. Cardinality(below) <= s /\ Cardinality(below) \in Nat
  BY <1>4, <1>5, FS_Subset, FS_CardinalityType
<1>7. Cardinality(below) < MaxBonds
  BY <1>3, <1>6
<1>8. s \in Listed(kind, MaxBonds)
  BY <1>1, <1>2, <1>7 DEF Listed
<1> QED BY <1>8 DEF Whitelist

=============================================================================
