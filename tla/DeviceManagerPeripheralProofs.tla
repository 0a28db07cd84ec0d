--------------------- MODULE DeviceManagerPeripheralProofs ---------------------
(***************************************************************************)
(* Theorems about the bonds of the device build (DeviceManagerPeripheral): *)
(* its table, the flash, the bond and context buffers and the keys its     *)
(* phones count on, for any number of phones, entries and keys, whatever   *)
(* fails.                                                                  *)
(*                                                                         *)
(* The invariant has six parts beside the types.  Session is the record of *)
(* the link; Stored says what each slot of the flash has in common with    *)
(* the table, by what the queue still holds for it; Named, whose address   *)
(* an entry has; Traced, that keys stay with the phone they were made for; *)
(* Keys, where the key is that a phone counts on; Answered, what the link  *)
(* was told.                                                               *)
(***************************************************************************)
EXTENDS DeviceManagerPeripheral, DeviceManagerProofs

(* Flash operations end before the next link event, and the queue of       *)
(* pstorage has room for the three parts of a block.                       *)
Orderly == Prompt /\ QueueSize >= 3

-----------------------------------------------------------------------------
\* The invariant.

Gatts == [kept : BOOLEAN, attrs : Attributes]
Types ==
    /\ conn \in Conn /\ table \in [Slot -> Entry] /\ bond \in Secret
    /\ flash \in [Slot -> Block] /\ link \in Link /\ queue \in Operations
    /\ peers \in [held : Held, owed : Held, keys : 0 .. MaxKeys]
    /\ gatts \in Gatts

Session ==
    /\ conn = Idle \/ (Has("connected") /\ conn.peer \in Peer)
    /\ conn = Idle => link = Down
    /\ Has("bonded") => conn.dev # None
    /\ Has("encrypted") => link.secured
    /\ link.proc \in {"params", "stk", "distributed"} =>
          conn.dev # None /\ (Has("bonded") => Has("update"))
    /\ link.proc \in {"stk", "distributed"} => link.secured
    /\ link.proc \in {"known", "unknown"} => ~link.secured
    /\ conn.dev # None => Has("bonded") \/ link.secured \/ link.proc = "params"
    /\ queue # <<>> =>
          link.proc = None /\ (conn = Idle \/ (Has("bonded") /\ link.secured))

(* What the queue may hold: parts of the block of a slot, each once and    *)
(* the entry first, or erasures.                                           *)
Storing(s) ==
    /\ \A i \in 1 .. Len(queue) :
          /\ queue[i].slot = s /\ queue[i].op # "clear" /\ queue[i].part # "all"
          /\ queue[i].op = "store" => flash[s][queue[i].part] = Blank
          /\ queue[i].part = "peer" => i = 1
          /\ queue[i].part = "gatts" => gatts.kept
    /\ \A i, j \in 1 .. Len(queue) : queue[i].part = queue[j].part => i = j
    /\ flash[s].peer = table[s] \/ queue[1].part = "peer"
    /\ table[s].ids # {} /\ conn.dev \in {s, None}
    /\ bond \in Key => bond[1] = table[s].addr
    /\ flash[s].bond \in Key => flash[s].bond[1] = table[s].addr
Clearing ==
    /\ conn = Idle
    /\ \A i \in 1 .. Len(queue) :
          queue[i].op = "clear" /\ table[queue[i].slot] = Unassigned

(* A slot nothing is queued for holds the entry, or nothing, or the link is *)
(* about to bond.  A context without a size has never been stored.          *)
Stored ==
    /\ Len(queue) <= QueueSize
    /\ queue = <<>> \/ Clearing \/ \E s \in Slot : Storing(s)
    /\ \A s \in Slot : Written(flash[s])
    /\ \A s \in Slot : Waits(s) \/ Fresh(s) \/ Agree(table[s], flash[s])
    /\ conn.dev # None /\ ~Has("bonded") =>
          flash[conn.dev] = EmptyBlock /\ table[conn.dev].ids # {}
    /\ conn.dev # None /\ ~gatts.kept => flash[conn.dev].gatts = Blank

(* One entry per phone that can be recognised by its address.              *)
Named ==
    /\ conn.dev # None =>
          /\ table[conn.dev].addr \in {conn.peer, None}
          /\ conn.peer \notin Resolvable \/ Has("bonded") \/ link.proc = "distributed"
                => table[conn.dev].addr = conn.peer
    /\ conn # Idle /\ conn.dev = None => FoundByAddress(conn.peer) = {}
    /\ Unique(table) /\ Unique(Loaded(flash))

(* The key of an entry was made with its phone, and is no other entry's.   *)
Own(e) == e.ediv \in Key => e.ediv[1] = e.addr /\ e.ediv[2] <= peers.keys
Distinct(t) == \A r, s \in Slot : t[r].ediv \in Key /\ t[r].ediv = t[s].ediv => r = s
Traced ==
    /\ \A s \in Slot : Own(table[s])
    /\ \A s \in Slot : flash[s].peer \in Entry =>
          Own(flash[s].peer) /\ (flash[s].bond \in Key => flash[s].bond[1] = flash[s].peer.addr)
    /\ Distinct(table) /\ Distinct(Loaded(flash))
    /\ \A p \in Peer : peers.held[p] \in Key => peers.held[p][1] = p
    /\ Has("bonded") /\ bond \in Key => bond[1] = conn.peer
    /\ link.proc = "distributed" =>
          /\ bond = peers.held[conn.peer] /\ bond \in Key /\ bond[2] <= peers.keys
          /\ \A s \in Slot : table[s].ediv # bond

(* The key a slot will have once the queue is empty. *)
Will(s) == IF \E i \in 1 .. Len(queue) : queue[i].slot = s /\ queue[i].part = "bond"
           THEN bond ELSE flash[s].bond
Safe(p, s) == /\ table[s].addr = p /\ table[s].ids # {} /\ Will(s) = peers.owed[p]
              /\ p \in Resolvable => table[s].ediv = peers.owed[p]
Keeps(p) == \E s \in Slot : Safe(p, s)
Keys ==
    \A p \in Peer : peers.owed[p] # None =>
       /\ peers.held[p] = peers.owed[p] /\ Keeps(p)
       /\ conn.peer = p /\ Has("bonded") => bond = peers.owed[p]

Answered ==
    /\ link.proc = "unknown" => peers.held[conn.peer] # peers.owed[conn.peer]
    /\ link.reply \in Key => link.reply[1] = conn.peer

Inv == Types /\ Session /\ Stored /\ Named /\ Traced /\ Keys /\ Answered

-----------------------------------------------------------------------------
\* What the parts depend on.

LEMMA Nothing ==
  /\ Unassigned.ediv = None /\ EmptyBlock.gatts = Blank /\ Down.reply = None
  /\ NoContext \in Gatts /\ ~NoContext.kept /\ <<>> \in Operations /\ None \in Secret
BY DEF Unassigned, EmptyBlock, Down, NoContext, Gatts, Attributes, Operations, Secret

LEMMA Names ==
  /\ {"params", "stk", "distributed", "known", "unknown"} \subseteq Procedure
  /\ None \notin {"params", "stk", "distributed", "known", "unknown"}
<1>1. {"params", "stk", "distributed", "known", "unknown"} \subseteq Procedure
  BY DEF Procedure
<1> QED BY <1>1, Constants

(* With nothing queued, every entry but that of a link about to bond is    *)
(* the one in flash, and a slot will have the key it has.                  *)
LEMMA Settled ==
  ASSUME Stored, queue = <<>>, NEW s \in Slot
  PROVE  /\ ~Fresh(s) => Agree(table[s], flash[s])
         /\ Will(s) = flash[s].bond
BY DEF Stored, Waits, Will

LEMMA SameStored ==
  ASSUME Stored, UNCHANGED <<table, bond, queue, flash>>, gatts'.kept = gatts.kept,
         conn'.dev = conn.dev, Has("bonded")' <=> Has("bonded"), conn = Idle => conn' = Idle
  PROVE  Stored'
<1>1. Clearing => Clearing'
  BY DEF Clearing
<1>2. \A s \in Slot : Storing(s) => Storing(s)'
  BY DEF Storing
<1>3. \A s \in Slot : (Waits(s) => Waits(s)') /\ (Fresh(s) => Fresh(s)')
  BY DEF Waits, Fresh
<1> QED BY <1>1, <1>2, <1>3 DEF Stored

LEMMA SameNamed ==
  ASSUME Named, UNCHANGED <<table, flash>>, conn'.dev = conn.dev, conn'.peer = conn.peer,
         Has("bonded")' => Has("bonded"), conn' # Idle => conn # Idle,
         link'.proc = "distributed" => link.proc = "distributed"
  PROVE  Named'
BY DEF Named, Unique, Loaded, FoundByAddress

LEMMA SameTraced ==
  ASSUME Traced, UNCHANGED <<table, bond, flash, peers>>, conn'.peer = conn.peer,
         Has("bonded")' => Has("bonded"),
         link'.proc = "distributed" => link.proc = "distributed"
  PROVE  Traced'
<1>1. \A e : Own(e)' <=> Own(e)
  BY DEF Own
<1> QED BY <1>1 DEF Traced, Distinct, Loaded, Own

LEMMA SameKeys ==
  ASSUME Keys, UNCHANGED <<table, bond, queue, flash, peers>>, conn'.peer = conn.peer,
         Has("bonded")' => Has("bonded")
  PROVE  Keys'
<1>1. \A p \in Peer : Keeps(p) => Keeps(p)'
  BY DEF Keeps, Safe, Will
<1> QED BY <1>1 DEF Keys

(* A step of the link alone. *)
LEMMA LinkFrame ==
  ASSUME Inv, Session', conn # Idle, conn' \in Conn, link' \in Link, gatts' \in Gatts,
         UNCHANGED <<table, bond, queue, flash, peers>>, gatts'.kept = gatts.kept,
         conn'.dev = conn.dev, conn'.peer = conn.peer, Has("bonded")' <=> Has("bonded"),
         link'.proc = "distributed" => link.proc = "distributed",
         link'.proc = "unknown" => link.proc = "unknown",
         link'.reply \in Key => link'.reply = link.reply
  PROVE  Inv'
<1>1. Types'
  BY DEF Inv, Types
<1>2. Stored' /\ Named' /\ Traced' /\ Keys'
  BY SameStored, SameNamed, SameTraced, SameKeys DEF Inv
<1>3. Answered'
  BY DEF Inv, Answered
<1> QED BY <1>1, <1>2, <1>3 DEF Inv

LEMMA InitInv ==
  ASSUME Init
  PROVE  Inv
<1>1. /\ conn = Idle /\ bond = None /\ queue = <<>> /\ link = Down /\ gatts = NoContext
      /\ table = [s \in Slot |-> Unassigned] /\ flash = [s \in Slot |-> EmptyBlock]
      /\ peers = [held |-> [p \in Peer |-> None], owed |-> [p \in Peer |-> None], keys |-> 0]
  BY DEF Init, InitCommon
<1>2. Types
  <2>1. 0 \in 0 .. MaxKeys
    BY BondsAssumption
  <2>2. peers \in [held : Held, owed : Held, keys : 0 .. MaxKeys]
    BY <1>1, <2>1 DEF Held
  <2> QED BY <1>1, <2>2, Values, Nothing DEF Types
<1>3. Session
  BY <1>1, Values, Names DEF Session, Has
<1>4. Stored
  <2>1. \A s \in Slot : Agree(table[s], flash[s]) /\ Written(flash[s])
    BY <1>1 DEF Agree, Written
  <2>2. Len(queue) <= QueueSize
    BY <1>1, Constants
  <2> QED BY <1>1, <2>1, <2>2, Values DEF Stored
<1>5. \A s \in Slot : table[s] = Unassigned /\ Loaded(flash)[s] = Unassigned
                      /\ flash[s].peer = Blank
  BY <1>1, Values DEF Loaded
<1>6. Named
  <2>1. Unique(table) /\ Unique(Loaded(flash))
    BY <1>5, Values, Constants DEF Unique
  <2> QED BY <1>1, <2>1, Values DEF Named
<1>7. Traced
  <2>1. Distinct(table) /\ Distinct(Loaded(flash)) /\ \A s \in Slot : Own(table[s])
    BY <1>5, Nothing, Constants DEF Distinct, Own
  <2>2. \A p \in Peer : peers.held[p] = None
    BY <1>1
  <2>3. link.proc = None /\ ~Has("bonded")
    BY <1>1, Values DEF Has
  <2> QED BY <1>5, <2>1, <2>2, <2>3, Names, Constants DEF Traced
<1>8. Keys /\ Answered
  <2>1. \A p \in Peer : peers.owed[p] = None
    BY <1>1
  <2>2. link.proc = None /\ link.reply = None
    BY <1>1, Values, Nothing
  <2> QED BY <2>1, <2>2, Names, Constants DEF Keys, Answered
<1> QED BY <1>2, <1>3, <1>4, <1>6, <1>7, <1>8 DEF Inv

-----------------------------------------------------------------------------
\* Starting again.

(* What a restart may find in flash. *)
Sound(f) ==
    /\ f \in [Slot -> Block] /\ Unique(Loaded(f)) /\ Distinct(Loaded(f))
    /\ \A s \in Slot : Written(f[s])
    /\ \A s \in Slot : f[s].peer \in Entry =>
          Own(f[s].peer) /\ (f[s].bond \in Key => f[s].bond[1] = f[s].peer.addr)

LEMMA FlashSound ==
  ASSUME Inv
  PROVE  Sound(flash)
BY DEF Inv, Types, Stored, Named, Traced, Sound

LEMMA ErasedSound ==
  ASSUME Inv, NEW s \in Slot, NEW f, f = [flash EXCEPT ![s] = EmptyBlock]
  PROVE  Sound(f)
<1>1. /\ f \in [Slot -> Block] /\ f[s] = EmptyBlock
      /\ \A r \in Slot : r # s => f[r] = flash[r]
  BY Values DEF Inv, Types
<1>2. /\ Loaded(f)[s] = Unassigned
      /\ \A r \in Slot : r # s => Loaded(f)[r] = Loaded(flash)[r]
  BY <1>1, Values DEF Loaded
<1>3. Unique(Loaded(f))
  BY <1>2, Values, Constants DEF Inv, Named, Unique
<1>4. Distinct(Loaded(f))
  BY <1>2, Nothing, Constants DEF Inv, Traced, Distinct
<1>5. \A r \in Slot : Written(f[r])
  BY <1>1 DEF Inv, Stored, Written
<1>6. \A r \in Slot : f[r].peer \in Entry =>
         Own(f[r].peer) /\ (f[r].bond \in Key => f[r].bond[1] = f[r].peer.addr)
  BY <1>1, Values, Constants DEF Inv, Traced
<1> QED BY <1>1, <1>3, <1>4, <1>5, <1>6 DEF Sound

LEMMA CrashInv ==
  ASSUME Inv, NEW f, Sound(f), NEW revoked \in SUBSET Peer, Restart(f, revoked),
         \A s \in Slot : f[s] = flash[s] \/ Waits(s) \/ table[s].addr \in revoked \cup {None}
  PROVE  Inv'
<1>1. /\ flash' = f /\ table' = Loaded(f) /\ conn' = Idle /\ bond' = None /\ queue' = <<>>
      /\ link' = Down /\ gatts' = NoContext
      /\ peers' = [peers EXCEPT !.owed = [p \in Peer |->
                      IF Pending(p) \/ p \in revoked THEN None ELSE @[p]]]
  BY DEF Restart, StartsAgain
<1>2. peers \in [held : Held, owed : Held, keys : 0 .. MaxKeys]
  BY DEF Inv, Types
<1>3. /\ peers' \in [held : Held, owed : Held, keys : 0 .. MaxKeys]
      /\ peers'.held = peers.held /\ peers'.keys = peers.keys
      /\ \A p \in Peer : peers'.owed[p] # None =>
            ~Pending(p) /\ p \notin revoked /\ peers'.owed[p] = peers.owed[p]
  BY <1>1, <1>2 DEF Held
<1>4. /\ table' \in [Slot -> Entry] /\ \A s \in Slot : Agree(table'[s], f[s])
      /\ \A s \in Slot : Written(f[s])
  BY <1>1, Loads DEF Sound
<1>5. Types'
  BY <1>1, <1>3, <1>4, Values, Nothing DEF Types, Sound
<1>6. link'.proc = None /\ link'.reply = None /\ ~Has("bonded")' /\ conn'.dev = None
  BY <1>1, Values, Nothing DEF Has
<1>7. Session'
  BY <1>1, <1>6, Values, Names DEF Session, Has
<1>8. Stored'
  <2>1. Len(queue') <= QueueSize
    BY <1>1, Constants
  <2> QED BY <1>1, <1>4, <1>6, <2>1 DEF Stored
<1>9. Named'
  BY <1>1, <1>6 DEF Named, Sound
<1>10. Traced'
  <2>1. \A e : Own(e)' <=> Own(e)
    BY <1>3 DEF Own
  <2>2. \A s \in Slot : Own(table'[s])
    <3>1. Own(Unassigned)
      BY Nothing, Constants DEF Own
    <3> QED BY <1>4, <3>1 DEF Agree, Sound
  <2>3. Distinct(table)' /\ Distinct(Loaded(flash))'
    BY <1>1 DEF Sound, Distinct, Loaded
  <2>4. \A s \in Slot : f[s].peer \in Entry =>
           Own(f[s].peer)' /\ (f[s].bond \in Key => f[s].bond[1] = f[s].peer.addr)
    BY <2>1 DEF Sound
  <2>5. \A s \in Slot : Own(table[s])'
    BY <1>3, <2>2 DEF Own
  <2>6. link'.proc # "distributed" /\ ~Has("bonded")'
    BY <1>6, Names
  <2>7. \A p \in Peer : peers'.held[p] \in Key => peers'.held[p][1] = p
    BY <1>3 DEF Inv, Traced
  <2>8. \A s \in Slot : flash'[s].peer \in Entry =>
           Own(flash[s].peer)' /\ (flash'[s].bond \in Key => flash'[s].bond[1] = flash'[s].peer.addr)
    BY <1>1, <2>4 DEF Own
  <2> QED BY <2>3, <2>5, <2>6, <2>7, <2>8 DEF Traced
<1>11. Keys'
  <2>1. ASSUME NEW p \in Peer, peers'.owed[p] # None
        PROVE  peers'.held[p] = peers'.owed[p] /\ Keeps(p)'
    <3>1. /\ ~Pending(p) /\ p \notin revoked /\ peers'.owed[p] = peers.owed[p]
          /\ peers.owed[p] \in Key
      BY <1>2, <1>3, <2>1 DEF Held
    <3>2. peers.held[p] = peers.owed[p] /\ Keeps(p)
      BY <2>1, <3>1 DEF Inv, Keys
    <3>3. PICK s \in Slot : Safe(p, s)
      BY <3>2 DEF Keeps
    <3>4. table[s].addr = p /\ Will(s) = peers.owed[p]
      BY <3>3 DEF Safe
    <3>5. ~Waits(s) /\ p # None
      BY <3>1, <3>4, Constants DEF Pending, Waits
    <3>6. f[s] = flash[s]
      BY <3>1, <3>4, <3>5
    <3>7. flash[s].bond = peers.owed[p]
      BY <3>4, <3>5 DEF Will, Waits
    <3>8. ~Fresh(s)
      <4>1. flash[s].bond # Blank
        BY <3>1, <3>7, Constants
      <4> QED BY <4>1, Values, Constants DEF Inv, Stored, Fresh
    <3>9. Agree(table[s], flash[s]) /\ table[s] \in Entry
      BY <3>5, <3>8 DEF Inv, Stored, Types
    <3>10. table'[s] = table[s]
      BY <1>1, <3>6, <3>9, AgreeLoads DEF Sound
    <3>11. Will(s)' = f[s].bond
      BY <1>1 DEF Will
    <3>12. Safe(p, s)'
      BY <3>1, <3>3, <3>4, <3>6, <3>7, <3>10, <3>11 DEF Safe
    <3> QED BY <1>3, <3>1, <3>2, <3>12 DEF Keeps
  <2> QED BY <1>6, <2>1 DEF Keys
<1>12. Answered'
  BY <1>6, Names, Constants DEF Answered
<1> QED BY <1>5, <1>7, <1>8, <1>9, <1>10, <1>11, <1>12 DEF Inv

-----------------------------------------------------------------------------
\* Encryption, and what the phone configures.

LEMMA OnLink ==
  ASSUME Inv, link.proc # None
  PROVE  conn # Idle /\ conn \in Conn /\ link \in Link /\ queue = <<>> /\ conn.peer \in Peer
         /\ gatts \in Gatts /\ Has("connected")
BY Values DEF Inv, Types, Session

(* The state bits of a link of the same phone. *)
LEMMA BitsSet ==
  ASSUME conn \in Conn, NEW state \in State, conn' = [conn EXCEPT !.state = state],
         "connected" \in state
  PROVE  /\ conn' \in Conn /\ conn'.state = state
         /\ conn'.peer = conn.peer /\ conn'.dev = conn.dev /\ conn' # Idle
<1>1. /\ conn' \in Conn /\ conn'.state = state /\ conn'.peer = conn.peer /\ conn'.dev = conn.dev
  BY ConnFields
<1> QED BY <1>1, Values

LEMMA ZeroedKept ==
  ASSUME gatts \in Gatts
  PROVE  Zeroed(gatts) \in Gatts /\ Zeroed(gatts).kept = gatts.kept
BY DEF Zeroed, Gatts, Attributes

LEMMA AuthUnbondedInv ==
  ASSUME Inv, AuthUnbonded
  PROVE  Inv'
<1>1. /\ link.proc = "stk" /\ conn' = [conn EXCEPT !.state = @ \ {"pairing"}]
      /\ link' = [link EXCEPT !.proc = None]
      /\ UNCHANGED <<table, bond, queue, flash, peers, gatts>>
  BY DEF AuthUnbonded
<1>2. /\ conn # Idle /\ conn \in Conn /\ link \in Link /\ queue = <<>> /\ conn.peer \in Peer
      /\ gatts \in Gatts /\ Has("connected")
  BY <1>1, Names, OnLink
<1>3. PICK state \in State : state = conn.state \ {"pairing"}
                             /\ conn' = [conn EXCEPT !.state = state]
  BY <1>1, <1>2 DEF Conn, State
<1>4. /\ conn' \in Conn /\ conn'.state = state
      /\ conn'.peer = conn.peer /\ conn'.dev = conn.dev /\ conn' # Idle
  BY <1>2, <1>3, BitsSet DEF Has
<1>5. link' \in Link /\ link'.proc = None /\ link'.secured = link.secured /\ link'.reply = link.reply
  BY <1>1, <1>2 DEF Link
<1>6. link.secured /\ conn.dev # None
  BY <1>1 DEF Inv, Session
<1>7. Session'
  BY <1>1, <1>2, <1>3, <1>4, <1>5, <1>6, Names DEF Inv, Session, Has
<1>8. Has("bonded")' <=> Has("bonded")
  BY <1>3, <1>4 DEF Has
<1> QED BY <1>1, <1>2, <1>4, <1>5, <1>7, <1>8, Names, LinkFrame

LEMMA SecUpdateEncryptedInv ==
  ASSUME Inv, SecUpdateEncrypted
  PROVE  Inv'
<1>1. /\ link.proc \in {"known", "params"}
      /\ conn' = [conn EXCEPT !.state = conn.state \cup {"encrypted"}]
      /\ link' = [link EXCEPT !.secured = TRUE, !.cccd = Applied(conn.state \cup {"encrypted"}),
                              !.proc = IF @ = "known" THEN None ELSE "stk"]
      /\ UNCHANGED <<table, bond, queue, flash, peers, gatts>>
  BY DEF SecUpdateEncrypted
<1>2. /\ conn # Idle /\ conn \in Conn /\ link \in Link /\ queue = <<>> /\ conn.peer \in Peer
      /\ gatts \in Gatts /\ Has("connected")
  BY <1>1, Names, OnLink
<1>3. PICK state \in State : state = conn.state \cup {"encrypted"}
  BY <1>2 DEF Conn, State, Bits
<1>4. /\ conn' \in Conn /\ conn'.state = state
      /\ conn'.peer = conn.peer /\ conn'.dev = conn.dev /\ conn' # Idle
  BY <1>1, <1>2, <1>3, BitsSet DEF Has
<1>5. PICK attrs \in Attributes : attrs = Applied(state)
  BY <1>2 DEF Applied, Gatts, Link, Attributes
<1>6. PICK proc \in {None, "stk"} : proc = IF link.proc = "known" THEN None ELSE "stk"
  OBVIOUS
<1>7. link' = [link EXCEPT !.secured = TRUE, !.cccd = attrs, !.proc = proc]
  BY <1>1, <1>2, <1>3, <1>5, <1>6 DEF Link
<1>8. link' \in Link /\ link'.proc = proc /\ link'.secured /\ link'.reply = link.reply
  BY <1>2, <1>6, <1>7, Names DEF Link
<1>9. Has("bonded")' <=> Has("bonded")
  BY <1>3, <1>4 DEF Has
<1>10. link.proc = "params" => conn.dev # None /\ (Has("bonded") => Has("update"))
  BY DEF Inv, Session
<1>11. link.proc = "known" => proc = None
  BY <1>6
<1>12. link.proc = "params" => proc = "stk"
  BY <1>6
<1>13. Session'
  BY <1>1, <1>2, <1>3, <1>4, <1>8, <1>9, <1>10, <1>11, <1>12, Names DEF Inv, Session, Has
<1> QED BY <1>1, <1>2, <1>4, <1>6, <1>8, <1>9, <1>13, Names, LinkFrame

LEMMA SecUpdateOpenInv ==
  ASSUME Inv, SecUpdateOpen
  PROVE  Inv'
<1>1. /\ link.proc = "unknown" /\ Has("bonded")
      /\ conn' = [conn EXCEPT !.state = @ \cup {"pending", "update"}]
      /\ gatts' = Zeroed(gatts)
      /\ link' = [link EXCEPT !.proc = None, !.reply = None]
      /\ UNCHANGED <<table, bond, queue, flash, peers>>
  BY DEF SecUpdateOpen
<1>2. /\ conn # Idle /\ conn \in Conn /\ link \in Link /\ queue = <<>> /\ conn.peer \in Peer
      /\ gatts \in Gatts /\ Has("connected")
  BY <1>1, Names, OnLink
<1>3. PICK state \in State : state = conn.state \cup {"pending", "update"}
                             /\ conn' = [conn EXCEPT !.state = state]
  BY <1>1, <1>2 DEF Conn, State, Bits
<1>4. /\ conn' \in Conn /\ conn'.state = state
      /\ conn'.peer = conn.peer /\ conn'.dev = conn.dev /\ conn' # Idle
  BY <1>2, <1>3, BitsSet DEF Has
<1>5. link' \in Link /\ link'.proc = None /\ link'.secured = link.secured /\ link'.reply = None
  BY <1>1, <1>2, Nothing DEF Link
<1>6. Has("bonded")' <=> Has("bonded")
  BY <1>3, <1>4 DEF Has
<1>7. gatts' \in Gatts /\ gatts'.kept = gatts.kept
  BY <1>1, <1>2, ZeroedKept
<1>8. Session'
  BY <1>1, <1>2, <1>3, <1>4, <1>5, <1>6, Names DEF Inv, Session, Has
<1>9. link'.reply \notin Key /\ link'.proc # "distributed" /\ link'.proc # "unknown"
  BY <1>5, Constants, Names
<1> QED BY <1>1, <1>2, <1>4, <1>6, <1>5, <1>7, <1>8, <1>9, LinkFrame

(* What the phone reads or writes of its configuration. *)
LEMMA AttributesInv ==
  ASSUME Inv, SysAttrMissing \/ Subscribe
  PROVE  Inv'
<1>1. PICK attrs : link' = [link EXCEPT !.cccd = attrs]
                   /\ (attrs = Applied(conn.state) \/ attrs = conn.peer)
  BY DEF SysAttrMissing, Subscribe
<1>2. Has("connected") /\ UNCHANGED <<conn, table, bond, queue, flash, peers, gatts>>
  BY DEF SysAttrMissing, Subscribe
<1>3. conn # Idle /\ conn \in Conn /\ link \in Link /\ conn.peer \in Peer /\ gatts \in Gatts
  BY <1>2, Values DEF Inv, Types, Session, Has
<1>4. attrs \in Attributes
  BY <1>1, <1>3 DEF Applied, Gatts, Link, Attributes
<1>5. /\ link' \in Link /\ link'.proc = link.proc
      /\ link'.secured = link.secured /\ link'.reply = link.reply
  BY <1>1, <1>3, <1>4 DEF Link
<1>6. Session'
  BY <1>2, <1>3, <1>5 DEF Inv, Session, Has
<1> QED BY <1>2, <1>3, <1>5, <1>6, LinkFrame DEF Has

LEMMA PeerForgetsInv ==
  ASSUME Inv, NEW p \in Peer, PeerForgets(p)
  PROVE  Inv'
<1>1. /\ conn.peer # p /\ peers' = [peers EXCEPT !.held[p] = None, !.owed[p] = None]
      /\ UNCHANGED <<conn, table, bond, queue, flash, link, gatts>>
  BY DEF PeerForgets, Forgotten
<1>2. /\ peers' \in [held : Held, owed : Held, keys : 0 .. MaxKeys]
      /\ peers'.owed[p] = None /\ peers'.held[p] = None /\ peers'.keys = peers.keys
      /\ \A q \in Peer : q # p => peers'.held[q] = peers.held[q] /\ peers'.owed[q] = peers.owed[q]
  BY <1>1 DEF Inv, Types, Held
<1>3. Types' /\ Session'
  BY <1>1, <1>2 DEF Inv, Types, Session, Has
<1>4. Stored' /\ Named'
  BY <1>1, SameStored, SameNamed DEF Inv, Has
<1>5. link.proc # None => conn.peer \in Peer
  BY OnLink
<1>6. Traced'
  <2>1. \A e : Own(e)' <=> Own(e)
    BY <1>2 DEF Own
  <2>2. Distinct(table)' /\ Distinct(Loaded(flash))'
    BY <1>1 DEF Inv, Traced, Distinct, Loaded
  <2>3. \A q \in Peer : peers'.held[q] \in Key => peers'.held[q][1] = q
    BY <1>2, Constants DEF Inv, Traced
  <2>4. link.proc = "distributed" =>
           bond = peers'.held[conn.peer] /\ bond \in Key /\ bond[2] <= peers'.keys
    BY <1>1, <1>2, <1>5, Names DEF Inv, Traced
  <2>5. \A s \in Slot : Own(table[s])'
    BY <1>1, <2>1 DEF Inv, Traced, Own
  <2>6. \A s \in Slot : flash[s].peer \in Entry =>
           Own(flash[s].peer)' /\ (flash[s].bond \in Key => flash[s].bond[1] = flash[s].peer.addr)
    BY <1>1, <2>1 DEF Inv, Traced, Own
  <2> QED BY <1>1, <2>2, <2>3, <2>4, <2>5, <2>6 DEF Inv, Traced, Has
<1>7. Keys'
  <2>1. \A q \in Peer : q # p /\ Keeps(q) => Keeps(q)'
    BY <1>1, <1>2 DEF Keeps, Safe, Will
  <2> QED BY <1>1, <1>2, <2>1 DEF Inv, Keys, Has
<1>8. Answered'
  BY <1>1, <1>2, <1>5, Names DEF Inv, Answered
<1> QED BY <1>3, <1>4, <1>6, <1>7, <1>8 DEF Inv

-----------------------------------------------------------------------------
\* Phones that come, and are recognised.

(* A slot whose entry is a phone's, with nothing queued: its block is the  *)
(* entry's, and its key the phone's.                                       *)
LEMMA LoadsOwn ==
  ASSUME Inv, queue = <<>>, NEW p \in Peer, NEW s \in Slot, table[s].addr = p, ~Fresh(s)
  PROVE  /\ table[s].ids # {} /\ flash[s].peer = table[s] /\ table[s] \in Entry
         /\ BondLoaded(s) \in Secret /\ (BondLoaded(s) \in Key => BondLoaded(s)[1] = p)
         /\ GattsLoaded(s) \in Gatts
         /\ ~GattsLoaded(s).kept => flash[s].gatts = Blank
         /\ BondLoaded(s) = flash[s].bond
<1>1. flash[s] \in Block /\ table[s] \in Entry
  BY DEF Inv, Types
<1>2. Agree(table[s], flash[s])
  BY Settled DEF Inv
<1>3. table[s].ids # {} /\ flash[s].peer = table[s]
  BY <1>2, Values, Constants DEF Agree
<1>4. BondLoaded(s) = flash[s].bond /\ flash[s].bond \in Secret
  BY <1>1 DEF BondLoaded, Block
<1>5. BondLoaded(s) \in Key => BondLoaded(s)[1] = p
  BY <1>1, <1>3, <1>4 DEF Inv, Traced
<1>6. CASE flash[s].gatts = Blank
  <2>1. GattsLoaded(s) = [kept |-> FALSE, attrs |-> Blank]
    BY <1>6 DEF GattsLoaded
  <2>2. GattsLoaded(s) \in Gatts
    BY <2>1 DEF Gatts, Attributes
  <2> QED BY <1>1, <1>3, <1>4, <1>5, <1>6, <2>2
<1>7. CASE flash[s].gatts \in Context
  <2>1. GattsLoaded(s) = flash[s].gatts
    BY <1>7, Constants DEF GattsLoaded
  <2>2. GattsLoaded(s) \in Gatts /\ GattsLoaded(s).kept
    BY <1>7, <2>1 DEF Gatts, Context
  <2> QED BY <1>1, <1>3, <1>4, <1>5, <2>2
<1>8. flash[s].gatts \in Context \cup {Blank}
  BY <1>1 DEF Block
<1> QED BY <1>6, <1>7, <1>8

(* A phone is found in the table, and its block is loaded. *)
LEMMA RecognisedInv ==
  ASSUME Inv, queue = <<>>, conn.dev = None, NEW p \in Peer, NEW s \in Slot, table[s].addr = p,
         \A r \in Slot : peers.owed[p] # None /\ Safe(p, r) => r = s,
         conn' \in Conn, conn'.dev = s, conn'.peer = p,
         Has("connected")', Has("bonded")', ~Has("encrypted")', LoadBond(s),
         link' \in Link, ~link'.secured, link'.proc \in {None, "known", "unknown"}, Answered',
         UNCHANGED <<table, queue, flash, peers>>
  PROVE  Inv'
<1>1. \A r \in Slot : ~Fresh(r)
  BY Constants DEF Fresh
<1>2. /\ bond' = BondLoaded(s) /\ gatts' = GattsLoaded(s)
      /\ bond' \in Secret /\ (bond' \in Key => bond'[1] = p) /\ gatts' \in Gatts
      /\ ~gatts'.kept => flash[s].gatts = Blank
      /\ bond' = flash[s].bond
  BY <1>1, LoadsOwn DEF LoadBond
<1>3. conn' # Idle /\ s # None /\ link'.proc # "distributed"
  BY Values, Constants, Names DEF Has
<1>4. Types'
  BY <1>2 DEF Inv, Types
<1>5. Session'
  BY <1>3, Names DEF Session, Has
<1>6. Stored'
  <2>1. \A r \in Slot : Agree(table'[r], flash'[r]) /\ Written(flash'[r])
    BY <1>1, Settled DEF Inv, Stored
  <2>2. Len(queue') <= QueueSize
    BY DEF Inv, Stored
  <2> QED BY <1>2, <2>1, <2>2 DEF Stored
<1>7. Named'
  <2>1. Unique(table)' /\ Unique(Loaded(flash))'
    BY DEF Inv, Named, Unique, Loaded
  <2> QED BY <1>3, <2>1 DEF Named
<1>8. Traced'
  <2>1. \A e : Own(e)' <=> Own(e)
    BY DEF Own
  <2>2. Distinct(table)' /\ Distinct(Loaded(flash))'
    BY DEF Inv, Traced, Distinct, Loaded
  <2>3. \A r \in Slot : Own(table[r])'
    BY <2>1 DEF Inv, Traced, Own
  <2>4. \A r \in Slot : flash[r].peer \in Entry =>
           Own(flash[r].peer)' /\ (flash[r].bond \in Key => flash[r].bond[1] = flash[r].peer.addr)
    BY <2>1 DEF Inv, Traced, Own
  <2>5. \A q \in Peer : peers'.held[q] \in Key => peers'.held[q][1] = q
    BY DEF Inv, Traced
  <2> QED BY <1>2, <1>3, <2>2, <2>3, <2>4, <2>5 DEF Traced
<1>9. Keys'
  <2>1. ASSUME NEW q \in Peer, peers.owed[q] # None
        PROVE  /\ peers.held[q] = peers.owed[q] /\ Keeps(q)'
               /\ q = p => bond' = peers.owed[q]
    <3>1. peers.held[q] = peers.owed[q] /\ Keeps(q)
      BY <2>1 DEF Inv, Keys
    <3>2. PICK r \in Slot : Safe(q, r)
      BY <3>1 DEF Keeps
    <3>3. Will(r) = flash[r].bond /\ Will(r)' = flash[r].bond
      BY DEF Will
    <3>4. Safe(q, r)'
      BY <3>2, <3>3 DEF Safe
    <3>5. q = p => r = s
      BY <2>1, <3>2
    <3> QED BY <1>2, <3>1, <3>2, <3>3, <3>4, <3>5 DEF Keeps, Safe
  <2> QED BY <2>1 DEF Keys
<1> QED BY <1>4, <1>5, <1>6, <1>7, <1>8, <1>9 DEF Inv

LEMMA ConnectedInv ==
  ASSUME Inv, Orderly, NEW p \in Peer, Connected(p)
  PROVE  Inv'
<1>1. /\ conn = Idle /\ conn' = Attached(p) /\ link' = Down /\ queue = <<>>
      /\ UNCHANGED <<table, queue, flash, peers>>
  BY DEF Connected, Calm, Orderly
<1>2. conn.dev = None /\ link'.proc = None /\ ~link'.secured /\ link'.reply = None /\ link' \in Link
  BY <1>1, Values, Nothing
<1>3. Answered'
  BY <1>2, Names, Constants DEF Answered
<1>4. {"connected"} \in State /\ {"connected", "bonded"} \in State
  BY DEF State, Bits
<1>5. CASE FoundByAddress(p) = {}
  <2>1. UNCHANGED <<bond, gatts>>
    BY <1>5 DEF Connected
  <2>2. conn' = [state |-> {"connected"}, peer |-> p, dev |-> None]
    BY <1>1, <1>5 DEF Attached
  <2>3. /\ conn' \in Conn /\ conn'.state = {"connected"} /\ conn'.peer = p /\ conn'.dev = None
        /\ ~Has("bonded")' /\ ~Has("encrypted")' /\ Has("connected")'
    BY <1>4, <2>2 DEF Conn, Has
  <2>4. Types'
    BY <1>1, <1>2, <2>1, <2>3 DEF Inv, Types
  <2>5. Session'
    BY <1>1, <1>2, <2>3, Names, Values DEF Session, Has
  <2>6. Stored'
    <3>1. \A s \in Slot : Agree(table[s], flash[s]) /\ Written(flash[s])
      <4>1. \A s \in Slot : ~Fresh(s)
        BY <1>2, Constants DEF Fresh
      <4> QED BY <1>1, <4>1, Settled DEF Inv, Stored
    <3>2. Len(queue') <= QueueSize
      BY <1>1 DEF Inv, Stored
    <3> QED BY <1>1, <2>3, <3>1, <3>2 DEF Stored
  <2>7. Named'
    <3>1. Unique(table)' /\ Unique(Loaded(flash))'
      BY <1>1 DEF Inv, Named, Unique, Loaded
    <3>2. FoundByAddress(conn.peer)' = {}
      BY <1>1, <1>5, <2>3 DEF FoundByAddress
    <3> QED BY <2>3, <3>1, <3>2 DEF Named
  <2>8. Traced'
    <3>1. \A e : Own(e)' <=> Own(e)
      BY <1>1 DEF Own
    <3>2. Distinct(table)' /\ Distinct(Loaded(flash))'
      BY <1>1 DEF Inv, Traced, Distinct, Loaded
    <3>3. \A r \in Slot : Own(table[r])'
      BY <1>1, <3>1 DEF Inv, Traced, Own
    <3>4. \A r \in Slot : flash[r].peer \in Entry =>
             Own(flash[r].peer)' /\ (flash[r].bond \in Key => flash[r].bond[1] = flash[r].peer.addr)
      BY <1>1, <3>1 DEF Inv, Traced, Own
    <3>5. \A q \in Peer : peers'.held[q] \in Key => peers'.held[q][1] = q
      BY <1>1 DEF Inv, Traced
    <3> QED BY <1>1, <1>2, <2>3, <3>2, <3>3, <3>4, <3>5, Names DEF Traced
  <2>9. Keys'
    <3>1. \A q \in Peer : Keeps(q) => Keeps(q)'
      BY <1>1, <2>1 DEF Keeps, Safe, Will
    <3> QED BY <1>1, <2>3, <3>1 DEF Inv, Keys
  <2> QED BY <1>3, <2>4, <2>5, <2>6, <2>7, <2>8, <2>9 DEF Inv
<1>6. CASE FoundByAddress(p) # {}
  <2>1. PICK s : s = Least(FoundByAddress(p))
    OBVIOUS
  <2>2. s \in Slot /\ table[s].addr = p /\ p \notin Resolvable
    <3>1. FoundByAddress(p) \in SUBSET Slot
      BY DEF FoundByAddress
    <3>2. s \in FoundByAddress(p)
      BY <1>6, <2>1, <3>1, LeastOf
    <3> QED BY <3>2 DEF FoundByAddress
  <2>3. conn' = [state |-> {"connected", "bonded"}, peer |-> p, dev |-> s]
    BY <1>1, <1>6, <2>1 DEF Attached
  <2>4. /\ conn' \in Conn /\ conn'.state = {"connected", "bonded"} /\ conn'.peer = p /\ conn'.dev = s
        /\ Has("bonded")' /\ ~Has("encrypted")' /\ Has("connected")'
    BY <1>4, <2>2, <2>3 DEF Conn, Has
  <2>5. LoadBond(s)
    BY <1>6, <2>4 DEF Connected
  <2>6. \A r \in Slot : Safe(p, r) => r = s
    <3>1. Unique(table)
      BY DEF Inv, Named
    <3> QED BY <2>2, <3>1 DEF Unique, Safe
  <2> QED BY <1>1, <1>2, <1>3, <2>2, <2>4, <2>5, <2>6, RecognisedInv
<1> QED BY <1>5, <1>6

(* A phone that counts on its key is known by its address or by the key.   *)
LEMMA Recognisable ==
  ASSUME Inv, queue = <<>>, conn # Idle, conn.dev = None, NEW p \in Peer, conn.peer = p,
         peers.owed[p] # None
  PROVE  /\ p \in Resolvable /\ peers.held[p] = peers.owed[p] /\ peers.owed[p] \in Key
         /\ \E r \in Slot : Safe(p, r)
         /\ \A r \in Slot : Safe(p, r) =>
               table[r].ediv = peers.held[p] /\ flash[r].bond = peers.held[p]
<1>1. peers.held[p] = peers.owed[p] /\ Keeps(p) /\ peers.owed[p] \in Key
  BY DEF Inv, Keys, Types, Held
<1>2. PICK r \in Slot : Safe(p, r)
  BY <1>1 DEF Keeps
<1>3. p \in Resolvable
  <2>1. FoundByAddress(p) = {}
    BY DEF Inv, Named
  <2> QED BY <1>2, <2>1 DEF FoundByAddress, Safe
<1>4. \A s \in Slot : Will(s) = flash[s].bond
  BY Settled DEF Inv
<1> QED BY <1>1, <1>2, <1>3, <1>4 DEF Safe

LEMMA SecInfoRequestInv ==
  ASSUME Inv, SecInfoRequest
  PROVE  Inv'
<1>1. /\ Has("connected") /\ ~link.secured /\ link.proc = None
      /\ UNCHANGED <<table, queue, flash, peers>>
  BY DEF SecInfoRequest
<1>2. /\ conn # Idle /\ conn.peer \in Peer /\ conn \in Conn /\ link \in Link /\ queue = <<>>
      /\ ~Has("encrypted")
  BY <1>1, Values DEF Has, Inv, Session, Types
<1>3. PICK p \in Peer : p = conn.peer
  BY <1>2
<1>4. PICK k : k = peers.held[p]
  OBVIOUS
<1>5. PICK found : found = {s \in Slot : table[s].ediv = k}
  OBVIOUS
<1>6. k \in Key /\ k[1] = p
  <2>1. k # None
    BY <1>3, <1>4 DEF SecInfoRequest
  <2>2. k \in Key
    BY <1>4, <2>1 DEF Inv, Types, Held
  <2> QED BY <1>4, <2>2 DEF Inv, Traced
<1>7. CASE conn.dev = None /\ found # {}
  <2>1. PICK s : s = Least(found)
    OBVIOUS
  <2>2. s \in Slot /\ table[s].ediv = k
    <3>1. s \in found
      BY <1>5, <1>7, <2>1, LeastOf
    <3> QED BY <1>5, <3>1
  <2>3. /\ conn' = [conn EXCEPT !.dev = s, !.state = @ \cup {"bonded"}]
        /\ LoadBond(s)
        /\ link' = [link EXCEPT !.proc = IF BondLoaded(s) = k THEN "known" ELSE "unknown",
                                !.reply = BondLoaded(s)]
    BY <1>3, <1>4, <1>5, <1>7, <2>1 DEF SecInfoRequest
  <2>4. table[s].addr = p
    BY <1>6, <2>2 DEF Inv, Traced, Own
  <2>5. ~Fresh(s)
    BY <1>7, <2>2, Constants DEF Fresh
  <2>6. /\ BondLoaded(s) \in Secret /\ (BondLoaded(s) \in Key => BondLoaded(s)[1] = p)
        /\ BondLoaded(s) = flash[s].bond
    BY <1>2, <2>2, <2>4, <2>5, LoadsOwn
  <2>7. PICK state \in State : state = conn.state \cup {"bonded"}
    BY <1>2 DEF Conn, State, Bits
  <2>8. conn' = [conn EXCEPT !.dev = s, !.state = state]
    BY <1>2, <2>3, <2>7 DEF Conn
  <2>9. conn' \in Conn /\ conn'.state = state /\ conn'.dev = s /\ conn'.peer = p
    BY <1>2, <1>3, <2>2, <2>8 DEF Conn
  <2>10. Has("connected")' /\ Has("bonded")' /\ ~Has("encrypted")'
    BY <1>1, <1>2, <2>7, <2>9 DEF Has
  <2>11. PICK proc \in {"known", "unknown"} :
            proc = IF BondLoaded(s) = k THEN "known" ELSE "unknown"
    OBVIOUS
  <2>12. /\ link' \in Link /\ link'.proc = proc /\ ~link'.secured
         /\ link'.reply = BondLoaded(s)
    <3>1. link' = [link EXCEPT !.proc = proc, !.reply = BondLoaded(s)]
      BY <2>3, <2>11
    <3> QED BY <1>1, <1>2, <2>6, <3>1, Names DEF Link
  <2>13. \A r \in Slot : peers.owed[p] # None /\ Safe(p, r) => r = s
    <3>1. Distinct(table)
      BY DEF Inv, Traced
    <3>2. \A r \in Slot : peers.owed[p] # None /\ Safe(p, r) => table[r].ediv = k
      BY <1>2, <1>3, <1>4, <1>7, Recognisable
    <3> QED BY <1>6, <2>2, <3>1, <3>2 DEF Distinct
  <2>14. Answered'
    <3>1. ASSUME proc = "unknown", peers.held[p] = peers.owed[p]  PROVE FALSE
      <4>1. peers.owed[p] # None
        BY <1>4, <1>6, <3>1, Constants
      <4>2. PICK r \in Slot : Safe(p, r) /\ flash[r].bond = k
        BY <1>2, <1>3, <1>4, <1>7, <4>1, Recognisable
      <4>3. r = s
        BY <2>13, <4>1, <4>2
      <4> QED BY <2>6, <2>11, <3>1, <4>2, <4>3
    <3> QED BY <1>1, <2>6, <2>9, <2>12, <3>1 DEF Answered
  <2>15. link'.proc \in {None, "known", "unknown"}
    BY <2>11, <2>12
  <2> QED BY <1>1, <1>2, <1>7, <2>2, <2>3, <2>4, <2>9, <2>10, <2>12, <2>13, <2>14, <2>15,
             RecognisedInv
<1>8. CASE ~(conn.dev = None /\ found # {})
  <2>1. PICK key : key = IF conn.dev = None THEN None ELSE bond
    OBVIOUS
  <2>2. /\ UNCHANGED <<conn, bond, gatts>>
        /\ link' = [link EXCEPT !.proc = IF key = k THEN "known" ELSE "unknown", !.reply = key]
    BY <1>3, <1>4, <1>5, <1>8, <2>1 DEF SecInfoRequest
  <2>3. key \in Secret
    BY <2>1, Nothing DEF Inv, Types
  <2>4. conn.dev # None => Has("bonded")
    BY <1>1, Names DEF Inv, Session
  <2>5. PICK proc \in {"known", "unknown"} : proc = IF key = k THEN "known" ELSE "unknown"
    OBVIOUS
  <2>6. link' \in Link /\ link'.proc = proc /\ ~link'.secured /\ link'.reply = key
    <3>1. link' = [link EXCEPT !.proc = proc, !.reply = key]
      BY <2>2, <2>5
    <3> QED BY <1>1, <1>2, <2>3, <3>1, Names DEF Link
  <2>7. Types'
    BY <1>1, <2>2, <2>6 DEF Inv, Types
  <2>8. Session'
    <3>1. link'.proc \notin {"params", "stk", "distributed"}
      BY <2>6
    <3> QED BY <1>1, <1>2, <2>2, <2>4, <2>6, <3>1 DEF Inv, Session, Has
  <2>9. link'.proc # "distributed"
    BY <2>6
  <2>10. Stored' /\ Named' /\ Traced' /\ Keys'
    BY <1>1, <2>2, <2>9, SameStored, SameNamed, SameTraced, SameKeys DEF Inv, Has
  <2>11. ASSUME proc = "unknown", peers.held[p] = peers.owed[p]  PROVE FALSE
    <3>1. peers.owed[p] # None
      BY <1>4, <1>6, <2>11, Constants
    <3>2. CASE conn.dev # None
      <4>1. bond = peers.owed[p]
        BY <1>3, <2>4, <3>1, <3>2 DEF Inv, Keys
      <4> QED BY <1>4, <2>1, <2>5, <2>11, <3>2, <4>1
    <3>3. CASE conn.dev = None
      <4>1. \E r \in Slot : table[r].ediv = k
        BY <1>2, <1>3, <1>4, <3>1, <3>3, Recognisable
      <4> QED BY <1>5, <1>8, <3>3, <4>1
    <3> QED BY <3>2, <3>3
  <2>12. key \in Key => key[1] = p
    BY <1>3, <2>1, <2>4, Constants DEF Inv, Traced
  <2>13. Answered'
    BY <1>1, <1>3, <2>2, <2>6, <2>11, <2>12 DEF Answered
  <2> QED BY <2>7, <2>8, <2>10, <2>13 DEF Inv
<1> QED BY <1>7, <1>8

-----------------------------------------------------------------------------
\* Pairing.

LEMMA SecParamsRequestInv ==
  ASSUME Inv, Orderly, SecParamsRequest
  PROVE  Inv'
<1>1. Has("connected") /\ link.proc \in {None, "unknown"} /\ queue = <<>>
  BY DEF SecParamsRequest, Calm, Orderly
<1>2. /\ conn # Idle /\ conn.peer \in Peer /\ conn \in Conn /\ link \in Link
      /\ gatts \in Gatts /\ "connected" \in conn.state
  BY <1>1, Values DEF Has, Inv, Session, Types
<1>3. CASE conn.dev = None /\ FreeSlots = {}
  <2>1. Restart(flash, {})
    BY <1>3 DEF SecParamsRequest
  <2> QED BY <2>1, CrashInv, FlashSound
<1>4. link' = [link EXCEPT !.proc = "params"] /\ UNCHANGED <<bond, queue, flash, peers>>
         => /\ link' \in Link /\ link'.proc = "params" /\ link'.secured = link.secured
            /\ link'.reply = link.reply
            /\ link'.proc \notin {"stk", "distributed", "known", "unknown"}
  <2>1. ASSUME link' = [link EXCEPT !.proc = "params"]
        PROVE  /\ link' \in Link /\ link'.proc = "params" /\ link'.secured = link.secured
               /\ link'.reply = link.reply
    BY <1>2, <2>1, Names DEF Link
  <2> QED BY <2>1
<1>5. CASE conn.dev = None /\ FreeSlots # {}
  <2>1. PICK s : s = Least(FreeSlots)
    OBVIOUS
  <2>2. s \in Slot /\ table[s].ids = {}
    <3>1. FreeSlots \in SUBSET Slot
      BY DEF FreeSlots
    <3>2. s \in FreeSlots
      BY <1>5, <2>1, <3>1, LeastOf
    <3> QED BY <3>2 DEF FreeSlots
  <2>3. /\ conn' = [conn EXCEPT !.dev = s, !.state = @ \cup {"pairing"}]
        /\ table' = [table EXCEPT ![s] = Allocated(conn.peer)]
        /\ link' = [link EXCEPT !.proc = "params"]
        /\ UNCHANGED <<bond, queue, flash, peers, gatts>>
    BY <1>5, <2>1 DEF SecParamsRequest
  <2>4. PICK state \in State : state = conn.state \cup {"pairing"}
    BY <1>2 DEF Conn, State, Bits
  <2>5. conn' \in Conn /\ conn'.state = state /\ conn'.peer = conn.peer /\ conn'.dev = s
    <3>1. conn' = [conn EXCEPT !.dev = s, !.state = state]
      BY <1>2, <2>3, <2>4 DEF Conn
    <3> QED BY <1>2, <2>2, <3>1 DEF Conn
  <2>6. ~Has("bonded") /\ ~Has("bonded")' /\ Has("connected")' /\ conn' # Idle /\ s # None
        /\ (Has("encrypted")' => link.secured)
    BY <1>2, <1>5, <2>2, <2>4, <2>5, Values, Constants DEF Inv, Session, Has
  <2>7. /\ link' \in Link /\ link'.proc = "params" /\ link'.secured = link.secured
        /\ link'.reply = link.reply
        /\ link'.proc \notin {"stk", "distributed", "known", "unknown"}
    BY <1>4, <2>3
  <2>8. /\ Allocated(conn.peer) \in Entry /\ Allocated(conn.peer).ids # {}
        /\ Allocated(conn.peer).addr = IF conn.peer \in Resolvable THEN None ELSE conn.peer
        /\ Allocated(conn.peer).ediv = None
    <3>1. Allocated(conn.peer).ediv = None
      BY DEF Allocated, Unassigned
    <3> QED BY <1>2, <3>1, Allocates
  <2>9. /\ table' \in [Slot -> Entry] /\ table'[s] = Allocated(conn.peer)
        /\ \A r \in Slot : r # s => table'[r] = table[r]
    BY <2>2, <2>3, <2>8 DEF Inv, Types
  <2>10. Types'
    BY <2>3, <2>5, <2>7, <2>9 DEF Inv, Types
  <2>11. Session'
    BY <1>1, <1>2, <2>3, <2>5, <2>6, <2>7 DEF Inv, Session
  <2>12. \A r \in Slot : Agree(table[r], flash[r])
    <3>1. \A r \in Slot : ~Fresh(r)
      BY <1>5, Constants DEF Fresh
    <3> QED BY <1>1, <3>1, Settled DEF Inv
  <2>13. flash[s] = EmptyBlock
    BY <2>2, <2>12 DEF Agree
  <2>14. Stored'
    <3>1. \A r \in Slot : Fresh(r)' \/ Agree(table'[r], flash'[r])
      BY <2>3, <2>5, <2>6, <2>9, <2>12 DEF Fresh
    <3>2. \A r \in Slot : Written(flash'[r])
      BY <2>3 DEF Inv, Stored
    <3>3. /\ queue' = <<>> /\ flash'[s] = EmptyBlock /\ table'[s].ids # {} /\ conn'.dev = s
          /\ Len(queue') <= QueueSize /\ flash'[s].gatts = Blank
      BY <1>1, <2>3, <2>5, <2>8, <2>9, <2>13, Nothing DEF Inv, Stored
    <3> QED BY <3>1, <3>2, <3>3 DEF Stored
  <2>15. \A r \in Slot : conn.peer \notin Resolvable => table[r].addr # conn.peer
    <3>1. FoundByAddress(conn.peer) = {}
      BY <1>2, <1>5 DEF Inv, Named
    <3> QED BY <3>1 DEF FoundByAddress
  <2>16. Named'
    <3>1. Unique(table)'
      <4>1. Unique(table)
        BY DEF Inv, Named
      <4> QED BY <2>8, <2>9, <2>15, <4>1, Constants DEF Unique
    <3>2. Unique(Loaded(flash))'
      BY <2>3 DEF Inv, Named, Unique, Loaded
    <3>3. /\ table'[conn'.dev].addr \in {conn'.peer, None}
          /\ conn'.peer \notin Resolvable => table'[conn'.dev].addr = conn'.peer
      BY <2>5, <2>8, <2>9
    <3> QED BY <2>5, <2>6, <2>7, <3>1, <3>2, <3>3 DEF Named
  <2>17. Traced'
    <3>1. \A e : Own(e)' <=> Own(e)
      BY <2>3 DEF Own
    <3>2. Distinct(table)'
      BY <2>8, <2>9, Constants DEF Inv, Traced, Distinct
    <3>3. Distinct(Loaded(flash))'
      BY <2>3 DEF Inv, Traced, Distinct, Loaded
    <3>4. \A r \in Slot : Own(table'[r])
      <4>1. Own(table'[s])
        BY <2>8, <2>9, Constants DEF Own
      <4> QED BY <2>9, <4>1 DEF Inv, Traced
    <3>5. \A r \in Slot : Own(table[r])'
      BY <2>3, <3>4 DEF Own
    <3>6. \A r \in Slot : flash[r].peer \in Entry =>
             Own(flash[r].peer)' /\ (flash[r].bond \in Key => flash[r].bond[1] = flash[r].peer.addr)
      BY <2>3, <3>1 DEF Inv, Traced, Own
    <3>7. \A q \in Peer : peers'.held[q] \in Key => peers'.held[q][1] = q
      BY <2>3 DEF Inv, Traced
    <3> QED BY <2>3, <2>6, <2>7, <3>2, <3>3, <3>5, <3>6, <3>7 DEF Traced
  <2>18. Keys'
    <3>1. ASSUME NEW p \in Peer, peers.owed[p] # None  PROVE Keeps(p)'
      <4>1. PICK r \in Slot : Safe(p, r)
        BY <3>1 DEF Inv, Keys, Keeps
      <4>2. r # s
        BY <2>2, <4>1 DEF Safe
      <4>3. table'[r] = table[r] /\ Will(r)' = Will(r)
        BY <2>3, <2>9, <4>2 DEF Will
      <4> QED BY <2>3, <4>1, <4>3 DEF Keeps, Safe
    <3>2. \A p \in Peer : peers.owed[p] # None => peers.held[p] = peers.owed[p]
      BY DEF Inv, Keys
    <3> QED BY <2>3, <2>6, <3>1, <3>2 DEF Keys
  <2>19. Answered'
    BY <2>3, <2>5, <2>7 DEF Inv, Answered
  <2> QED BY <2>10, <2>11, <2>14, <2>16, <2>17, <2>18, <2>19 DEF Inv
<1>6. CASE conn.dev # None
  <2>1. /\ conn' = [conn EXCEPT !.state = @ \cup {"pairing", "update"}]
        /\ gatts' = Zeroed(gatts) /\ table' = table
        /\ link' = [link EXCEPT !.proc = "params"]
        /\ UNCHANGED <<bond, queue, flash, peers>>
    BY <1>6 DEF SecParamsRequest
  <2>2. PICK state \in State : state = conn.state \cup {"pairing", "update"}
                               /\ conn' = [conn EXCEPT !.state = state]
    BY <1>2, <2>1 DEF Conn, State, Bits
  <2>3. /\ conn' \in Conn /\ conn'.state = state
        /\ conn'.peer = conn.peer /\ conn'.dev = conn.dev /\ conn' # Idle
    BY <1>2, <2>2, BitsSet
  <2>4. gatts' \in Gatts /\ gatts'.kept = gatts.kept
    BY <1>2, <2>1, ZeroedKept
  <2>5. /\ link' \in Link /\ link'.proc = "params" /\ link'.secured = link.secured
        /\ link'.reply = link.reply
        /\ link'.proc \notin {"stk", "distributed", "known", "unknown"}
    BY <1>4, <2>1
  <2>6. (Has("bonded")' <=> Has("bonded")) /\ Has("update")' /\ Has("connected")'
        /\ (Has("encrypted")' => Has("encrypted"))
    BY <1>2, <2>2, <2>3 DEF Has
  <2>7. Session'
    BY <1>1, <1>2, <1>6, <2>1, <2>3, <2>5, <2>6 DEF Inv, Session
  <2>8. link'.proc # "distributed" /\ link'.proc # "unknown"
    BY <2>5
  <2> QED BY <1>2, <2>1, <2>3, <2>4, <2>5, <2>6, <2>7, <2>8, LinkFrame
<1> QED BY <1>3, <1>5, <1>6

(* The entry of a link about to bond, or to bond again. *)
LEMMA OwnEntry ==
  ASSUME Inv, link.proc \in {"params", "stk", "distributed"}
  PROVE  /\ conn.dev \in Slot /\ table[conn.dev] \in Entry /\ table[conn.dev].ids # {}
         /\ table[conn.dev].addr \in {conn.peer, None}
         /\ \A s \in Slot : s # conn.dev \/ Has("bonded") => Agree(table[s], flash[s])
<1>1. /\ conn # Idle /\ conn \in Conn /\ queue = <<>> /\ conn.peer \in Peer
  BY Names, OnLink
<1>2. conn.dev \in Slot
  BY <1>1 DEF Inv, Session, Conn
<1>3. table[conn.dev] \in Entry /\ table[conn.dev].addr \in {conn.peer, None}
  BY <1>2, Constants DEF Inv, Types, Named
<1>4. \A s \in Slot : s # conn.dev \/ Has("bonded") => Agree(table[s], flash[s])
  BY <1>1, Settled DEF Inv, Fresh
<1>5. table[conn.dev].ids # {}
  <2>1. CASE Has("bonded")
    <3>1. table[conn.dev].addr = conn.peer
      BY <1>2, <2>1, Constants DEF Inv, Named
    <3> QED BY <1>1, <1>2, <1>4, <2>1, <3>1, Values, Constants DEF Agree
  <2>2. CASE ~Has("bonded")
    BY <1>2, <2>2, Constants DEF Inv, Stored
  <2> QED BY <2>1, <2>2
<1> QED BY <1>2, <1>3, <1>4, <1>5

LEMMA KeysDistributedInv ==
  ASSUME Inv, KeysDistributed
  PROVE  Inv'
<1>1. /\ link.proc = "stk" /\ peers.keys < MaxKeys
      /\ bond' = <<conn.peer, peers.keys + 1>>
      /\ peers' = [peers EXCEPT !.keys = @ + 1, !.held[conn.peer] = <<conn.peer, peers.keys + 1>>,
                                !.owed[conn.peer] = None]
      /\ table' = [table EXCEPT ![conn.dev].addr = conn.peer]
      /\ link' = [link EXCEPT !.proc = "distributed"]
      /\ UNCHANGED <<conn, queue, flash, gatts>>
  BY DEF KeysDistributed
<1>2. /\ conn # Idle /\ conn \in Conn /\ link \in Link /\ queue = <<>> /\ conn.peer \in Peer
      /\ Has("connected")
  BY <1>1, Names, OnLink
<1>3. PICK s \in Slot : /\ s = conn.dev /\ table[s] \in Entry /\ table[s].ids # {}
                        /\ table[s].addr \in {conn.peer, None}
                        /\ \A r \in Slot : r # s \/ Has("bonded") => Agree(table[r], flash[r])
  BY <1>1, OwnEntry
<1>4. /\ peers \in [held : Held, owed : Held, keys : 0 .. MaxKeys]
      /\ table \in [Slot -> Entry]
  BY DEF Inv, Types
<1>5. PICK n \in 1 .. MaxKeys : n = peers.keys + 1
  <2>1. peers.keys \in 0 .. MaxKeys /\ MaxKeys \in Nat
    BY <1>4, BondsAssumption
  <2> QED BY <1>1, <2>1
<1>6. PICK key \in Key : key = <<conn.peer, n>> /\ key[1] = conn.peer /\ key[2] = n
  <2>1. <<conn.peer, n>> \in Key
    BY <1>2 DEF Key
  <2>2. <<conn.peer, n>>[1] = conn.peer /\ <<conn.peer, n>>[2] = n
    OBVIOUS
  <2> QED BY <2>1, <2>2
<1>7. /\ peers' \in [held : Held, owed : Held, keys : 0 .. MaxKeys]
      /\ peers'.held[conn.peer] = key /\ peers'.owed[conn.peer] = None /\ peers'.keys = n
      /\ \A p \in Peer : p # conn.peer =>
            peers'.held[p] = peers.held[p] /\ peers'.owed[p] = peers.owed[p]
  <2>1. n \in 0 .. MaxKeys
    OBVIOUS
  <2>2. peers' = [peers EXCEPT !.keys = n, !.held[conn.peer] = key, !.owed[conn.peer] = None]
    BY <1>1, <1>5, <1>6
  <2>3. peers' = [held |-> [peers.held EXCEPT ![conn.peer] = key],
                  owed |-> [peers.owed EXCEPT ![conn.peer] = None], keys |-> n]
    BY <1>4, <2>2
  <2> QED BY <1>2, <1>4, <2>1, <2>3 DEF Held
<1>8. /\ table' \in [Slot -> Entry]
      /\ table'[s].addr = conn.peer /\ table'[s].ids = table[s].ids /\ table'[s].ediv = table[s].ediv
      /\ \A r \in Slot : r # s => table'[r] = table[r]
      /\ table[s].addr = conn.peer => table'[s] = table[s]
  <2>1. PICK e : e = [table[s] EXCEPT !.addr = conn.peer]
    OBVIOUS
  <2>2. /\ e \in Entry /\ e.addr = conn.peer /\ e.ids = table[s].ids /\ e.ediv = table[s].ediv
        /\ table[s].addr = conn.peer => e = table[s]
    BY <1>2, <1>3, <2>1 DEF Entry
  <2>3. table' = [table EXCEPT ![s] = e]
    BY <1>1, <1>3, <2>1
  <2> QED BY <1>4, <2>2, <2>3
<1>9. \A r \in Slot : Has("bonded") \/ conn.peer \notin Resolvable => table'[r] = table[r]
  <2>1. Has("bonded") \/ conn.peer \notin Resolvable => table[s].addr = conn.peer
    BY <1>3, Constants DEF Inv, Named
  <2> QED BY <1>8, <2>1
<1>10. /\ link' \in Link /\ link'.proc = "distributed" /\ link'.secured = link.secured
       /\ link'.reply = link.reply
  BY <1>1, <1>2, Names DEF Link
<1>11. bond' = key
  BY <1>1, <1>5, <1>6
<1>12. Types'
  <2>1. key \in Secret
    BY DEF Secret
  <2> QED BY <1>1, <1>7, <1>8, <1>10, <1>11, <2>1 DEF Inv, Types
<1>13. Session'
  <2>1. link.secured /\ conn.dev # None /\ (Has("bonded") => Has("update"))
    BY <1>1 DEF Inv, Session
  <2> QED BY <1>1, <1>2, <1>10, <2>1 DEF Inv, Session, Has
<1>14. Stored'
  <2>1. ASSUME NEW r \in Slot  PROVE Fresh(r)' \/ Agree(table'[r], flash'[r])
    <3>1. CASE r = s /\ ~Has("bonded")
      BY <1>1, <1>3, <3>1 DEF Fresh, Has
    <3>2. CASE r # s \/ Has("bonded")
      BY <1>1, <1>3, <1>8, <1>9, <3>2
    <3> QED BY <3>1, <3>2
  <2>2. conn'.dev # None /\ ~Has("bonded")' => flash'[conn'.dev] = EmptyBlock /\ table'[conn'.dev].ids # {}
    BY <1>1, <1>3, <1>8 DEF Inv, Stored, Has
  <2>3. /\ (\A r \in Slot : Written(flash'[r])) /\ Len(queue') <= QueueSize
        /\ conn'.dev # None /\ ~gatts'.kept => flash'[conn'.dev].gatts = Blank
    BY <1>1 DEF Inv, Stored
  <2> QED BY <1>1, <1>2, <2>1, <2>2, <2>3 DEF Stored
<1>15. Named'
  <2>1. Unique(table)'
    <3>1. Unique(table)
      BY DEF Inv, Named
    <3>2. CASE conn.peer \notin Resolvable
      BY <1>9, <3>1, <3>2 DEF Unique
    <3>3. CASE conn.peer \in Resolvable
      BY <1>8, <3>1, <3>3 DEF Unique
    <3> QED BY <3>2, <3>3
  <2>2. Unique(Loaded(flash))'
    BY <1>1 DEF Inv, Named, Unique, Loaded
  <2>3. conn'.dev # None /\ table'[conn'.dev].addr = conn'.peer
    BY <1>1, <1>3, <1>8, Constants
  <2> QED BY <2>1, <2>2, <2>3 DEF Named
<1>16. Traced'
  <2>1. peers.keys <= n /\ peers'.keys = n /\ ~(n <= peers.keys) /\ peers.keys \in Nat
    BY <1>4, <1>5, <1>7
  <2>2. ASSUME NEW e \in Entry, Own(e)  PROVE Own(e)'
    <3>1. CASE e.ediv \in Key
      <4>1. e.ediv[2] \in Nat /\ e.ediv[2] <= peers.keys
        BY <2>2, <3>1 DEF Own, Key
      <4> QED BY <2>1, <2>2, <3>1, <4>1 DEF Own
    <3> QED BY <3>1 DEF Own
  <2>3. Distinct(table)'
    <3>1. \A r \in Slot : table'[r].ediv = table[r].ediv
      BY <1>8
    <3> QED BY <3>1 DEF Inv, Traced, Distinct
  <2>4. Distinct(Loaded(flash))'
    BY <1>1 DEF Inv, Traced, Distinct, Loaded
  <2>5. ASSUME NEW r \in Slot  PROVE Own(table[r])'
    <3>1. Own(table[r]) /\ table[r] \in Entry /\ table'[r] \in Entry
      BY <1>4, <1>8 DEF Inv, Traced
    <3>2. table'[r].ediv = table[r].ediv
      BY <1>8
    <3>3. CASE table[r].ediv \in Key
      <4>1. table[r].ediv[1] = table[r].addr /\ table[r].ediv[1] \in Peer
            /\ table[r].ediv[2] \in Nat /\ table[r].ediv[2] <= peers.keys
        BY <3>1, <3>3 DEF Own, Key
      <4>2. table'[r].addr = table[r].addr
        BY <1>3, <1>8, <4>1, Constants
      <4> QED BY <2>1, <3>2, <4>1, <4>2 DEF Own
    <3>4. CASE table[r].ediv \notin Key
      BY <3>2, <3>4 DEF Own
    <3> QED BY <3>3, <3>4
  <2>6. ASSUME NEW r \in Slot, flash[r].peer \in Entry
        PROVE  Own(flash[r].peer)' /\ (flash[r].bond \in Key => flash[r].bond[1] = flash[r].peer.addr)
    <3>1. PICK e \in Entry : e = flash[r].peer
      BY <2>6
    <3>2. Own(e) /\ (flash[r].bond \in Key => flash[r].bond[1] = flash[r].peer.addr)
      BY <3>1 DEF Inv, Traced
    <3>3. flash'[r].peer = e
      BY <1>1, <3>1
    <3> QED BY <2>2, <3>1, <3>2, <3>3 DEF Own
  <2>7. \A p \in Peer : peers'.held[p] \in Key => peers'.held[p][1] = p
    BY <1>6, <1>7 DEF Inv, Traced
  <2>8. ASSUME NEW r \in Slot  PROVE table'[r].ediv # key
    <3>1. Own(table[r]) /\ table'[r].ediv = table[r].ediv
      BY <1>8 DEF Inv, Traced
    <3> QED BY <1>6, <2>1, <3>1 DEF Own
  <2>9. key[2] <= peers'.keys
    BY <1>6, <1>7
  <2> QED BY <1>1, <1>6, <1>7, <1>11, <2>3, <2>4, <2>5, <2>6, <2>7, <2>8, <2>9 DEF Traced
<1>17. Keys'
  <2>1. ASSUME NEW p \in Peer, peers'.owed[p] # None
        PROVE  p # conn.peer /\ peers'.held[p] = peers'.owed[p] /\ Keeps(p)'
    <3>1. p # conn.peer /\ peers'.held[p] = peers.held[p] /\ peers'.owed[p] = peers.owed[p]
      BY <1>7, <2>1
    <3>2. peers.held[p] = peers.owed[p] /\ Keeps(p)
      BY <2>1, <3>1 DEF Inv, Keys
    <3>3. PICK r \in Slot : Safe(p, r)
      BY <3>2 DEF Keeps
    <3>4. r # s
      BY <1>3, <3>1, <3>3, Constants DEF Safe
    <3>5. Will(r)' = Will(r) /\ table'[r] = table[r]
      BY <1>1, <1>2, <1>8, <3>4 DEF Will
    <3> QED BY <3>1, <3>2, <3>3, <3>5 DEF Keeps, Safe
  <2> QED BY <1>1, <2>1 DEF Keys
<1>18. Answered'
  BY <1>1, <1>10 DEF Inv, Answered
<1> QED BY <1>12, <1>13, <1>14, <1>15, <1>16, <1>17, <1>18 DEF Inv

-----------------------------------------------------------------------------
\* What is queued of a block; how a link and a pairing end.

(* Parts of a block, each once and the entry first; the context only when  *)
(* it has changed.                                                         *)
Parts(q, s, f) ==
    /\ q \in Operations /\ Len(q) <= QueueSize
    /\ \A i \in 1 .. Len(q) :
          /\ q[i].slot = s /\ q[i].op # "clear" /\ q[i].part # "all"
          /\ q[i].part = "peer" => i = 1
          /\ q[i].part # "gatts" => q[i].op = f
          /\ q[i].part = "gatts" =>
                link.cccd # "missing" /\ ~SameAttributes /\ (q[i].op = "store" => ~gatts.kept)
    /\ \A i, j \in 1 .. Len(q) : q[i].part = q[j].part => i = j
    /\ f # "dummy" => 1 \in 1 .. Len(q) /\ q[1].part = "peer"
    /\ (\E i \in 1 .. Len(q) : q[i].slot = s /\ q[i].part = "bond") <=> f # "dummy"

LEMMA QueuedParts ==
  ASSUME queue = <<>>, QueueSize >= 3, NEW s \in Slot, NEW first \in BOOLEAN,
         NEW q, q = Queued(ContextOps(s, first) \o GattsOps(s))
  PROVE  Parts(q, s, StoreFn(first))
<1>1. PICK f \in {"store", "update", "dummy"} : f = StoreFn(first)
  BY DEF StoreFn
<1>2. PICK o : o = Op(f, s, "peer")
  OBVIOUS
<1>3. PICK r : r = Op(f, s, "bond")
  OBVIOUS
<1>4. PICK g : g = Op(IF gatts.kept THEN "update" ELSE "store", s, "gatts")
  OBVIOUS
<1>5. f # "dummy" => /\ o \in Operation /\ r \in Operation
                     /\ o.slot = s /\ o.op = f /\ o.part = "peer"
                     /\ r.slot = s /\ r.op = f /\ r.part = "bond"
  BY <1>2, <1>3 DEF Op, Operation
<1>6. g \in Operation /\ g.slot = s /\ g.part = "gatts" /\ g.op # "clear"
      /\ (g.op = "store" => ~gatts.kept)
  BY <1>4 DEF Op, Operation
<1>7. PICK same \in BOOLEAN : same <=> link.cccd = "missing" \/ SameAttributes
  OBVIOUS
<1>8. PICK c : c = IF f = "dummy" THEN <<>> ELSE <<o, r>>
  OBVIOUS
<1>9. PICK d : d = IF same THEN <<>> ELSE <<g>>
  OBVIOUS
<1>10. PICK ops : ops = c \o d
  OBVIOUS
<1>11. /\ c \in Seq(Operation) /\ d \in Seq(Operation)
       /\ f = "dummy" => Len(c) = 0
       /\ f # "dummy" => Len(c) = 2 /\ c[1] = o /\ c[2] = r
       /\ same => Len(d) = 0
       /\ ~same => Len(d) = 1 /\ d[1] = g
  <2>1. f # "dummy" => c \in Seq(Operation) /\ Len(c) = 2 /\ c[1] = o /\ c[2] = r
    BY <1>5, <1>8
  <2>2. ~same => d \in Seq(Operation) /\ Len(d) = 1 /\ d[1] = g
    BY <1>6, <1>9
  <2>3. f = "dummy" => c \in Seq(Operation) /\ Len(c) = 0
    BY <1>8
  <2>4. same => d \in Seq(Operation) /\ Len(d) = 0
    BY <1>9
  <2> QED BY <2>1, <2>2, <2>3, <2>4
<1>12. /\ ops \in Seq(Operation) /\ Len(ops) = Len(c) + Len(d)
       /\ \A i \in 1 .. Len(c) : ops[i] = c[i]
       /\ \A i \in 1 .. Len(d) : ops[Len(c) + i] = d[i]
  BY <1>10, <1>11
<1>13. Len(ops) <= 3
  BY <1>11, <1>12
<1>14. Len(ops) <= QueueSize
  BY <1>12, <1>13, Constants
<1>15. q = ops
  <2>1. ContextOps(s, first) = c
    BY <1>1, <1>2, <1>3, <1>8 DEF ContextOps
  <2>2. GattsOps(s) = d
    BY <1>4, <1>7, <1>9 DEF GattsOps
  <2>3. q = Queued(ops)
    BY <1>10, <2>1, <2>2
  <2>4. QueueSize \in Nat /\ Len(queue) = 0 /\ QueueSize - 0 = QueueSize
    BY Constants
  <2>5. Queued(ops) = <<>> \o SubSeq(ops, 1, Len(ops))
    BY <1>14, <2>4 DEF Queued
  <2> QED BY <1>12, <2>3, <2>5
<1>16. q \in Operations /\ Len(q) <= QueueSize
  BY <1>12, <1>14, <1>15 DEF Operations
<1>17. ~same => link.cccd # "missing" /\ ~SameAttributes
  BY <1>7
<1>18. CASE f = "dummy" /\ same
  <2>1. Len(q) = 0
    BY <1>11, <1>12, <1>15, <1>18
  <2> QED BY <1>1, <1>16, <1>18, <2>1 DEF Parts
<1>19. CASE f = "dummy" /\ ~same
  <2>1. Len(q) = 1 /\ q[1] = g
    <3>1. Len(c) = 0 /\ Len(d) = 1 /\ d[1] = g
      BY <1>11, <1>19
    <3>2. 1 \in 1 .. Len(d) /\ Len(c) + 1 = 1
      BY <3>1
    <3> QED BY <1>12, <1>15, <3>1, <3>2
  <2> QED BY <1>1, <1>6, <1>16, <1>17, <1>19, <2>1 DEF Parts
<1>20. CASE f # "dummy" /\ same
  <2>1. Len(q) = 2 /\ q[1] = o /\ q[2] = r
    <3>1. Len(c) = 2 /\ Len(d) = 0 /\ c[1] = o /\ c[2] = r
      BY <1>11, <1>20
    <3>2. 1 \in 1 .. Len(c) /\ 2 \in 1 .. Len(c)
      BY <3>1
    <3> QED BY <1>12, <1>15, <3>1, <3>2
  <2>2. f # "clear"
    OBVIOUS
  <2> QED BY <1>1, <1>5, <1>16, <1>20, <2>1, <2>2 DEF Parts
<1>21. CASE f # "dummy" /\ ~same
  <2>1. Len(q) = 3 /\ q[1] = o /\ q[2] = r /\ q[3] = g
    <3>1. Len(c) = 2 /\ Len(d) = 1 /\ c[1] = o /\ c[2] = r /\ d[1] = g
      BY <1>11, <1>21
    <3>2. 1 \in 1 .. Len(c) /\ 2 \in 1 .. Len(c) /\ 1 \in 1 .. Len(d) /\ Len(c) + 1 = 3
      BY <3>1
    <3> QED BY <1>12, <1>15, <3>1, <3>2
  <2>2. f # "clear"
    OBVIOUS
  <2> QED BY <1>1, <1>5, <1>6, <1>16, <1>17, <1>21, <2>1, <2>2 DEF Parts
<1> QED BY <1>18, <1>19, <1>20, <1>21

LEMMA ContextStored ==
  ASSUME gatts \in Gatts, link \in Link, NEW connected \in BOOLEAN
  PROVE  /\ GattsStored(connected) \in Gatts
         /\ link.cccd # "missing" /\ ~SameAttributes => GattsStored(connected).kept
         /\ gatts.kept => GattsStored(TRUE).kept
BY Nothing DEF GattsStored, Gatts, Link


(* Parts queued for a slot whose block is erased where they are stored. *)
LEMMA StoringNext ==
  ASSUME NEW s \in Slot, NEW f \in {"store", "update", "dummy"}, Parts(queue', s, f),
         UNCHANGED <<bond, flash>>,
         f = "store" => flash[s] = EmptyBlock,
         ~gatts.kept => flash[s].gatts = Blank,
         link.cccd # "missing" /\ ~SameAttributes => gatts'.kept,
         f = "dummy" => flash[s].peer = table'[s],
         table'[s].ids # {}, conn'.dev \in {s, None},
         bond \in Key => bond[1] = table'[s].addr,
         flash[s].bond \in Key => flash[s].bond[1] = table'[s].addr
  PROVE  Storing(s)'
<1>1. ASSUME NEW i \in 1 .. Len(queue')
      PROVE  /\ queue'[i].slot = s /\ queue'[i].op # "clear" /\ queue'[i].part # "all"
             /\ queue'[i].op = "store" => flash[s][queue'[i].part] = Blank
             /\ queue'[i].part = "peer" => i = 1
             /\ queue'[i].part = "gatts" => gatts'.kept
  <2>1. PICK o \in Operation : o = queue'[i]
    BY DEF Parts, Operations
  <2>2. /\ o.slot = s /\ o.op # "clear" /\ o.part # "all" /\ (o.part = "peer" => i = 1)
        /\ o.part # "gatts" => o.op = f
        /\ o.part = "gatts" => link.cccd # "missing" /\ ~SameAttributes /\ (o.op = "store" => ~gatts.kept)
    BY <2>1 DEF Parts
  <2>3. o.op = "store" => flash[s][o.part] = Blank
    <3>1. CASE o.part = "gatts"
      BY <2>2, <3>1
    <3>2. CASE o.part = "peer" \/ o.part = "bond"
      BY <2>2, <3>2, Values
    <3> QED BY <2>2, <3>1, <3>2 DEF Operation
  <2> QED BY <2>1, <2>2, <2>3
<1>2. \A i, j \in 1 .. Len(queue') : queue'[i].part = queue'[j].part => i = j
  BY DEF Parts
<1>3. flash[s].peer = table'[s] \/ queue'[1].part = "peer"
  BY DEF Parts
<1> QED BY <1>1, <1>2, <1>3 DEF Storing

(* The parts of a slot are all that is queued. *)
LEMMA WillBe ==
  ASSUME NEW s \in Slot, NEW f, Parts(queue', s, f), UNCHANGED <<bond, flash>>
  PROVE  /\ Will(s)' = IF f # "dummy" THEN bond ELSE flash[s].bond
         /\ \A r \in Slot : r # s => Will(r)' = flash[r].bond
         /\ f # "dummy" => Waits(s)'
<1>1. \A i \in 1 .. Len(queue') : queue'[i].slot = s
  BY DEF Parts
<1>2. (\E i \in 1 .. Len(queue') : queue'[i].slot = s /\ queue'[i].part = "bond") <=> f # "dummy"
  BY DEF Parts
<1>3. f # "dummy" => 1 \in 1 .. Len(queue')
  BY DEF Parts
<1> QED BY <1>1, <1>2, <1>3 DEF Will, Waits

(* A bond that is to be renewed and a changed context are queued, an entry *)
(* that did not bond is given back.                                        *)
LEMMA DisconnectedInv ==
  ASSUME Inv, Orderly, Disconnected
  PROVE  Inv'
<1>1. /\ Has("connected") /\ queue = <<>> /\ conn' = Idle /\ link' = Down
      /\ UNCHANGED <<bond, flash, peers>>
  BY DEF Disconnected, Calm, Orderly
<1>2. conn # Idle /\ conn.peer \in Peer /\ conn \in Conn /\ link \in Link /\ gatts \in Gatts
  BY <1>1, Values DEF Has, Inv, Session, Types
<1>3. /\ link'.proc = None /\ link'.reply = None /\ ~Has("bonded")' /\ ~Has("encrypted")'
      /\ conn'.dev = None /\ conn'.peer = None
  BY <1>1, Values, Nothing DEF Has
<1>4. Session' /\ Answered'
  BY <1>1, <1>3, Names, Constants DEF Session, Answered
<1>5. \A s \in Slot : s # conn.dev \/ Has("bonded") => Agree(table[s], flash[s])
  BY <1>1, Settled DEF Inv, Fresh
<1>6. \A s \in Slot : Written(flash[s])
  BY DEF Inv, Stored
<1>7. \A e : Own(e)' <=> Own(e)
  BY <1>1 DEF Own
<1>8. /\ \A r \in Slot : flash'[r].peer \in Entry =>
            Own(flash[r].peer)' /\ (flash'[r].bond \in Key => flash'[r].bond[1] = flash'[r].peer.addr)
      /\ Distinct(Loaded(flash))' /\ Unique(Loaded(flash))'
      /\ \A q \in Peer : peers'.held[q] \in Key => peers'.held[q][1] = q
  <2>1. \A r \in Slot : flash[r].peer \in Entry => Own(flash[r].peer)'
    BY <1>1, <1>7 DEF Inv, Traced, Own
  <2>2. \A r \in Slot : flash[r].peer \in Entry /\ flash[r].bond \in Key => flash[r].bond[1] = flash[r].peer.addr
    BY DEF Inv, Traced
  <2> QED BY <1>1, <2>1, <2>2 DEF Inv, Traced, Named, Distinct, Unique, Loaded
<1>9. CASE Has("bonded")
  <2>1. PICK s \in Slot : s = conn.dev
    BY <1>2, <1>9 DEF Inv, Session, Conn
  <2>2. table' = table
    BY <1>9 DEF Disconnected
  <2>3. table[s].addr = conn.peer /\ flash[s].peer = table[s] /\ table[s].ids # {}
    <3>1. table[s].addr = conn.peer
      BY <1>9, <2>1, Constants DEF Inv, Named
    <3> QED BY <1>2, <1>5, <1>9, <3>1, Values, Constants DEF Agree
  <2>4. PICK f \in {"update", "dummy"} : /\ queue' = <<>> \/ Parts(queue', s, f)
                                         /\ f = "update" => Has("update")
                                         /\ queue' \in Operations /\ Len(queue') <= QueueSize
                                         /\ gatts' \in Gatts
                                         /\ queue' # <<>> /\ link.cccd # "missing" /\ ~SameAttributes
                                               => gatts'.kept
    <3>1. CASE Has("encrypted")
      <4>1. queue' = Queued(ContextOps(s, FALSE) \o GattsOps(s)) /\ gatts' = GattsStored(FALSE)
        BY <1>9, <2>1, <3>1 DEF Disconnected
      <4>2. PICK q : q = Queued(ContextOps(s, FALSE) \o GattsOps(s))
        OBVIOUS
      <4>3. PICK f \in {"update", "dummy"} : f = StoreFn(FALSE) /\ (f = "update" => Has("update"))
        BY DEF StoreFn
      <4>4. Parts(q, s, f)
        BY <1>1, <4>2, <4>3, QueuedParts DEF Orderly
      <4>5. q \in Operations /\ Len(q) <= QueueSize
        BY <4>4 DEF Parts
      <4>6. gatts' \in Gatts /\ (link.cccd # "missing" /\ ~SameAttributes => gatts'.kept)
        BY <1>2, <4>1, ContextStored
      <4>7. queue' = q
        BY <4>1, <4>2
      <4>8. Parts(queue', s, f)
        BY <4>4, <4>7
      <4> QED BY <4>3, <4>5, <4>6, <4>7, <4>8
    <3>2. CASE ~Has("encrypted")
      <4>1. queue' = <<>> /\ gatts' = gatts
        BY <1>1, <1>9, <3>2 DEF Disconnected
      <4>2. "dummy" \in {"update", "dummy"} /\ Len(queue') <= QueueSize
        BY <4>1, Constants
      <4> QED BY <1>2, <4>1, <4>2, Nothing
    <3> QED BY <3>1, <3>2
  <2>5. Types'
    BY <1>1, <2>2, <2>4, Values DEF Inv, Types
  <2>6. Stored'
    <3>1. \A r \in Slot : Agree(table'[r], flash'[r]) /\ Written(flash'[r])
      BY <1>1, <1>5, <1>6, <1>9, <2>2
    <3>2. ASSUME queue' # <<>>  PROVE Storing(s)'
      <4>1. Parts(queue', s, f) /\ (link.cccd # "missing" /\ ~SameAttributes => gatts'.kept)
        BY <2>4, <3>2
      <4>2. bond \in Key => bond[1] = table'[s].addr
        BY <1>9, <2>2, <2>3 DEF Inv, Traced
      <4>3. flash[s].bond \in Key => flash[s].bond[1] = table'[s].addr
        BY <2>2, <2>3 DEF Inv, Traced, Types
      <4>4. ~gatts.kept => flash[s].gatts = Blank
        BY <2>1, Constants DEF Inv, Stored
      <4>5. table'[s].ids # {} /\ flash[s].peer = table'[s] /\ conn'.dev \in {s, None}
        BY <1>3, <2>2, <2>3
      <4>6. f # "store"
        OBVIOUS
      <4> QED BY <1>1, <4>1, <4>2, <4>3, <4>4, <4>5, <4>6, StoringNext
    <3> QED BY <1>3, <2>4, <3>1, <3>2 DEF Stored
  <2>7. Named'
    <3>1. Unique(table)'
      BY <2>2 DEF Inv, Named, Unique
    <3> QED BY <1>1, <1>3, <1>8, <3>1 DEF Named
  <2>8. Traced'
    <3>1. Distinct(table)' /\ \A r \in Slot : Own(table[r])'
      BY <1>7, <2>2 DEF Inv, Traced, Distinct, Own
    <3> QED BY <1>1, <1>3, <1>8, <3>1, Names DEF Traced
  <2>9. Keys'
    <3>1. ASSUME NEW p \in Peer, peers.owed[p] # None  PROVE Keeps(p)'
      <4>1. PICK r \in Slot : Safe(p, r)
        BY <3>1 DEF Inv, Keys, Keeps
      <4>2. table[r].addr = p /\ flash[r].bond = peers.owed[p]
        BY <1>1, <4>1, Settled DEF Inv, Safe
      <4>3. Will(r)' = flash[r].bond
        <5>1. CASE queue' = <<>>
          BY <1>1, <5>1 DEF Will
        <5>2. CASE Parts(queue', s, f) /\ r = s
          <6>1. p = conn.peer
            BY <2>3, <4>2, <5>2
          <6>2. bond = peers.owed[p]
            BY <1>9, <3>1, <6>1 DEF Inv, Keys
          <6> QED BY <1>1, <4>2, <5>2, <6>2, WillBe
        <5>3. CASE Parts(queue', s, f) /\ r # s
          BY <1>1, <5>3, WillBe
        <5> QED BY <2>4, <5>1, <5>2, <5>3
      <4>4. Safe(p, r)'
        BY <1>1, <2>2, <4>1, <4>2, <4>3 DEF Safe
      <4> QED BY <4>4 DEF Keeps
    <3> QED BY <1>1, <1>3, <3>1 DEF Inv, Keys
  <2> QED BY <1>4, <2>5, <2>6, <2>7, <2>8, <2>9 DEF Inv
<1>10. CASE ~Has("bonded")
  <2>1. queue' = <<>> /\ gatts' = gatts
        /\ table' = IF conn.dev = None THEN table ELSE [table EXCEPT ![conn.dev] = Unassigned]
    BY <1>1, <1>10 DEF Disconnected
  <2>2. /\ table' \in [Slot -> Entry]
        /\ \A s \in Slot : table'[s] = IF s = conn.dev THEN Unassigned ELSE table[s]
    BY <1>2, <2>1, Values, Constants DEF Inv, Types, Conn
  <2>3. Types'
    BY <1>1, <2>1, <2>2, Values, Nothing DEF Inv, Types
  <2>4. \A s \in Slot : s = conn.dev => flash[s] = EmptyBlock
    BY <1>10, Constants DEF Inv, Stored
  <2>5. Stored'
    <3>1. \A s \in Slot : Agree(table'[s], flash'[s]) /\ Written(flash'[s])
      BY <1>1, <1>5, <1>6, <2>2, <2>4 DEF Agree
    <3>2. Len(queue') <= QueueSize
      BY <2>1, Constants
    <3> QED BY <1>3, <2>1, <3>1, <3>2 DEF Stored
  <2>6. Named'
    <3>1. Unique(table)'
      BY <2>2, Values, Constants DEF Inv, Named, Unique
    <3> QED BY <1>1, <1>3, <1>8, <3>1 DEF Named
  <2>7. Traced'
    <3>1. Distinct(table)'
      BY <2>2, Nothing, Constants DEF Inv, Traced, Distinct
    <3>2. \A r \in Slot : Own(table'[r])
      <4>1. Own(Unassigned)
        BY Nothing, Constants DEF Own
      <4> QED BY <2>2, <4>1 DEF Inv, Traced
    <3>3. \A r \in Slot : Own(table[r])'
      BY <1>1, <3>2 DEF Own
    <3> QED BY <1>1, <1>3, <1>8, <3>1, <3>3, Names DEF Traced
  <2>8. Keys'
    <3>1. ASSUME NEW p \in Peer, peers.owed[p] # None  PROVE Keeps(p)'
      <4>1. PICK r \in Slot : Safe(p, r)
        BY <3>1 DEF Inv, Keys, Keeps
      <4>2. flash[r].bond = peers.owed[p] /\ peers.owed[p] \in Key
        BY <1>1, <3>1, <4>1, Settled DEF Inv, Types, Held, Safe
      <4>3. r # conn.dev
        BY <2>4, <4>2, Values, Constants
      <4>4. Will(r)' = flash[r].bond /\ table'[r] = table[r]
        BY <1>1, <2>1, <2>2, <4>3 DEF Will
      <4>5. Safe(p, r)'
        BY <1>1, <4>1, <4>2, <4>4 DEF Safe
      <4> QED BY <4>5 DEF Keeps
    <3> QED BY <1>1, <1>3, <3>1 DEF Inv, Keys
  <2> QED BY <1>4, <2>3, <2>5, <2>6, <2>7, <2>8 DEF Inv
<1> QED BY <1>9, <1>10


(* The bond is complete: its entry, its key and a changed context are      *)
(* queued for its slot.                                                    *)
LEMMA AuthBondedInv ==
  ASSUME Inv, Orderly, NEW idKey \in BOOLEAN, AuthBonded(idKey)
  PROVE  Inv'
<1>1. /\ link.proc = "distributed"
      /\ table' = [table EXCEPT ![conn.dev] =
                      Bonded(@, conn.peer, IF conn.peer \in Resolvable THEN bond ELSE @.ediv, idKey)]
      /\ queue' = Queued(ContextOps(conn.dev, TRUE) \o GattsOps(conn.dev))
      /\ gatts' = GattsStored(TRUE)
      /\ conn' = [conn EXCEPT !.state = {"bonded"} \cup
                     (@ \ {"pairing", IF HasRoom THEN "update" ELSE "pairing"})]
      /\ link' = [link EXCEPT !.proc = None]
      /\ peers' = [peers EXCEPT !.owed[conn.peer] = bond]
      /\ UNCHANGED <<bond, flash>>
  BY DEF AuthBonded
<1>2. /\ conn # Idle /\ conn \in Conn /\ link \in Link /\ queue = <<>> /\ conn.peer \in Peer
      /\ gatts \in Gatts /\ Has("connected")
  BY <1>1, Names, OnLink
<1>3. PICK s \in Slot : /\ s = conn.dev /\ table[s] \in Entry /\ table[s].ids # {}
                        /\ table[s].addr = conn.peer
                        /\ \A r \in Slot : r # s \/ Has("bonded") => Agree(table[r], flash[r])
  <2>1. conn.dev \in Slot /\ conn.dev # None
    BY <1>1, OwnEntry, Constants
  <2>2. table[conn.dev].addr = conn.peer
    BY <1>1, <2>1 DEF Inv, Named
  <2> QED BY <1>1, <2>1, <2>2, OwnEntry
<1>4. /\ bond \in Key /\ bond = peers.held[conn.peer] /\ bond[1] = conn.peer
      /\ bond[2] <= peers.keys /\ \A r \in Slot : table[r].ediv # bond
  BY <1>1, <1>2 DEF Inv, Traced
<1>5. link.secured /\ (Has("bonded") => Has("update"))
  BY <1>1 DEF Inv, Session
<1>6. /\ peers \in [held : Held, owed : Held, keys : 0 .. MaxKeys]
      /\ table \in [Slot -> Entry]
  BY DEF Inv, Types
<1>7. /\ peers' \in [held : Held, owed : Held, keys : 0 .. MaxKeys]
      /\ peers'.held = peers.held /\ peers'.keys = peers.keys
      /\ peers'.owed[conn.peer] = bond
      /\ \A p \in Peer : p # conn.peer => peers'.owed[p] = peers.owed[p]
  BY <1>1, <1>2, <1>4, <1>6 DEF Held
<1>8. /\ table' \in [Slot -> Entry] /\ table'[s].addr = conn.peer /\ table'[s].ids # {}
      /\ table'[s].ediv = IF conn.peer \in Resolvable THEN bond ELSE table[s].ediv
      /\ \A r \in Slot : r # s => table'[r] = table[r]
  <2>1. PICK key \in Key \cup {None} : key = IF conn.peer \in Resolvable THEN bond ELSE table[s].ediv
    BY <1>3, <1>4 DEF Entry
  <2>2. PICK e : e = Bonded(table[s], conn.peer, key, idKey)
    OBVIOUS
  <2>3. e \in Entry /\ e.ids # {} /\ e.addr = conn.peer /\ e.ediv = key
    BY <1>2, <1>3, <2>2, BondedEntry
  <2>4. table' = [table EXCEPT ![s] = e]
    BY <1>1, <1>3, <1>6, <2>1, <2>2
  <2> QED BY <1>6, <2>1, <2>3, <2>4
<1>9. PICK f \in {"store", "update"} : f = StoreFn(TRUE) /\ (f = "store" => ~Has("update"))
  BY DEF StoreFn
<1>10. Parts(queue', s, f)
  <2>1. PICK q : q = Queued(ContextOps(s, TRUE) \o GattsOps(s))
    OBVIOUS
  <2>2. Parts(q, s, f)
    BY <1>2, <1>9, <2>1, QueuedParts DEF Orderly
  <2>3. queue' = q
    BY <1>1, <1>3, <2>1
  <2> QED BY <2>2, <2>3
<1>11. /\ gatts' \in Gatts /\ (gatts.kept => gatts'.kept)
       /\ link.cccd # "missing" /\ ~SameAttributes => gatts'.kept
  BY <1>1, <1>2, ContextStored
<1>12. PICK state \in State : state = {"bonded"} \cup (conn.state \ {"pairing", "update"})
  BY <1>2 DEF Conn, State, Bits
<1>13. /\ conn' \in Conn /\ conn'.state = state /\ conn'.peer = conn.peer /\ conn'.dev = s
       /\ conn' # Idle /\ "bonded" \in state /\ "connected" \in state
       /\ "encrypted" \in state => Has("encrypted")
  <2>1. HasRoom
    BY <1>2, Constants DEF HasRoom
  <2>2. conn' = [conn EXCEPT !.state = state]
    BY <1>1, <1>2, <1>12, <2>1 DEF Conn
  <2>3. "bonded" \in state /\ "connected" \in state /\ ("encrypted" \in state => Has("encrypted"))
    BY <1>2, <1>12 DEF Has
  <2> QED BY <1>2, <1>3, <2>2, <2>3, BitsSet
<1>14. link' \in Link /\ link'.proc = None /\ link'.secured = link.secured /\ link'.reply = link.reply
  BY <1>1, <1>2 DEF Link
<1>15. f = "store" => flash[s] = EmptyBlock
  BY <1>3, <1>5, <1>9, Constants DEF Inv, Stored
<1>16. ~gatts.kept => flash[s].gatts = Blank
  BY <1>3, Constants DEF Inv, Stored
<1>17. Types'
  BY <1>1, <1>7, <1>8, <1>10, <1>11, <1>13, <1>14 DEF Inv, Types, Parts
<1>18. Session'
  BY <1>2, <1>3, <1>5, <1>13, <1>14, Names, Constants DEF Inv, Session, Has
<1>19. Stored'
  <2>1. Storing(s)'
    <3>1. flash[s].bond \in Key => flash[s].bond[1] = table'[s].addr
      <4>1. CASE Has("bonded")
        <5>1. flash[s].peer = table[s]
          BY <1>2, <1>3, <4>1, Values, Constants DEF Agree
        <5> QED BY <1>3, <1>8, <5>1 DEF Inv, Traced
      <4>2. CASE ~Has("bonded")
        BY <1>3, <4>2, Values, Constants DEF Inv, Stored
      <4> QED BY <4>1, <4>2
    <3>2. PICK g \in {"store", "update", "dummy"} : g = f /\ g # "dummy"
      OBVIOUS
    <3>3. /\ UNCHANGED <<bond, flash>> /\ Parts(queue', s, g)
          /\ g = "store" => flash[s] = EmptyBlock
          /\ ~gatts.kept => flash[s].gatts = Blank
          /\ link.cccd # "missing" /\ ~SameAttributes => gatts'.kept
      BY <1>1, <1>10, <1>11, <1>15, <1>16, <3>2
    <3>4. table'[s].ids # {} /\ conn'.dev \in {s, None} /\ (bond \in Key => bond[1] = table'[s].addr)
      BY <1>4, <1>8, <1>13
    <3> QED BY <3>1, <3>2, <3>3, <3>4, StoringNext
  <2>2. ASSUME NEW r \in Slot  PROVE Waits(r)' \/ Agree(table'[r], flash'[r])
    <3>1. Waits(s)'
      BY <1>1, <1>10, WillBe
    <3>2. r # s => Agree(table'[r], flash'[r])
      BY <1>1, <1>3, <1>8
    <3> QED BY <3>1, <3>2
  <2>3. Has("bonded")' /\ Len(queue') <= QueueSize /\ \A r \in Slot : Written(flash'[r])
    BY <1>1, <1>10, <1>13 DEF Inv, Stored, Has, Parts
  <2>4. conn'.dev # None /\ ~gatts'.kept => flash'[conn'.dev].gatts = Blank
    BY <1>1, <1>11, <1>13, <1>16
  <2> QED BY <2>1, <2>2, <2>3, <2>4 DEF Stored
<1>20. Named'
  <2>1. Unique(table)' /\ Unique(Loaded(flash))'
    BY <1>1, <1>3, <1>8 DEF Inv, Named, Unique, Loaded
  <2>2. conn'.dev # None /\ table'[conn'.dev].addr = conn'.peer
    BY <1>8, <1>13, Constants
  <2> QED BY <2>1, <2>2 DEF Named
<1>21. Traced'
  <2>1. \A e : Own(e)' <=> Own(e)
    BY <1>7 DEF Own
  <2>2. \A r \in Slot : Own(table'[r])
    <3>1. Own(table'[s])
      BY <1>3, <1>4, <1>8 DEF Inv, Traced, Own
    <3> QED BY <1>8, <3>1 DEF Inv, Traced
  <2>3. \A r \in Slot : Own(table[r])'
    BY <1>7, <2>2 DEF Own
  <2>4. \A r \in Slot : flash[r].peer \in Entry =>
           Own(flash[r].peer)' /\ (flash[r].bond \in Key => flash[r].bond[1] = flash[r].peer.addr)
    BY <1>1, <1>7 DEF Inv, Traced, Own
  <2>5. Distinct(table)'
    BY <1>4, <1>8 DEF Inv, Traced, Distinct
  <2>6. Distinct(Loaded(flash))'
    BY <1>1 DEF Inv, Traced, Distinct, Loaded
  <2>7. \A p \in Peer : peers'.held[p] \in Key => peers'.held[p][1] = p
    BY <1>7 DEF Inv, Traced
  <2>8. link'.proc # "distributed" /\ bond'[1] = conn'.peer
    BY <1>1, <1>4, <1>13, <1>14, Names
  <2> QED BY <1>1, <2>3, <2>4, <2>5, <2>6, <2>7, <2>8 DEF Traced
<1>22. Keys'
  <2>1. Will(s)' = bond /\ \A r \in Slot : r # s => Will(r)' = flash[r].bond
    BY <1>1, <1>10, WillBe
  <2>2. ASSUME NEW p \in Peer, peers'.owed[p] # None
        PROVE  /\ peers'.held[p] = peers'.owed[p] /\ Keeps(p)'
               /\ conn'.peer = p => bond' = peers'.owed[p]
    <3>1. CASE p = conn.peer
      <4>1. Safe(p, s)'
        BY <1>7, <1>8, <2>1, <3>1 DEF Safe
      <4> QED BY <1>1, <1>4, <1>7, <3>1, <4>1 DEF Keeps
    <3>2. CASE p # conn.peer
      <4>1. peers'.owed[p] = peers.owed[p] /\ peers.held[p] = peers.owed[p] /\ Keeps(p)
        BY <1>7, <2>2, <3>2 DEF Inv, Keys
      <4>2. PICK r \in Slot : Safe(p, r)
        BY <4>1 DEF Keeps
      <4>3. r # s
        BY <1>3, <3>2, <4>2 DEF Safe
      <4>4. Will(r)' = Will(r) /\ table'[r] = table[r]
        BY <1>2, <1>8, <2>1, <4>3, Settled DEF Inv
      <4>5. Safe(p, r)'
        BY <4>1, <4>2, <4>4 DEF Safe
      <4> QED BY <1>7, <1>13, <3>2, <4>1, <4>5 DEF Keeps
    <3> QED BY <3>1, <3>2
  <2> QED BY <2>2 DEF Keys
<1>23. Answered'
  BY <1>13, <1>14, Names DEF Inv, Answered
<1> QED BY <1>17, <1>18, <1>19, <1>20, <1>21, <1>22, <1>23 DEF Inv

(* A pairing that fails starts the device again, with or without the       *)
(* phone's block.                                                          *)
LEMMA AuthFailsInv ==
  ASSUME Inv, AuthFails
  PROVE  Inv'
<1>1. /\ link.proc \in {"params", "stk", "distributed"}
      /\ \E f \in {flash} \cup {CarriedOut(QueueFreed({conn.dev})[1], bond)} : Restart(f, {conn.peer})
  BY DEF AuthFails
<1>2. queue = <<>> /\ conn.peer \in Peer /\ conn.dev \in Slot /\ conn.dev # None
      /\ table[conn.dev].addr \in {conn.peer, None}
  BY <1>1, Names, OnLink, OwnEntry, Constants
<1>3. PICK f \in {flash} \cup {CarriedOut(QueueFreed({conn.dev})[1], bond)} : Restart(f, {conn.peer})
  BY <1>1
<1>4. CASE f = flash
  BY <1>2, <1>3, <1>4, FlashSound, CrashInv
<1>5. CASE f # flash
  <2>1. PICK s \in Slot : s = conn.dev
    BY <1>2
  <2>2. PICK q : q = QueueFreed({s})
    OBVIOUS
  <2>3. {s} \in SUBSET Slot /\ {s} # {}
    OBVIOUS
  <2>4. q \in Operations /\ Len(q) >= 1
        /\ \A i \in 1 .. Len(q) : q[i].op = "clear" /\ q[i].slot \in {s}
    BY <1>2, <2>2, <2>3, Freed
  <2>5. q[1].op = "clear" /\ q[1].slot = s
    <3>1. 1 \in 1 .. Len(q)
      BY <2>4 DEF Operations
    <3> QED BY <2>4, <3>1
  <2>6. f = [flash EXCEPT ![s] = EmptyBlock]
    BY <1>3, <1>5, <2>1, <2>2, <2>5 DEF CarriedOut
  <2>7. Sound(f)
    BY <2>6, ErasedSound
  <2>8. \A r \in Slot : f[r] = flash[r] \/ table[r].addr \in {conn.peer} \cup {None}
    BY <1>2, <2>1, <2>6 DEF Inv, Types
  <2> QED BY <1>2, <1>3, <2>7, <2>8, CrashInv
<1> QED BY <1>4, <1>5


-----------------------------------------------------------------------------
\* Deleted bonds.

LEMMA DeletedInv ==
  ASSUME Inv, Orderly, NEW S \in SUBSET Slot, Deleted(S), UNCHANGED gatts
  PROVE  Inv'
<1>1. /\ conn = Idle /\ queue = <<>>
      /\ table' = TableFreed(S) /\ queue' = QueueFreed(S)
      /\ peers' = [peers EXCEPT !.owed = [p \in Peer |->
                      IF \E s \in S : table[s].addr = p THEN None ELSE @[p]]]
      /\ UNCHANGED <<conn, bond, flash, link, gatts>>
  BY DEF Deleted, Calm, Orderly
<1>2. /\ queue' \in Operations /\ Len(queue') <= QueueSize
      /\ \A i \in 1 .. Len(queue') : queue'[i].op = "clear" /\ queue'[i].slot \in S
      /\ \A s \in Slot : table'[s] = IF \E i \in 1 .. Len(queue') : queue'[i].slot = s
                                     THEN Unassigned ELSE table[s]
  <2>1. PICK q : q = QueueFreed(S)
    OBVIOUS
  <2>2. /\ q \in Operations /\ Len(q) <= QueueSize
        /\ \A i \in 1 .. Len(q) : q[i].op = "clear" /\ q[i].slot \in S
        /\ \A s \in Slot : TableFreed(S)[s] = IF \E i \in 1 .. Len(q) : q[i].slot = s
                                              THEN Unassigned ELSE table[s]
    BY <1>1, <2>1, Freed
  <2> QED BY <1>1, <2>1, <2>2
<1>3. /\ table' \in [Slot -> Entry]
      /\ \A s \in Slot : table'[s] \in {table[s], Unassigned}
  <2>1. table' = [s \in Slot |-> table'[s]]
    BY <1>1 DEF TableFreed
  <2>2. \A s \in Slot : table'[s] \in Entry /\ table'[s] \in {table[s], Unassigned}
    BY <1>2, Values DEF Inv, Types
  <2> QED BY <2>1, <2>2
<1>4. /\ peers' \in [held : Held, owed : Held, keys : 0 .. MaxKeys]
      /\ peers'.held = peers.held /\ peers'.keys = peers.keys
      /\ \A p \in Peer : peers'.owed[p] # None =>
            peers'.owed[p] = peers.owed[p] /\ \A s \in S : table[s].addr # p
  BY <1>1 DEF Inv, Types, Held
<1>5. link.proc = None /\ conn.dev = None /\ conn.state = {} /\ link.reply = None
  BY <1>1, Values, Nothing DEF Inv, Session
<1>6. Types'
  BY <1>1, <1>2, <1>3, <1>4 DEF Inv, Types
<1>7. Session'
  BY <1>1, <1>5, Names, Values DEF Inv, Session, Has
<1>8. Stored'
  <2>1. Clearing'
    <3>1. \A i \in 1 .. Len(queue') : queue'[i].slot \in Slot
      BY <1>2
    <3>2. \A i \in 1 .. Len(queue') : table'[queue'[i].slot] = Unassigned
      BY <1>2, <3>1
    <3> QED BY <1>1, <1>2, <3>2 DEF Clearing
  <2>2. ASSUME NEW s \in Slot  PROVE Waits(s)' \/ Agree(table'[s], flash'[s])
    <3>1. Agree(table[s], flash[s])
      BY <1>1, <1>5, Constants, Settled DEF Inv, Fresh
    <3> QED BY <1>1, <1>2, <3>1 DEF Waits
  <2>3. \A s \in Slot : Written(flash'[s])
    BY <1>1 DEF Inv, Stored
  <2> QED BY <1>1, <1>2, <1>5, <2>1, <2>2, <2>3 DEF Stored
<1>9. Named'
  <2>1. Unique(table)'
    BY <1>3, Values, Constants DEF Inv, Named, Unique
  <2>2. Unique(Loaded(flash))'
    BY <1>1 DEF Inv, Named, Unique, Loaded
  <2> QED BY <1>1, <1>5, <2>1, <2>2 DEF Named
<1>10. Traced'
  <2>1. \A e : Own(e)' <=> Own(e)
    BY <1>4 DEF Own
  <2>2. \A r \in Slot : Own(table'[r])
    <3>1. Own(Unassigned)
      BY Nothing, Constants DEF Own
    <3> QED BY <1>3, <3>1 DEF Inv, Traced
  <2>3. \A r \in Slot : Own(table[r])'
    BY <1>4, <2>2 DEF Own
  <2>4. \A r \in Slot : flash[r].peer \in Entry =>
           Own(flash[r].peer)' /\ (flash[r].bond \in Key => flash[r].bond[1] = flash[r].peer.addr)
    BY <1>1, <1>4 DEF Inv, Traced, Own
  <2>5. Distinct(table)'
    BY <1>3, Nothing, Constants DEF Inv, Traced, Distinct
  <2>6. Distinct(Loaded(flash))'
    BY <1>1 DEF Inv, Traced, Distinct, Loaded
  <2>7. \A p \in Peer : peers'.held[p] \in Key => peers'.held[p][1] = p
    BY <1>4 DEF Inv, Traced
  <2>8. link'.proc # "distributed" /\ ~Has("bonded")'
    BY <1>1, <1>5, Names DEF Has
  <2> QED BY <1>1, <2>3, <2>4, <2>5, <2>6, <2>7, <2>8 DEF Traced
<1>11. Keys'
  <2>1. ASSUME NEW p \in Peer, peers'.owed[p] # None
        PROVE  peers'.held[p] = peers'.owed[p] /\ Keeps(p)'
    <3>1. /\ peers'.owed[p] = peers.owed[p] /\ peers.held[p] = peers.owed[p] /\ Keeps(p)
          /\ \A s \in S : table[s].addr # p
      BY <1>4, <2>1 DEF Inv, Keys
    <3>2. PICK r \in Slot : Safe(p, r)
      BY <3>1 DEF Keeps
    <3>3. r \notin S
      BY <3>1, <3>2 DEF Safe
    <3>4. \A i \in 1 .. Len(queue') : queue'[i].slot # r
      BY <1>2, <3>3
    <3>5. table'[r] = table[r]
      BY <1>2, <3>4
    <3>6. Will(r)' = flash'[r].bond
      BY <3>4 DEF Will
    <3>7. Will(r)' = Will(r)
      BY <1>1, <3>6, Settled DEF Inv
    <3>8. Safe(p, r)'
      BY <3>1, <3>2, <3>5, <3>7 DEF Safe
    <3> QED BY <1>4, <3>1, <3>8 DEF Keeps
  <2>2. ~Has("bonded")'
    BY <1>1, <1>5 DEF Has
  <2> QED BY <2>1, <2>2 DEF Keys
<1>12. Answered'
  BY <1>1, <1>5, Names, Constants DEF Answered
<1> QED BY <1>6, <1>7, <1>8, <1>9, <1>10, <1>11, <1>12 DEF Inv

-----------------------------------------------------------------------------
\* The flash.

(* What the operation at the head of the queue makes of the flash. *)
Source(o) == IF o.part = "peer" THEN table[o.slot] ELSE SourceOf(o.part)
Erases(f) == Clearing /\ \E s \in Slot : /\ s = queue[1].slot
                                          /\ f = [flash EXCEPT ![s] = EmptyBlock]
Programs(f) ==
    \E s \in Slot, b \in Block :
       /\ Storing(s) /\ f = [flash EXCEPT ![s] = b] /\ b.peer = table[s]
       /\ b.bond = IF queue[1].part = "bond" THEN bond ELSE flash[s].bond
       /\ queue[1].part # "gatts" => b.gatts = flash[s].gatts

LEMMA Carried ==
  ASSUME Inv, queue # <<>>, NEW f, f = CarriedOut(Head(queue), Source(Head(queue)))
  PROVE  Sound(f) /\ (Erases(f) \/ Programs(f)) /\ \A s \in Slot : Waits(s) \/ f[s] = flash[s]
<1>1. flash \in [Slot -> Block] /\ table \in [Slot -> Entry] /\ bond \in Secret
      /\ queue \in Seq(Operation) /\ gatts \in Gatts
  BY DEF Inv, Types, Operations
<1>2. PICK o \in Operation : o = Head(queue) /\ o = queue[1] /\ 1 \in 1 .. Len(queue)
  BY <1>1
<1>3. CASE Clearing
  <2>1. o.op = "clear" /\ o.slot \in Slot /\ Waits(o.slot)
    BY <1>2, <1>3 DEF Clearing, Operation, Waits
  <2>2. f = [flash EXCEPT ![o.slot] = EmptyBlock]
    BY <1>2, <2>1 DEF CarriedOut
  <2>3. \A s \in Slot : s # o.slot => f[s] = flash[s]
    BY <1>1, <2>2
  <2> QED BY <1>2, <1>3, <2>1, <2>2, <2>3, ErasedSound DEF Erases
<1>4. CASE \E s \in Slot : Storing(s)
  <2>1. PICK s \in Slot : Storing(s)
    BY <1>4
  <2>2. /\ o.slot = s /\ o.part \in {"peer", "bond", "gatts"} /\ Waits(s)
        /\ o.op = "store" => flash[s][o.part] = Blank
        /\ o.op # "clear" /\ (o.part = "gatts" => gatts.kept)
    BY <1>2, <2>1 DEF Storing, Operation, Waits
  <2>3. /\ table[s].ids # {} /\ conn.dev \in {s, None}
        /\ table[s] \in Entry /\ flash[s] \in Block
        /\ flash[s].peer = table[s] \/ o.part = "peer"
        /\ \A i \in 1 .. Len(queue) : queue[i].slot = s
        /\ bond \in Key => bond[1] = table[s].addr
        /\ flash[s].bond \in Key => flash[s].bond[1] = table[s].addr
    BY <1>1, <1>2, <2>1 DEF Storing
  <2>4. \A r \in Slot : r # s => Agree(table[r], flash[r])
    <3>1. ASSUME NEW r \in Slot, r # s  PROVE ~Waits(r) /\ ~Fresh(r)
      BY <2>3, <3>1, Constants DEF Fresh, Waits
    <3> QED BY <3>1 DEF Inv, Stored
  <2>5. PICK v : v = Source(o)
    OBVIOUS
  <2>6. f = [flash EXCEPT ![s] = [flash[s] EXCEPT ![o.part] = v]]
    <3>1. f = [flash EXCEPT ![s][o.part] =
                  IF o.op = "store" /\ flash[s][o.part] # Blank THEN Garbled ELSE v]
      BY <1>1, <1>2, <2>2, <2>5 DEF CarriedOut
    <3>2. f = [flash EXCEPT ![s][o.part] = v]
      BY <2>2, <3>1
    <3> QED BY <3>2
  <2>7. PICK b \in Block : /\ b = [flash[s] EXCEPT ![o.part] = v] /\ b.peer = table[s]
                           /\ b.bond = IF o.part = "bond" THEN bond ELSE flash[s].bond
                           /\ o.part # "gatts" => b.gatts = flash[s].gatts
    <3>1. PICK b : b = [flash[s] EXCEPT ![o.part] = v]
      OBVIOUS
    <3>2. CASE o.part = "peer"
      <4>1. v = table[s]
        BY <2>2, <2>5, <3>2 DEF Source
      <4>2. b = [flash[s] EXCEPT !.peer = table[s]]
        BY <3>1, <3>2, <4>1
      <4> QED BY <2>3, <3>1, <3>2, <4>2 DEF Block
    <3>3. CASE o.part = "bond"
      <4>1. v = bond
        BY <2>5, <3>3 DEF Source, SourceOf
      <4>2. b = [flash[s] EXCEPT !.bond = bond]
        BY <3>1, <3>3, <4>1
      <4>3. flash[s].peer = table[s]
        BY <2>3, <3>3
      <4> QED BY <1>1, <2>3, <3>1, <3>3, <4>2, <4>3 DEF Block
    <3>4. CASE o.part = "gatts"
      <4>1. v = gatts /\ gatts \in Context
        BY <1>1, <2>2, <2>5, <3>4 DEF Source, SourceOf, Gatts, Context
      <4>2. b = [flash[s] EXCEPT !.gatts = gatts]
        BY <3>1, <3>4, <4>1
      <4>3. flash[s].peer = table[s]
        BY <2>3, <3>4
      <4> QED BY <2>3, <3>1, <3>4, <4>1, <4>2, <4>3 DEF Block
    <3> QED BY <2>2, <3>2, <3>3, <3>4
  <2>8. f = [flash EXCEPT ![s] = b]
    BY <2>6, <2>7
  <2>9. /\ f \in [Slot -> Block] /\ f[s] = b
        /\ \A r \in Slot : r # s => f[r] = flash[r]
    BY <1>1, <2>8
  <2>10. \A r \in Slot : Written(f[r])
    BY <2>3, <2>7, <2>9 DEF Written, Inv, Stored
  <2>11. \A r \in Slot : Loaded(f)[r] = table[r]
    <3>1. \A r \in Slot : Agree(table[r], f[r]) /\ table[r] \in Entry
      BY <1>1, <2>3, <2>4, <2>7, <2>9 DEF Agree
    <3> QED BY <2>9, <3>1, AgreeLoads
  <2>12. Unique(Loaded(f)) /\ Distinct(Loaded(f))
    BY <2>11 DEF Inv, Named, Traced, Unique, Distinct
  <2>13. ASSUME NEW r \in Slot, f[r].peer \in Entry
         PROVE  Own(f[r].peer) /\ (f[r].bond \in Key => f[r].bond[1] = f[r].peer.addr)
    <3>1. CASE r = s
      <4>1. Own(table[s])
        BY DEF Inv, Traced
      <4> QED BY <2>3, <2>7, <2>9, <3>1, <4>1
    <3>2. CASE r # s
      BY <2>9, <2>13, <3>2 DEF Inv, Traced
    <3> QED BY <3>1, <3>2
  <2>14. Sound(f)
    BY <2>9, <2>10, <2>12, <2>13 DEF Sound
  <2>15. Programs(f)
    <3>1. /\ b.bond = IF queue[1].part = "bond" THEN bond ELSE flash[s].bond
          /\ queue[1].part # "gatts" => b.gatts = flash[s].gatts
          /\ b.peer = table[s]
      BY <1>2, <2>7
    <3> QED BY <2>1, <2>8, <3>1 DEF Programs
  <2> QED BY <2>2, <2>9, <2>14, <2>15
<1> QED BY <1>3, <1>4 DEF Inv, Stored


LEMMA FlashDoneInv ==
  ASSUME Inv, FlashDone
  PROVE  Inv'
<1>1. /\ queue # <<>> /\ flash' = CarriedOut(Head(queue), Source(Head(queue)))
      /\ gatts' = IF Head(queue).part = "gatts" /\ ~Has("connected") THEN NoContext ELSE gatts
      /\ queue' = Tail(queue)
      /\ UNCHANGED <<conn, table, bond, link, peers>>
  BY DEF FlashDone, Source
<1>2. Sound(flash') /\ (Erases(flash') \/ Programs(flash'))
  <2>1. PICK f : f = CarriedOut(Head(queue), Source(Head(queue)))
    OBVIOUS
  <2>2. Sound(f) /\ (Erases(f) \/ Programs(f))
    BY <1>1, <2>1, Carried
  <2>3. flash' = f
    BY <1>1, <2>1
  <2> QED BY <2>2, <2>3
<1>3. queue \in Operations /\ queue' \in Operations /\ flash \in [Slot -> Block]
      /\ table \in [Slot -> Entry] /\ Head(queue) = queue[1]
  BY <1>1, TailOf DEF Inv, Types, Operations
<1>4. /\ Len(queue') = Len(queue) - 1 /\ Len(queue) \in Nat /\ Len(queue) >= 1
      /\ \A i \in 1 .. Len(queue) : i # 1 => i - 1 \in 1 .. Len(queue') /\ queue'[i - 1] = queue[i]
      /\ \A i \in 1 .. Len(queue') : i + 1 \in 1 .. Len(queue) /\ queue'[i] = queue[i + 1]
  BY <1>1, <1>3, TailOf DEF Operations
<1>5. link.proc = None /\ (conn = Idle \/ Has("bonded"))
  BY <1>1 DEF Inv, Session
<1>6. Types'
  BY <1>1, <1>2, <1>3, Nothing DEF Inv, Types, Sound
<1>7. Session'
  BY <1>1, <1>5, Names, Constants DEF Inv, Session, Has
<1>8. /\ \A s \in Slot : ~Fresh(s)
      /\ conn'.dev # None => Has("bonded")'
  BY <1>1, <1>5, Values, Constants DEF Fresh, Has
<1>9. Named'
  <2>1. Unique(table)'
    BY <1>1 DEF Inv, Named, Unique
  <2>2. Unique(Loaded(flash))'
    BY <1>2 DEF Sound
  <2> QED BY <1>1, <2>1, <2>2 DEF Inv, Named, FoundByAddress, Has
<1>10. Traced'
  <2>1. \A e : Own(e)' <=> Own(e)
    BY <1>1 DEF Own
  <2>2. \A r \in Slot : Own(table[r])'
    BY <1>1, <2>1 DEF Inv, Traced, Own
  <2>3. ASSUME NEW r \in Slot, flash'[r].peer \in Entry
        PROVE  Own(flash[r].peer)' /\ (flash'[r].bond \in Key => flash'[r].bond[1] = flash'[r].peer.addr)
    <3>1. Own(flash'[r].peer) /\ (flash'[r].bond \in Key => flash'[r].bond[1] = flash'[r].peer.addr)
      BY <1>2, <2>3 DEF Sound
    <3> QED BY <1>1, <3>1 DEF Own
  <2>4. Distinct(table)'
    BY <1>1 DEF Inv, Traced, Distinct
  <2>5. Distinct(Loaded(flash))'
    BY <1>2 DEF Sound
  <2>6. link'.proc # "distributed"
    BY <1>1, <1>5, Names
  <2>7. Has("bonded")' /\ bond' \in Key => bond'[1] = conn'.peer
    BY <1>1 DEF Inv, Traced, Has
  <2>8. \A p \in Peer : peers'.held[p] \in Key => peers'.held[p][1] = p
    BY <1>1 DEF Inv, Traced
  <2> QED BY <2>2, <2>3, <2>4, <2>5, <2>6, <2>7, <2>8 DEF Traced
<1>11. Answered'
  BY <1>1 DEF Inv, Answered
<1>12. Len(queue') <= QueueSize /\ \A s \in Slot : Written(flash'[s])
  <2>1. Len(queue) <= QueueSize /\ QueueSize \in Nat
    BY Constants DEF Inv, Stored
  <2> QED BY <1>2, <1>4, <2>1 DEF Sound
<1>13. SUFFICES Stored' /\ \A s \in Slot : table[s] # Unassigned => Will(s)' = Will(s)
  <2>1. ASSUME \A s \in Slot : table[s] # Unassigned => Will(s)' = Will(s)  PROVE Keys'
    <3>1. ASSUME NEW p \in Peer, Keeps(p)  PROVE Keeps(p)'
      <4>1. PICK s \in Slot : Safe(p, s)
        BY <3>1 DEF Keeps
      <4>2. table[s] # Unassigned
        BY <4>1, Values DEF Safe
      <4>3. Will(s)' = Will(s)
        BY <2>1, <4>2
      <4>4. Safe(p, s)'
        BY <1>1, <4>1, <4>3 DEF Safe
      <4> QED BY <4>4 DEF Keeps
    <3> QED BY <1>1, <3>1 DEF Inv, Keys, Has
  <2> QED BY <1>6, <1>7, <1>9, <1>10, <1>11, <2>1 DEF Inv
<1>14. CASE Erases(flash')
  <2>1. PICK o \in Slot : o = queue[1].slot /\ flash' = [flash EXCEPT ![o] = EmptyBlock]
    BY <1>14 DEF Erases
  <2>2. conn = Idle
        /\ \A i \in 1 .. Len(queue) : queue[i].op = "clear" /\ table[queue[i].slot] = Unassigned
    BY <1>14 DEF Erases, Clearing
  <2>3. Clearing'
    <3>1. \A i \in 1 .. Len(queue') : queue'[i].op = "clear" /\ table'[queue'[i].slot] = Unassigned
      BY <1>1, <1>4, <2>2
    <3> QED BY <1>1, <2>2, <3>1 DEF Clearing
  <2>4. table[o] = Unassigned
    BY <1>4, <2>1, <2>2
  <2>5. ASSUME NEW s \in Slot  PROVE Waits(s)' \/ Agree(table'[s], flash'[s])
    <3>1. CASE s = o
      BY <1>1, <1>3, <2>1, <2>4, <3>1 DEF Agree
    <3>2. CASE s # o /\ Waits(s)
      <4>1. PICK i \in 1 .. Len(queue) : queue[i].slot = s
        BY <3>2 DEF Waits
      <4>2. i - 1 \in 1 .. Len(queue') /\ queue'[i - 1].slot = s
        BY <1>4, <2>1, <3>2, <4>1
      <4> QED BY <4>2 DEF Waits
    <3>3. CASE s # o /\ ~Waits(s)
      BY <1>1, <1>3, <1>8, <2>1, <3>3 DEF Inv, Stored
    <3> QED BY <3>1, <3>2, <3>3
  <2>6. Stored'
    BY <1>1, <1>12, <2>2, <2>3, <2>5, Values DEF Stored
  <2>7. ASSUME NEW s \in Slot, table[s] # Unassigned  PROVE Will(s)' = Will(s)
    <3>1. \A i \in 1 .. Len(queue) : queue[i].slot # s
      BY <2>2, <2>7
    <3>2. \A i \in 1 .. Len(queue') : queue'[i].slot # s
      BY <1>4, <3>1
    <3>3. flash'[s] = flash[s]
      BY <1>3, <2>1, <2>4, <2>7
    <3> QED BY <3>1, <3>2, <3>3 DEF Will
  <2> QED BY <2>6, <2>7
<1>15. CASE Programs(flash')
  <2>1. PICK s \in Slot, b \in Block :
               /\ Storing(s) /\ flash' = [flash EXCEPT ![s] = b] /\ b.peer = table[s]
               /\ b.bond = IF queue[1].part = "bond" THEN bond ELSE flash[s].bond
               /\ queue[1].part # "gatts" => b.gatts = flash[s].gatts
    BY <1>15 DEF Programs
  <2>2. flash'[s] = b /\ \A r \in Slot : r # s => flash'[r] = flash[r]
    BY <1>3, <2>1
  <2>3. /\ \A i \in 1 .. Len(queue) :
              /\ queue[i].slot = s /\ queue[i].op # "clear" /\ queue[i].part # "all"
              /\ queue[i].op = "store" => flash[s][queue[i].part] = Blank
              /\ queue[i].part = "peer" => i = 1
              /\ queue[i].part = "gatts" => gatts.kept
        /\ \A i, j \in 1 .. Len(queue) : queue[i].part = queue[j].part => i = j
        /\ table[s].ids # {} /\ conn.dev \in {s, None}
        /\ bond \in Key => bond[1] = table[s].addr
        /\ flash[s].bond \in Key => flash[s].bond[1] = table[s].addr
    BY <2>1 DEF Storing
  <2>4. 1 \in 1 .. Len(queue)
    BY <1>4
  <2>5. ASSUME NEW i \in 1 .. Len(queue')
        PROVE  /\ queue'[i].slot = s /\ queue'[i].op # "clear" /\ queue'[i].part # "all"
               /\ queue'[i].part # "peer" /\ queue'[i].part # queue[1].part
               /\ queue'[i].op = "store" => flash'[s][queue'[i].part] = Blank
               /\ queue'[i].part = "gatts" => gatts'.kept
    <3>1. PICK j \in 1 .. Len(queue) : j = i + 1 /\ queue'[i] = queue[j] /\ j # 1
      BY <1>4
    <3>2. queue[j] \in Operation
      BY <1>3 DEF Operations
    <3>3. PICK o \in Operation : o = queue[j]
      BY <3>2
    <3>4. /\ o.slot = s /\ o.op # "clear" /\ o.part # "all" /\ o.part # "peer"
          /\ o.part # queue[1].part
          /\ o.op = "store" => flash[s][o.part] = Blank
          /\ o.part = "gatts" => gatts.kept
      BY <2>3, <2>4, <3>1, <3>3
    <3>5. o.part \in {"bond", "gatts"}
      BY <3>4 DEF Operation
    <3>6. o.op = "store" => flash'[s][o.part] = Blank
      BY <2>1, <2>2, <3>4, <3>5
    <3>7. o.part = "gatts" => gatts'.kept
      BY <1>1, <1>3, <3>4
    <3> QED BY <3>1, <3>3, <3>4, <3>6, <3>7
  <2>6. queue' = <<>> \/ Storing(s)'
    <3>1. \A i, j \in 1 .. Len(queue') : queue'[i].part = queue'[j].part => i = j
      <4>1. ASSUME NEW i \in 1 .. Len(queue'), NEW j \in 1 .. Len(queue'),
                   queue'[i].part = queue'[j].part
            PROVE  i = j
        <5>1. i + 1 \in 1 .. Len(queue) /\ j + 1 \in 1 .. Len(queue)
              /\ queue'[i] = queue[i + 1] /\ queue'[j] = queue[j + 1]
          BY <1>4
        <5>2. i + 1 = j + 1
          BY <2>3, <4>1, <5>1
        <5> QED BY <5>2
      <4> QED BY <4>1
    <3>2. flash'[s].peer = table'[s] /\ table'[s].ids # {} /\ conn'.dev \in {s, None}
      BY <1>1, <2>1, <2>2, <2>3
    <3>3. bond' \in Key => bond'[1] = table'[s].addr
      BY <1>1, <2>3
    <3>4. flash'[s].bond \in Key => flash'[s].bond[1] = table'[s].addr
      BY <1>1, <2>1, <2>2, <2>3
    <3> QED BY <2>5, <3>1, <3>2, <3>3, <3>4 DEF Storing
  <2>7. \A r \in Slot : Agree(table'[r], flash'[r])
    <3>1. \A r \in Slot : r # s => ~Waits(r)
      BY <2>3 DEF Waits
    <3>2. Agree(table'[s], flash'[s])
      BY <1>1, <2>1, <2>2, <2>3 DEF Agree
    <3> QED BY <1>1, <1>8, <2>2, <3>1, <3>2 DEF Inv, Stored
  <2>8. conn'.dev # None /\ ~gatts'.kept => flash'[conn'.dev].gatts = Blank
    <3>1. SUFFICES ASSUME conn.dev # None, ~gatts'.kept  PROVE flash'[conn.dev].gatts = Blank
      BY <1>1
    <3>2. conn.dev = s
      BY <2>3, <3>1
    <3>3. Has("connected")
      BY <3>1, Values DEF Inv, Session
    <3>4. gatts' = gatts
      BY <1>1, <3>3
    <3>5. queue[1].part # "gatts"
      BY <2>3, <2>4, <3>1, <3>4
    <3>6. flash[s].gatts = Blank
      BY <3>1, <3>2, <3>4 DEF Inv, Stored
    <3> QED BY <2>1, <2>2, <3>2, <3>5, <3>6
  <2>9. Stored'
    BY <1>8, <1>12, <2>6, <2>7, <2>8 DEF Stored
  <2>10. ASSUME NEW r \in Slot  PROVE Will(r)' = Will(r)
    <3>1. CASE r # s
      <4>1. \A i \in 1 .. Len(queue) : queue[i].slot # r
        BY <2>3, <3>1
      <4>2. \A i \in 1 .. Len(queue') : queue'[i].slot # r
        BY <2>5, <3>1
      <4> QED BY <2>2, <3>1, <4>1, <4>2 DEF Will
    <3>2. CASE r = s /\ queue[1].part = "bond"
      <4>1. Will(s) = bond
        BY <2>3, <2>4, <3>2 DEF Will
      <4>2. flash'[s].bond = bond /\ bond' = bond
        BY <1>1, <2>1, <2>2, <3>2
      <4> QED BY <3>2, <4>1, <4>2 DEF Will
    <3>3. CASE r = s /\ queue[1].part # "bond"
      <4>1. flash'[s].bond = flash[s].bond /\ bond' = bond
        BY <1>1, <2>1, <2>2, <3>3
      <4>2. (\E i \in 1 .. Len(queue') : queue'[i].slot = s /\ queue'[i].part = "bond")
            <=> (\E i \in 1 .. Len(queue) : queue[i].slot = s /\ queue[i].part = "bond")
        <5>1. ASSUME NEW i \in 1 .. Len(queue), queue[i].part = "bond"
              PROVE  \E j \in 1 .. Len(queue') : queue'[j].slot = s /\ queue'[j].part = "bond"
          <6>1. i # 1
            BY <3>3, <5>1
          <6>2. i - 1 \in 1 .. Len(queue') /\ queue'[i - 1] = queue[i]
            BY <1>4, <6>1
          <6> QED BY <2>3, <5>1, <6>2
        <5>2. ASSUME NEW j \in 1 .. Len(queue'), queue'[j].part = "bond"
              PROVE  \E i \in 1 .. Len(queue) : queue[i].slot = s /\ queue[i].part = "bond"
          BY <1>4, <2>3, <5>2
        <5> QED BY <5>1, <5>2
      <4> QED BY <3>3, <4>1, <4>2 DEF Will
    <3> QED BY <3>1, <3>2, <3>3
  <2> QED BY <2>9, <2>10
<1> QED BY <1>2, <1>14, <1>15

LEMMA PowerLossInv ==
  ASSUME Inv, PowerLoss
  PROVE  Inv'
<1>1. \/ Restart(flash, {})
      \/ queue # <<>> /\ Restart(CarriedOut(Head(queue), Source(Head(queue))), {})
  BY DEF PowerLoss, Source
<1>2. CASE Restart(flash, {})
  BY <1>2, FlashSound, CrashInv
<1>3. CASE queue # <<>> /\ Restart(CarriedOut(Head(queue), Source(Head(queue))), {})
  <2>1. PICK f : f = CarriedOut(Head(queue), Source(Head(queue)))
    OBVIOUS
  <2>2. Sound(f) /\ \A s \in Slot : Waits(s) \/ f[s] = flash[s]
    BY <1>3, <2>1, Carried
  <2>3. Restart(f, {})
    BY <1>3, <2>1
  <2> QED BY <2>2, <2>3, CrashInv
<1> QED BY <1>1, <1>2, <1>3

LEMMA FlashFailsInv ==
  ASSUME Inv, FlashFails
  PROVE  Inv'
<1>1. Restart(flash, {})
  BY DEF FlashFails
<1> QED BY <1>1, FlashSound, CrashInv


-----------------------------------------------------------------------------
\* Every step.

LEMMA NextInv ==
  ASSUME Inv, Orderly, [Next]_vars
  PROVE  Inv'
<1>1. ASSUME NEW p \in Peer, Connected(p)  PROVE Inv'
  BY <1>1, ConnectedInv
<1>2. ASSUME NEW p \in Peer, PeerForgets(p)  PROVE Inv'
  BY <1>2, PeerForgetsInv
<1>3. CASE Disconnected
  BY <1>3, DisconnectedInv
<1>4. CASE SecInfoRequest
  BY <1>4, SecInfoRequestInv
<1>5. CASE SecParamsRequest
  BY <1>5, SecParamsRequestInv
<1>6. CASE KeysDistributed
  BY <1>6, KeysDistributedInv
<1>7. CASE AuthFails
  BY <1>7, AuthFailsInv
<1>8. CASE AuthUnbonded
  BY <1>8, AuthUnbondedInv
<1>9. ASSUME NEW idKey \in BOOLEAN, AuthBonded(idKey)  PROVE Inv'
  BY <1>9, AuthBondedInv
<1>10. CASE SecUpdateEncrypted
  BY <1>10, SecUpdateEncryptedInv
<1>11. CASE SecUpdateOpen
  BY <1>11, SecUpdateOpenInv
<1>12. CASE SysAttrMissing \/ Subscribe
  BY <1>12, AttributesInv
<1>13. CASE FlashDone
  BY <1>13, FlashDoneInv
<1>14. CASE FlashFails
  BY <1>14, FlashFailsInv
<1>15. CASE PowerLoss
  BY <1>15, PowerLossInv
<1>16. CASE DeviceDeleteAll
  <2>1. Assigned \in SUBSET Slot
    BY DEF Assigned
  <2>2. Deleted(Assigned) /\ UNCHANGED gatts
    BY <1>16 DEF DeviceDeleteAll
  <2> QED BY <2>1, <2>2, DeletedInv
<1>17. ASSUME NEW s \in Slot, DeviceDelete(s)  PROVE Inv'
  <2>1. {s} \in SUBSET Slot /\ Deleted({s}) /\ UNCHANGED gatts
    BY <1>17 DEF DeviceDelete
  <2> QED BY <2>1, DeletedInv
<1>18. CASE UNCHANGED vars
  <2>1. UNCHANGED <<conn, table, bond, queue, flash, link, peers, gatts>>
    BY <1>18 DEF vars
  <2>2. Types' /\ Session' /\ Answered'
    BY <2>1 DEF Inv, Types, Session, Answered, Has
  <2>3. Has("bonded")' <=> Has("bonded")
    BY <2>1 DEF Has
  <2>4. Stored' /\ Named' /\ Traced' /\ Keys'
    BY <2>1, <2>3, SameStored, SameNamed, SameTraced, SameKeys DEF Inv
  <2> QED BY <2>2, <2>4 DEF Inv
<1> QED BY <1>1, <1>2, <1>3, <1>4, <1>5, <1>6, <1>7, <1>8, <1>9, <1>10, <1>11, <1>12,
           <1>13, <1>14, <1>15, <1>16, <1>17, <1>18 DEF Next

LEMMA AlwaysInv ==
  ASSUME Orderly
  PROVE  Spec => []Inv
<1>1. Init => Inv
  BY InitInv
<1>2. Inv /\ [Next]_vars => Inv'
  BY NextInv
<1> QED BY <1>1, <1>2, PTL DEF Spec

-----------------------------------------------------------------------------
\* What the invariant says.

LEMMA InvTypeOK ==
  ASSUME Inv
  PROVE  BondsTypeOK
<1>1. /\ conn.state \subseteq {"connected", "bonded", "encrypted", "pairing", "pending", "update"}
      /\ conn.peer \in Peer \cup {None} /\ conn.dev \in Slot \cup {None}
  BY DEF Inv, Types, Conn, State, Bits
<1>2. \A s \in Slot : /\ table[s].ids \subseteq {"addr", "irk"}
                      /\ table[s].addr \in Peer \cup {None}
                      /\ table[s].ediv \in Key \cup {None}
  BY DEF Inv, Types, Entry
<1>3. bond \in Key \cup {None, Blank} /\ peers.keys \in 0 .. MaxKeys
  BY DEF Inv, Types, Secret
<1>4. queue \in Seq(Operation)
  BY DEF Inv, Types, Operations
<1>5. \A i \in 1 .. Len(queue) : queue[i].slot \in Slot
  <2>1. \A i \in 1 .. Len(queue) : queue[i] \in Operation
    BY <1>4
  <2> QED BY <2>1 DEF Operation
<1>6. Len(queue) <= QueueSize
  BY DEF Inv, Stored
<1> QED BY <1>1, <1>2, <1>3, <1>5, <1>6 DEF BondsTypeOK

LEMMA InvErased ==
  ASSUME Inv
  PROVE  StoresErased
<1>1. ASSUME NEW s \in Slot, NEW part \in DOMAIN flash[s]  PROVE flash[s][part] # Garbled
  <2>1. PICK b \in Block : b = flash[s]
    BY DEF Inv, Types
  <2>2. b.peer # Garbled /\ b.bond # Garbled /\ b.gatts # Garbled
    BY Constants DEF Block
  <2>3. DOMAIN b = {"peer", "bond", "gatts"}
    BY DEF Block
  <2> QED BY <2>1, <2>2, <2>3
<1> QED BY <1>1 DEF StoresErased

LEMMA InvAgrees ==
  ASSUME Inv
  PROVE  FlashAgrees
<1> SUFFICES ASSUME conn = Idle, queue = <<>>
             PROVE  table = Loaded(flash)
  BY DEF FlashAgrees
<1>1. flash \in [Slot -> Block] /\ table \in [Slot -> Entry]
  BY DEF Inv, Types
<1>2. \A s \in Slot : Agree(table[s], flash[s])
  BY Settled, Values, Constants DEF Inv, Fresh
<1>3. \A s \in Slot : table[s] = Loaded(flash)[s]
  BY <1>1, <1>2, AgreeLoads
<1>4. Loaded(flash) = [s \in Slot |-> Loaded(flash)[s]]
  BY DEF Loaded
<1> QED BY <1>1, <1>3, <1>4

LEMMA InvListed ==
  ASSUME Inv
  PROVE  BondedListed
<1> SUFFICES ASSUME NEW p \in Peer, peers.owed[p] # None, conn.peer # p
             PROVE  \E s \in Whitelist(MaxBonds, MaxBonds) : table[s].addr = p
  BY DEF BondedListed
<1>1. PICK s \in Slot : table[s].addr = p /\ table[s].ids # {}
  BY DEF Inv, Keys, Keeps, Safe
<1>2. PICK kind \in {"addr", "irk"} : kind \in table[s].ids
  BY <1>1, EntryFields DEF Inv, Types
<1>3. conn.dev # s
  BY <1>1, Constants DEF Inv, Named
<1> QED BY <1>1, <1>2, <1>3, AllListed

LEMMA InvKept ==
  ASSUME Inv
  PROVE  BondsKept
<1> SUFFICES ASSUME queue = <<>>, NEW p \in Peer, peers.owed[p] # None
             PROVE  \E s \in Slot : DistributedKey(s) = peers.owed[p] /\ table[s].addr = p
  BY DEF BondsKept
<1>1. PICK s \in Slot : table[s].addr = p /\ Will(s) = peers.owed[p]
  BY DEF Inv, Keys, Keeps, Safe
<1> QED BY <1>1, Settled DEF Inv, DistributedKey

(* Whatever connects, pairs, fails or is deleted, the device build's       *)
(* table, flash, queue and whitelist tell one story of who is bonded, with *)
(* phones on fixed and on resolvable addresses and with the context of the *)
(* GATT server in the same blocks: no part of a block is programmed twice, *)
(* a phone has one entry, an idle module has the table a restart would     *)
(* load, and a bond a phone counts on is in flash and in the whitelist     *)
(* (device_manager_peripheral.c: device_context_store,                     *)
(* gatts_context_store, device_instance_free, dm_init).                    *)
THEOREM BondsAreSound ==
  ASSUME Orderly
  PROVE  Spec => []BondsSound
<1>1. Inv => BondsSound
  <2> SUFFICES ASSUME Inv  PROVE BondsSound
    OBVIOUS
  <2>1. OnePerPeer
    <3>1. Unique(table) /\ Unique(Loaded(flash))
      BY DEF Inv, Named
    <3> QED BY <3>1 DEF OnePerPeer, Unique
  <2> QED BY <2>1, InvTypeOK, InvErased, InvAgrees, InvKept, InvListed DEF BondsSound
<1> QED BY <1>1, AlwaysInv, PTL

(* A phone that asks for the key it counts on is answered with it, and no  *)
(* phone is ever answered with another's, although one bond buffer serves  *)
(* them all and a phone on a resolvable address is known only by the       *)
(* diversifier it sends; and the application is not told of an encryption  *)
(* the link lacks (device_manager_peripheral.c: SEC_INFO_REQUEST,          *)
(* dm_security_status_req).                                                *)
THEOREM BondsAreHonoured ==
  ASSUME Orderly
  PROVE  Spec => []BondsHonoured
<1>1. Inv => BondsHonoured
  <2> SUFFICES ASSUME Inv  PROVE BondsHonoured
    OBVIOUS
  <2>1. SecurityStatus = "encrypted" => link.secured
    BY DEF SecurityStatus, Inv, Session
  <2> QED BY <2>1 DEF BondsHonoured, Inv, Answered
<1> QED BY <1>1, AlwaysInv, PTL


=============================================================================
