------------------------------ MODULE HostProofs ------------------------------
(***************************************************************************)
(* Theorems about the host build, which runs two machines side by side:    *)
(* its bonds (DeviceManagerCentral) for any number of peers, entries and   *)
(* keys, and service discovery (DbDiscovery) for any services, users and   *)
(* sizes, whatever fails.                                                  *)
(*                                                                         *)
(* The invariant of the bonds has five parts beside the types.  Session is *)
(* the record of the link; Stored says what each slot of the flash has in  *)
(* common with the table, by what the queue still holds for it; Named,     *)
(* whose address an entry has; Keys, where the key is that a peer counts   *)
(* on.  That of the discovery says, for the request under way, what was    *)
(* found so far of the service it is about.                                *)
(***************************************************************************)
EXTENDS DeviceManagerCentral, DeviceManagerProofs, DbDiscovery, NaturalsInduction,
        WellFoundedInduction

(* Flash operations end before the next link event, and the queue of       *)
(* pstorage has room for the two parts of a bond.                          *)
Orderly == Prompt /\ QueueSize >= 2

-----------------------------------------------------------------------------
\* The invariant.

Types ==
    /\ conn \in Conn /\ table \in [Slot -> Entry] /\ bond \in Secret
    /\ flash \in [Slot -> Block] /\ link \in Link /\ queue \in Operations
    /\ peers \in [held : Held, owed : Held, keys : 0 .. MaxKeys]

Session ==
    /\ conn = Idle \/ (Has("connected") /\ conn.peer \in Peer)
    /\ conn = Idle => link = Down
    /\ ~Has("pending")
    /\ BusyPairs
    /\ Has("pairing") <=> link.proc \in Pairing
    /\ link.proc \in Pairing => conn.dev # None /\ (Has("bonded") => Has("update"))
    /\ Has("bonded") => conn.dev # None
    /\ Has("update") => Has("bonded")
    /\ link.proc \in {"stk", "distributed"} => link.secured
    /\ link.proc \in {"encrypting", "authenticating", "params"} => ~link.secured
    /\ queue # <<>> =>
          link.proc = None /\ (conn = Idle \/ (Has("bonded") /\ ~Has("update")))

(* What the queue may hold: the parts of one bond, or erasures. *)
Both(f, s) == <<Op(f, s, "peer"), Op(f, s, "bond")>>
Rest(f, s) == <<Op(f, s, "bond")>>
Storing(s, f) ==
    /\ \/ queue = Both(f, s) /\ (f = "store" => flash[s] = EmptyBlock)
       \/ queue = Rest(f, s) /\ flash[s].peer = table[s]
          /\ (f = "store" => flash[s].bond = Blank)
    /\ table[s].ids # {}
    /\ conn.dev \in {s, None}
Clearing ==
    /\ Len(queue) <= QueueSize /\ conn = Idle
    /\ \A i \in 1 .. Len(queue) :
          queue[i].op = "clear" /\ table[queue[i].slot] = Unassigned

Stored ==
    /\ queue = <<>> \/ Clearing \/ \E s \in Slot, f \in {"store", "update"} : Storing(s, f)
    /\ \A s \in Slot : Written(flash[s])
    /\ \A s \in Slot : Waits(s) \/ Fresh(s) \/ Agree(table[s], flash[s])
    /\ conn.dev # None /\ ~Has("bonded") =>
          flash[conn.dev] = EmptyBlock /\ table[conn.dev].ids # {}

Named ==
    /\ conn.dev # None =>
          /\ table[conn.dev].addr \in {conn.peer, None}
          /\ conn.peer \notin Resolvable \/ Has("bonded") \/ link.proc = "distributed"
                => table[conn.dev].addr = conn.peer
    /\ conn # Idle /\ conn.dev = None => FoundByAddress(conn.peer) = {}
    /\ Unique(table) /\ Unique(Loaded(flash))

(* The key a slot will have once the queue is empty. *)
Will(s) == IF \E i \in 1 .. Len(queue) : queue[i].slot = s /\ queue[i].op # "clear"
           THEN bond ELSE flash[s].bond
Keeps(p) == \E s \in Slot : /\ table[s].addr = p /\ table[s].ids # {}
                            /\ Will(s) = peers.owed[p]
Keys ==
    /\ \A p \in Peer : peers.owed[p] # None =>
          /\ peers.held[p] = peers.owed[p] /\ Keeps(p)
          /\ conn.peer = p /\ Has("bonded") => bond = peers.owed[p] /\ ~Has("update")
    /\ link.proc = "distributed" => bond = peers.held[conn.peer] /\ bond \in Key
    /\ link.proc = "encrypting" /\ Has("bonded") => link.reply = bond

Inv == Types /\ Session /\ Stored /\ Named /\ Keys

-----------------------------------------------------------------------------
\* The queue.

LEMMA Room ==
  ASSUME QueueSize >= 2, queue = <<>>
  PROVE  /\ Queued(<<>>) = <<>>
         /\ \A f \in {"store", "update"}, s \in Slot :
               Queued(<<Op(f, s, "peer"), Op(f, s, "bond")>>) = Both(f, s)
<1>1. Len(queue) = 0 /\ QueueSize \in Nat
  BY Constants
<1>2. Queued(<<>>) = <<>>
  BY <1>1 DEF Queued
<1>3. ASSUME NEW f \in {"store", "update"}, NEW s \in Slot
      PROVE  Queued(<<Op(f, s, "peer"), Op(f, s, "bond")>>) = Both(f, s)
  <2>1. PICK ops : ops = <<Op(f, s, "peer"), Op(f, s, "bond")>>
    OBVIOUS
  <2>2. Len(ops) = 2 /\ ops \in Seq({Op(f, s, "peer"), Op(f, s, "bond")})
    BY <2>1
  <2>3. SubSeq(ops, 1, 2) = ops
    BY <2>2
  <2>4. <<>> \o ops = ops
    BY <2>2
  <2>5. Queued(ops) = queue \o SubSeq(ops, 1, IF 2 <= QueueSize - 0 THEN 2 ELSE QueueSize - 0)
    BY <1>1, <2>2 DEF Queued
  <2>6. (IF 2 <= QueueSize - 0 THEN 2 ELSE QueueSize - 0) = 2
    BY <1>1
  <2> QED BY <2>1, <2>3, <2>4, <2>5, <2>6 DEF Both
<1> QED BY <1>2, <1>3

-----------------------------------------------------------------------------
\* What the parts depend on.

LEMMA SameStored ==
  ASSUME Types, Stored, UNCHANGED <<table, bond, queue, flash>>,
         conn'.dev = conn.dev, Has("bonded")' <=> Has("bonded"), conn = Idle => conn' = Idle
  PROVE  Stored'
<1>1. Clearing => Clearing'
  BY DEF Clearing
<1>2. \A s \in Slot, f \in {"store", "update"} : Storing(s, f) => Storing(s, f)'
  BY DEF Storing
<1>3. \A s \in Slot : (Waits(s) => Waits(s)') /\ (Fresh(s) => Fresh(s)')
  BY DEF Waits, Fresh
<1> QED BY <1>1, <1>2, <1>3 DEF Stored

LEMMA SameNamed ==
  ASSUME Named, UNCHANGED <<table, flash>>, conn'.dev = conn.dev, conn'.peer = conn.peer,
         Has("bonded")' => Has("bonded"), conn' # Idle => conn # Idle,
         link'.proc = "distributed" => link.proc = "distributed"
  PROVE  Named'
BY DEF Named, Unique, Loaded, FoundByAddress

(* Nothing but the link changes, and no pairing is at its end. *)
LEMMA SameKeys ==
  ASSUME Keys, UNCHANGED <<table, bond, queue, flash, peers>>, conn'.peer = conn.peer,
         Has("bonded")' <=> Has("bonded"),
         Has("update")' => Has("update") \/ \A p \in Peer : p = conn.peer => peers.owed[p] = None,
         link'.proc = "distributed" => link.proc = "distributed",
         link'.proc = "encrypting" => link'.reply = bond
  PROVE  Keys'
<1>1. \A p \in Peer : Keeps(p) => Keeps(p)'
  BY DEF Keeps, Will
<1> QED BY <1>1 DEF Keys

LEMMA InitInv ==
  ASSUME Init
  PROVE  Inv
<1>1. Types
  <2>1. 0 \in 0 .. MaxKeys
    BY BondsAssumption
  <2>2. peers \in [held : Held, owed : Held, keys : 0 .. MaxKeys]
    BY <2>1 DEF Init, InitCommon, Held
  <2>3. <<>> \in Operations
    BY DEF Operations
  <2>4. None \in Secret
    BY DEF Secret
  <2> QED BY <2>2, <2>3, <2>4, Values DEF Init, InitCommon, Types
<1>2. Session
  BY Values, Constants DEF Init, InitCommon, Session, Has, BusyPairs, Pairing
<1>3. Stored
  <2>1. \A s \in Slot : Agree(table[s], flash[s]) /\ Written(flash[s])
    BY DEF Init, InitCommon, Agree, Written
  <2> QED BY <2>1, Values DEF Init, InitCommon, Stored
<1>4. Named
  <2>1. \A s \in Slot : Loaded(flash)[s] = Unassigned /\ table[s] = Unassigned
    BY Values DEF Init, InitCommon, Loaded
  <2>2. Unique(table) /\ Unique(Loaded(flash))
    BY <2>1, Values, Constants DEF Unique
  <2> QED BY <2>2, Values DEF Init, InitCommon, Named
<1>5. Keys
  <2>1. link.proc = None /\ "distributed" \in Procedure /\ "encrypting" \in Procedure
    BY Values DEF Init, InitCommon, Procedure
  <2>2. \A p \in Peer : peers.owed[p] = None
    BY DEF Init, InitCommon
  <2> QED BY <2>1, <2>2, Constants DEF Keys
<1> QED BY <1>1, <1>2, <1>3, <1>4, <1>5 DEF Inv

(* A step of the link alone. *)
LEMMA LinkFrame ==
  ASSUME Inv, Session', conn # Idle, conn' \in Conn, link' \in Link,
         UNCHANGED <<table, bond, queue, flash, peers>>,
         conn'.dev = conn.dev, conn'.peer = conn.peer, Has("bonded")' <=> Has("bonded"),
         Has("update")' => Has("update") \/ \A p \in Peer : p = conn.peer => peers.owed[p] = None,
         link'.proc = "distributed" => link.proc = "distributed",
         link'.proc = "encrypting" => link'.reply = bond
  PROVE  Inv'
<1>1. Types'
  BY DEF Inv, Types
<1>2. Stored'
  BY SameStored DEF Inv
<1>3. Named'
  BY SameNamed DEF Inv
<1>4. Keys'
  BY SameKeys DEF Inv
<1> QED BY <1>1, <1>2, <1>3, <1>4 DEF Inv

-----------------------------------------------------------------------------
\* Starting again.

LEMMA CrashInv ==
  ASSUME Inv, NEW f \in [Slot -> Block], \A s \in Slot : Written(f[s]), Unique(Loaded(f)),
         \A s \in Slot : Waits(s) \/ f[s] = flash[s], Restart(f)
  PROVE  Inv'
<1>1. /\ flash' = f /\ table' = Loaded(f) /\ conn' = Idle /\ bond' = None /\ queue' = <<>>
      /\ link' = Down /\ app' = {}
      /\ peers' = [peers EXCEPT !.owed = [p \in Peer |-> IF Pending(p) THEN None ELSE @[p]]]
  BY DEF Restart, StartsAgain
<1>2. peers \in [held : Held, owed : Held, keys : 0 .. MaxKeys]
  BY DEF Inv, Types
<1>3. /\ peers' \in [held : Held, owed : Held, keys : 0 .. MaxKeys]
      /\ peers'.held = peers.held
      /\ \A p \in Peer : peers'.owed[p] # None => ~Pending(p) /\ peers'.owed[p] = peers.owed[p]
  BY <1>1, <1>2 DEF Held
<1>4. table' \in [Slot -> Entry] /\ \A s \in Slot : Agree(table'[s], f[s])
  BY <1>1, Loads
<1>5. Types'
  <2>1. <<>> \in Operations /\ None \in Secret
    BY DEF Operations, Secret
  <2> QED BY <1>1, <1>3, <1>4, <2>1, Values DEF Types
<1>6. Session'
  BY <1>1, Values, Constants DEF Session, Has, BusyPairs, Pairing
<1>7. Stored'
  BY <1>1, <1>4, Values DEF Stored
<1>8. Named'
  BY <1>1, Values DEF Named
<1>9. Keys'
  <2>1. link'.proc # "distributed" /\ link'.proc # "encrypting" /\ ~Has("bonded")'
    BY <1>1, Values, Constants DEF Has, Pairing
  <2>2. ASSUME NEW p \in Peer, peers'.owed[p] # None
        PROVE  peers'.held[p] = peers'.owed[p] /\ Keeps(p)'
    <3>1. ~Pending(p) /\ peers'.owed[p] = peers.owed[p] /\ peers.owed[p] \in Key
      BY <1>2, <1>3, <2>2 DEF Held
    <3>2. peers.held[p] = peers.owed[p] /\ Keeps(p)
      BY <2>2, <3>1 DEF Inv, Keys
    <3>3. PICK s \in Slot : table[s].addr = p /\ table[s].ids # {} /\ Will(s) = peers.owed[p]
      BY <3>2 DEF Keeps
    <3>4. ~Waits(s)
      BY <3>1, <3>3 DEF Pending, Waits
    <3>5. f[s] = flash[s] /\ flash[s].bond = peers.owed[p]
      BY <3>3, <3>4 DEF Will, Waits
    <3>6. ~Fresh(s)
      <4>1. flash[s].bond # Blank
        BY <3>1, <3>5, Constants
      <4> QED BY <4>1, Values, Constants DEF Inv, Stored, Fresh
    <3>7. Agree(table[s], flash[s]) /\ table[s] \in Entry
      BY <3>4, <3>6 DEF Inv, Stored, Types
    <3>8. table'[s] = table[s]
      BY <1>1, <3>5, <3>7, AgreeLoads
    <3>9. Will(s)' = f[s].bond
      BY <1>1 DEF Will
    <3> QED BY <1>3, <3>1, <3>2, <3>3, <3>5, <3>8, <3>9 DEF Keeps
  <2> QED BY <2>1, <2>2 DEF Keys
<1> QED BY <1>5, <1>6, <1>7, <1>8, <1>9 DEF Inv

-----------------------------------------------------------------------------
\* Encryption and pairing.

LEMMA OnLink ==
  ASSUME Inv, link.proc # None
  PROVE  conn # Idle /\ conn \in Conn /\ link \in Link /\ queue = <<>> /\ conn.peer \in Peer
BY Values DEF Inv, Types, Session

LEMMA SecParamsRequestInv ==
  ASSUME Inv, SecParamsRequest
  PROVE  Inv'
<1>1. /\ link.proc = "authenticating" /\ conn' = [conn EXCEPT !.state = @ \cup {"pairing"}]
      /\ link' = [link EXCEPT !.proc = "params"]
      /\ UNCHANGED <<table, bond, queue, flash, peers, app>>
  BY DEF SecParamsRequest, Host
<1>2. conn # Idle /\ conn \in Conn /\ link \in Link /\ queue = <<>> /\ "params" \in Procedure
  <2>1. "authenticating" \in Procedure /\ "params" \in Procedure
    BY DEF Procedure
  <2> QED BY <1>1, <2>1, OnLink, Constants
<1>3. Has("pairing")
  BY <1>1 DEF Inv, Session, Pairing
<1>4. conn' = conn
  BY <1>1, <1>2, <1>3 DEF Has, Conn
<1>5. link' \in Link /\ link'.proc = "params" /\ link'.secured = link.secured
  BY <1>1, <1>2 DEF Link
<1>6. Session'
  BY <1>1, <1>2, <1>4, <1>5 DEF Inv, Session, Has, BusyPairs, Pairing
<1> QED BY <1>1, <1>2, <1>4, <1>5, <1>6, LinkFrame DEF Has

(* A bit is set on the link: it is a link of the same peer. *)
LEMMA BitSet ==
  ASSUME Inv, conn # Idle, NEW bits \in State, conn' = [conn EXCEPT !.state = @ \cup bits]
  PROVE  /\ conn' \in Conn /\ conn'.state = conn.state \cup bits
         /\ conn'.peer = conn.peer /\ conn'.dev = conn.dev /\ conn' # Idle
         /\ "connected" \in conn'.state
<1>1. conn \in Conn /\ conn.state \in State
  BY DEF Inv, Types, Conn
<1>2. PICK state \in State : state = conn.state \cup bits /\ conn' = [conn EXCEPT !.state = state]
  BY <1>1 DEF State
<1>3. /\ conn' \in Conn /\ conn'.state = conn.state \cup bits
      /\ conn'.peer = conn.peer /\ conn'.dev = conn.dev
  BY <1>1, <1>2 DEF Conn
<1>4. "connected" \in conn.state
  BY DEF Inv, Session, Has
<1> QED BY <1>3, <1>4, Values

LEMMA SecUpdateInv ==
  ASSUME Inv, SecUpdate
  PROVE  Inv'
<1>1. /\ conn' = [conn EXCEPT !.state = @ \cup {"encrypted"}]
      /\ UNCHANGED <<table, bond, queue, flash, peers, app>>
  BY DEF SecUpdate, Host
<1>2. \/ link.proc = "params" /\ link' = [link EXCEPT !.proc = "stk", !.secured = TRUE]
      \/ link.proc = "encrypting" /\ link' = [link EXCEPT !.proc = None, !.secured = TRUE]
  BY DEF SecUpdate
<1>3. {"params", "stk", "encrypting", "distributed"} \subseteq Procedure
  BY DEF Procedure
<1>4. conn # Idle /\ conn \in Conn /\ link \in Link /\ queue = <<>> /\ conn.peer \in Peer
  BY <1>2, <1>3, OnLink, Constants
<1>5. /\ conn' \in Conn /\ conn'.state = conn.state \cup {"encrypted"}
      /\ conn'.peer = conn.peer /\ conn'.dev = conn.dev /\ conn' # Idle
      /\ "connected" \in conn'.state
  <2>1. {"encrypted"} \in State
    BY DEF State, Bits
  <2> QED BY <1>1, <1>4, <2>1, BitSet
<1>6. /\ link' \in Link /\ link'.secured
      /\ \/ link.proc = "params" /\ link'.proc = "stk"
         \/ link.proc = "encrypting" /\ link'.proc = None
  BY <1>2, <1>3, <1>4 DEF Link
<1>7. Session'
  BY <1>1, <1>3, <1>4, <1>5, <1>6, Constants DEF Inv, Session, Has, BusyPairs, Pairing
<1>8. link'.proc # "distributed" /\ link'.proc # "encrypting"
  BY <1>3, <1>6, Constants
<1> QED BY <1>1, <1>4, <1>5, <1>6, <1>7, <1>8, LinkFrame DEF Has

(* A pairing begins. *)
LEMMA PairingBegins ==
  ASSUME "connected" \in conn'.state, "pairing" \in conn'.state, "pending" \notin conn'.state,
         "bonded" \in conn'.state <=> "update" \in conn'.state,
         conn'.peer \in Peer, conn'.dev # None,
         link'.proc = "authenticating", ~link'.secured, "busy" \in app', queue' = <<>>
  PROVE  Session'
<1>1. conn' # Idle
  BY Values
<1>2. "authenticating" \in Pairing /\ "authenticating" # "stk" /\ "authenticating" # "distributed"
  BY DEF Pairing
<1> QED BY <1>1, <1>2 DEF Session, Has, BusyPairs

LEMMA SecUpdateOpenInv ==
  ASSUME Inv, SecUpdateOpen
  PROVE  Inv'
<1>1. /\ link.proc = "encrypting"
      /\ link.reply = None \/ link.reply # peers.held[conn.peer]
      /\ UNCHANGED <<table, bond, queue, flash, peers>>
  BY DEF SecUpdateOpen
<1>2. {"encrypting", "authenticating", "distributed"} \subseteq Procedure
  BY DEF Procedure
<1>3. conn # Idle /\ conn \in Conn /\ link \in Link /\ queue = <<>> /\ conn.peer \in Peer
  BY <1>1, <1>2, OnLink, Constants
<1>4. PICK ended : ended = [link EXCEPT !.proc = None, !.reply = None]
  OBVIOUS
<1>5. ended \in Link /\ ended.proc = None /\ ended.secured = link.secured
  BY <1>3, <1>4 DEF Link, Secret
<1>6. CASE Has("bonded")
  <2>1. PICK c : c = [conn EXCEPT !.state = @ \cup {"pending", "update"}]
    OBVIOUS
  <2>2. Started(c, app \cup {"queued"}, ended)
    BY <1>4, <1>6, <2>1 DEF SecUpdateOpen
  <2>3. PICK state \in State : state = ((conn.state \cup {"pending", "update"}) \ {"pending"}) \cup {"pairing"}
    BY <1>3 DEF Conn, State, Bits
  <2>4. c.state = conn.state \cup {"pending", "update"}
    BY <1>3, <2>1 DEF Conn
  <2>5. /\ conn' = Initiated(c) /\ app' = (app \cup {"queued"}) \cup {"busy"}
        /\ link' = [ended EXCEPT !.proc = "authenticating"]
    BY <2>2, <2>4 DEF Started
  <2>6. conn' = [conn EXCEPT !.state = state]
    BY <1>3, <2>1, <2>3, <2>5 DEF Initiated, Conn
  <2>7. /\ conn' \in Conn /\ conn'.state = state
        /\ conn'.peer = conn.peer /\ conn'.dev = conn.dev
    BY <1>3, <2>6 DEF Conn
  <2>8. link' \in Link /\ link'.proc = "authenticating" /\ link'.secured = link.secured
    BY <1>2, <1>5, <2>5 DEF Link
  <2>9. "connected" \in conn.state
    BY <1>3 DEF Inv, Session, Has
  <2>10. conn' # Idle /\ "connected" \in state /\ (Has("bonded")' <=> Has("bonded"))
         /\ Has("pairing")' /\ ~Has("pending")' /\ Has("bonded")' /\ "busy" \in app'
    BY <1>6, <2>3, <2>5, <2>7, <2>9, Values DEF Has
  <2>11. Session'
    <3>1. ~link.secured /\ conn.dev # None
      BY <1>1, <1>6 DEF Inv, Session
    <3>2. "update" \in state /\ "bonded" \in state
      BY <1>6, <2>3 DEF Has
    <3> QED BY <1>1, <1>3, <2>7, <2>8, <2>10, <3>1, <3>2, PairingBegins DEF Has
  <2>12. peers.owed[conn.peer] = None
    <3>1. link.reply = bond
      BY <1>1, <1>6 DEF Inv, Keys
    <3>2. peers.owed[conn.peer] # None
              => /\ peers.held[conn.peer] = peers.owed[conn.peer]
                 /\ bond = peers.owed[conn.peer]
      BY <1>3, <1>6 DEF Inv, Keys
    <3> QED BY <1>1, <3>1, <3>2
  <2>13. \A p \in Peer : p = conn.peer => peers.owed[p] = None
    BY <2>12
  <2>14. link'.proc # "distributed" /\ link'.proc # "encrypting"
    BY <2>8
  <2> QED BY <1>1, <1>3, <2>7, <2>8, <2>10, <2>11, <2>13, <2>14, LinkFrame
<1>7. CASE ~Has("bonded")
  <2>1. conn' = [conn EXCEPT !.state = @ \cup {"encrypted"}] /\ link' = ended /\ app' = app
    BY <1>4, <1>7 DEF SecUpdateOpen
  <2>2. /\ conn' \in Conn /\ conn'.state = conn.state \cup {"encrypted"}
        /\ conn'.peer = conn.peer /\ conn'.dev = conn.dev /\ conn' # Idle
        /\ "connected" \in conn'.state
    <3>1. {"encrypted"} \in State
      BY DEF State, Bits
    <3> QED BY <1>3, <2>1, <3>1, BitSet
  <2>3. Session'
    BY <1>1, <1>2, <1>3, <1>5, <2>1, <2>2, Constants DEF Inv, Session, Has, BusyPairs, Pairing
  <2>4. link'.proc # "distributed" /\ link'.proc # "encrypting"
    BY <1>2, <1>5, <2>1, Constants
  <2> QED BY <1>1, <1>3, <1>5, <2>1, <2>2, <2>3, <2>4, LinkFrame DEF Has
<1> QED BY <1>6, <1>7

(* A pairing on the connection ends with no other one to start. *)
LEMMA PairingEnds ==
  ASSUME NEW c, "pending" \notin c.state, NEW a, NEW l, Started(c, a, l)
  PROVE  /\ conn' = c /\ link' = l
         /\ "busy" \in app' <=> "busy" \in a
BY DEF Started

LEMMA AuthUnbondedInv ==
  ASSUME Inv, AuthUnbonded
  PROVE  Inv'
<1>1. /\ link.proc \in Pairing /\ AuthEnds(conn)
      /\ UNCHANGED <<table, bond, queue, flash, peers>>
  BY DEF AuthUnbonded, Pairing
<1>2. conn # Idle /\ conn \in Conn /\ link \in Link /\ queue = <<>> /\ conn.peer \in Peer
  BY <1>1, OnLink, Constants
<1>3. PICK c : c = [conn EXCEPT !.state = @ \ {"pairing"}]
  OBVIOUS
<1>4. PICK l : l = [link EXCEPT !.proc = None]
  OBVIOUS
<1>5. /\ c \in Conn /\ c.state = conn.state \ {"pairing"}
      /\ c.peer = conn.peer /\ c.dev = conn.dev
  BY <1>2, <1>3 DEF Conn, State
<1>6. l \in Link /\ l.proc = None /\ l.secured = link.secured
  BY <1>2, <1>4 DEF Link
<1>7. "pending" \notin c.state /\ "connected" \in conn.state
  BY <1>2, <1>5 DEF Inv, Session, Has
<1>8. /\ conn' = c /\ link' = l /\ "busy" \notin app'
  <2>1. Started(c, app \ {"busy"}, l)
    BY <1>1, <1>3, <1>4 DEF AuthEnds
  <2> QED BY <1>7, <2>1, PairingEnds
<1>9. conn' # Idle
  BY <1>5, <1>7, <1>8, Values
<1>10. "distributed" \in Procedure /\ "encrypting" \in Procedure
       /\ {"authenticating", "params", "stk", "encrypting", "distributed"} \subseteq Procedure
  BY DEF Procedure
<1>11. Session'
  BY <1>1, <1>2, <1>5, <1>6, <1>7, <1>8, <1>9, <1>10, Constants
     DEF Inv, Session, Has, BusyPairs, Pairing
<1>12. link'.proc # "distributed" /\ link'.proc # "encrypting"
  BY <1>6, <1>8, <1>10, Constants
<1> QED BY <1>1, <1>2, <1>5, <1>6, <1>8, <1>11, <1>12, LinkFrame DEF Has

(* Without a link that bonds and without anything queued, every entry is   *)
(* the one in flash.                                                       *)
LEMMA Settled ==
  ASSUME Stored, queue = <<>>, NEW s \in Slot, ~Fresh(s)
  PROVE  Agree(table[s], flash[s])
BY DEF Stored, Waits

LEMMA SecRequestInv ==
  ASSUME Inv, Orderly, SecRequest
  PROVE  Inv'
<1>1. /\ Has("connected") /\ link.proc = None /\ ~link.secured /\ queue = <<>>
  BY DEF SecRequest, Calm, Orderly
<1>2. conn # Idle /\ conn.peer \in Peer /\ conn \in Conn /\ link \in Link
  BY <1>1, Values DEF Has, Inv, Session, Types
<1>3. {"authenticating", "params", "stk", "encrypting", "distributed"} \subseteq Procedure
  BY DEF Procedure
<1>4. ~Has("pairing") /\ "busy" \notin app /\ ~Has("pending")
  BY <1>1, Constants DEF Inv, Session, BusyPairs
<1>5. CASE handle # None \/ conn.dev # None
  <2>1. /\ link' = [link EXCEPT !.proc = "encrypting", !.reply = bond]
        /\ UNCHANGED <<conn, table, bond, queue, flash, peers, app>>
    BY <1>5 DEF SecRequest
  <2>2. link' \in Link /\ link'.proc = "encrypting" /\ ~link'.secured /\ link'.reply = bond
    BY <1>1, <1>2, <1>3, <2>1 DEF Inv, Types, Link
  <2>3. Session'
    BY <1>1, <1>2, <1>4, <2>1, <2>2, <1>3, Constants DEF Inv, Session, Has, BusyPairs, Pairing
  <2>4. link'.proc # "distributed"
    BY <2>2
  <2> QED BY <1>2, <2>1, <2>2, <2>3, <2>4, LinkFrame DEF Has
<1>6. CASE ~(handle # None \/ conn.dev # None) /\ FreeSlots = {}
  <2>1. Restart(flash)
    BY <1>6 DEF SecRequest
  <2>2. flash \in [Slot -> Block] /\ (\A s \in Slot : Written(flash[s])) /\ Unique(Loaded(flash))
    BY DEF Inv, Types, Stored, Named
  <2> QED BY <2>1, <2>2, CrashInv
<1>7. CASE ~(handle # None \/ conn.dev # None) /\ FreeSlots # {}
  <2>1. PICK s : s = Least(FreeSlots)
    OBVIOUS
  <2>2. PICK c : c = [conn EXCEPT !.dev = s]
    OBVIOUS
  <2>3. /\ table' = [table EXCEPT ![s] = Allocated(conn.peer)]
        /\ conn' = Initiated(c) /\ app' = app \cup {"busy"}
        /\ link' = [link EXCEPT !.proc = "authenticating"]
        /\ UNCHANGED <<bond, queue, flash, peers>>
    BY <1>4, <1>7, <2>1, <2>2 DEF SecRequest
  <2>4. s \in Slot /\ table[s].ids = {} /\ conn.dev = None
    <3>1. FreeSlots \in SUBSET Slot
      BY DEF FreeSlots
    <3>2. s \in FreeSlots
      BY <1>7, <2>1, <3>1, LeastOf
    <3> QED BY <1>7, <3>2 DEF FreeSlots
  <2>5. PICK state \in State : state = (conn.state \ {"pending"}) \cup {"pairing"}
    BY <1>2 DEF Conn, State, Bits
  <2>6. /\ conn' \in Conn /\ conn'.state = state /\ conn'.peer = conn.peer /\ conn'.dev = s
    <3>1. conn' = [conn EXCEPT !.dev = s, !.state = state]
      BY <1>2, <2>2, <2>3, <2>5 DEF Initiated, Conn
    <3> QED BY <1>2, <2>4, <2>5, <3>1 DEF Conn
  <2>7. ~Has("bonded") /\ ~Has("update")
    BY <2>4 DEF Inv, Session
  <2>8. /\ "connected" \in state /\ "pairing" \in state /\ "pending" \notin state
        /\ "bonded" \notin state /\ "update" \notin state
    BY <1>1, <2>5, <2>7 DEF Has
  <2>9. link' \in Link /\ link'.proc = "authenticating" /\ ~link'.secured
    BY <1>1, <1>2, <1>3, <2>3 DEF Link
  <2>10. Session'
    BY <1>1, <1>2, <2>3, <2>4, <2>6, <2>8, <2>9, Constants, PairingBegins
  <2>11. conn' # Idle /\ ~Has("bonded")' /\ link'.proc # "distributed" /\ link'.proc # "encrypting"
    BY <2>6, <2>8, <2>9, Values DEF Has
  <2>12. /\ Allocated(conn.peer) \in Entry /\ Allocated(conn.peer).ids # {}
         /\ Allocated(conn.peer).addr = IF conn.peer \in Resolvable THEN None ELSE conn.peer
    BY <1>2, Allocates
  <2>13. /\ table' \in [Slot -> Entry] /\ table'[s] = Allocated(conn.peer)
         /\ \A r \in Slot : r # s => table'[r] = table[r]
    BY <2>3, <2>4, <2>12 DEF Inv, Types
  <2>14. Types'
    BY <2>3, <2>6, <2>9, <2>13 DEF Inv, Types
  <2>15. \A r \in Slot : Agree(table[r], flash[r])
    <3>1. \A r \in Slot : ~Fresh(r)
      BY <2>4, Constants DEF Fresh
    <3> QED BY <1>1, <3>1, Settled DEF Inv
  <2>16. flash[s] = EmptyBlock
    BY <2>4, <2>15 DEF Agree
  <2>17. Stored'
    <3>1. \A r \in Slot : Fresh(r)' \/ Agree(table'[r], flash'[r])
      BY <2>3, <2>6, <2>11, <2>13, <2>15 DEF Fresh, Has
    <3>2. \A r \in Slot : Written(flash'[r])
      BY <2>3 DEF Inv, Stored
    <3>3. queue' = <<>> /\ flash'[s] = EmptyBlock /\ table'[s].ids # {} /\ conn'.dev = s
      BY <1>1, <2>3, <2>6, <2>12, <2>13, <2>16
    <3> QED BY <3>1, <3>2, <3>3 DEF Stored
  <2>18. \A r \in Slot : conn.peer \notin Resolvable => table[r].addr # conn.peer
    <3>1. FoundByAddress(conn.peer) = {}
      BY <1>2, <2>4 DEF Inv, Named
    <3> QED BY <3>1 DEF FoundByAddress
  <2>19. Unique(table')
    <3>1. Unique(table)
      BY DEF Inv, Named
    <3> QED BY <2>12, <2>13, <2>18, <3>1, Constants DEF Unique
  <2>20. Named'
    <3>1. Unique(Loaded(flash))'
      BY <2>3 DEF Inv, Named, Unique, Loaded
    <3>2. /\ table'[conn'.dev].addr \in {conn'.peer, None}
          /\ conn'.peer \notin Resolvable => table'[conn'.dev].addr = conn'.peer
      BY <2>6, <2>12, <2>13
    <3>3. conn'.dev # None
      BY <2>4, <2>6, Constants
    <3>4. Unique(table)'
      BY <2>19 DEF Unique
    <3> QED BY <2>11, <3>1, <3>2, <3>3, <3>4 DEF Named
  <2>21. Keys'
    <3>1. ASSUME NEW p \in Peer, peers.owed[p] # None  PROVE Keeps(p)'
      <4>1. PICK r \in Slot : table[r].addr = p /\ table[r].ids # {} /\ Will(r) = peers.owed[p]
        BY <3>1 DEF Inv, Keys, Keeps
      <4>2. r # s /\ table'[r] = table[r] /\ Will(r)' = Will(r)
        BY <2>3, <2>4, <2>13, <4>1 DEF Will
      <4> QED BY <2>3, <4>1, <4>2 DEF Keeps
    <3>2. \A p \in Peer : peers.owed[p] # None => peers.held[p] = peers.owed[p]
      BY DEF Inv, Keys
    <3> QED BY <2>3, <2>11, <3>1, <3>2 DEF Keys
  <2> QED BY <2>10, <2>14, <2>17, <2>20, <2>21 DEF Inv
<1> QED BY <1>5, <1>6, <1>7

-----------------------------------------------------------------------------
\* Links that come and go.

(* With nothing queued a slot will have the key it has. *)
LEMMA WillRest ==
  ASSUME queue = <<>>, NEW s \in Slot
  PROVE  Will(s) = flash[s].bond
BY DEF Will

LEMMA ConnectedInv ==
  ASSUME Inv, Orderly, NEW p \in Peer, Connected(p)
  PROVE  Inv'
<1>1. /\ conn = Idle /\ conn' = Attached(p) /\ link' = Down /\ queue = <<>>
      /\ bond' = IF FoundByAddress(p) = {} THEN bond ELSE flash[conn'.dev].bond
      /\ UNCHANGED <<table, queue, flash, peers, app>>
  BY DEF Connected, Calm, Orderly, Host
<1>2. /\ conn'.peer = p /\ "connected" \in conn'.state
      /\ conn'.state \in SUBSET {"connected", "bonded"}
      /\ "bonded" \in conn'.state <=> FoundByAddress(p) # {}
      /\ FoundByAddress(p) = {} => conn'.dev = None
      /\ FoundByAddress(p) # {} => conn'.dev \in FoundByAddress(p)
      /\ conn' \in Conn
  <2>1. FoundByAddress(p) \in SUBSET Slot
    BY DEF FoundByAddress
  <2>2. FoundByAddress(p) # {} => Least(FoundByAddress(p)) \in FoundByAddress(p)
    BY <2>1, LeastOf
  <2>3. {"connected"} \in State /\ {"connected", "bonded"} \in State
    BY DEF State, Bits
  <2>4. CASE FoundByAddress(p) = {}
    <3>1. conn' = [state |-> {"connected"}, peer |-> p, dev |-> None]
      BY <1>1, <2>4 DEF Attached
    <3> QED BY <2>3, <2>4, <3>1 DEF Conn
  <2>5. CASE FoundByAddress(p) # {}
    <3>1. PICK d \in FoundByAddress(p) : d = Least(FoundByAddress(p))
      BY <2>2, <2>5
    <3>2. conn' = [state |-> {"connected", "bonded"}, peer |-> p, dev |-> d]
      BY <1>1, <2>5, <3>1 DEF Attached
    <3> QED BY <2>1, <2>3, <2>5, <3>1, <3>2 DEF Conn
  <2> QED BY <2>4, <2>5
<1>3. conn' # Idle /\ ~Has("update")' /\ ~Has("pairing")' /\ ~Has("pending")'
  BY <1>2, Values DEF Has
<1>4. FoundByAddress(p) # {} =>
         /\ conn'.dev \in Slot /\ p \notin Resolvable /\ table[conn'.dev].addr = p
         /\ bond' = flash[conn'.dev].bond
  BY <1>1, <1>2 DEF FoundByAddress
<1>5. link'.proc = None /\ ~link'.secured /\ "distributed" # None /\ "encrypting" # None
      /\ None \notin Pairing /\ None \notin {"stk", "distributed", "encrypting", "authenticating", "params"}
  <2>1. {"stk", "distributed", "encrypting", "authenticating", "params"} \subseteq Procedure
    BY DEF Procedure
  <2> QED BY <1>1, <2>1, Values, Constants
<1>6. Types'
  <2>1. bond' \in Secret
    BY <1>1, <1>4 DEF Inv, Types, Block
  <2> QED BY <1>1, <1>2, <2>1, Values DEF Inv, Types
<1>7. Session'
  <2>1. "busy" \notin app
    BY <1>1, Values DEF Inv, Session, BusyPairs, Has
  <2>2. "bonded" \in conn'.state => conn'.dev # None
    BY <1>2, <1>4, Constants
  <2> QED BY <1>1, <1>2, <1>3, <1>5, <2>1, <2>2 DEF Session, Has, BusyPairs
<1>8. Stored'
  <2>1. \A s \in Slot : Agree(table[s], flash[s]) /\ Written(flash[s])
    <3>1. \A s \in Slot : ~Fresh(s)
      BY <1>1, Values, Constants DEF Fresh
    <3> QED BY <1>1, <3>1, Settled DEF Inv, Stored
  <2>2. conn'.dev # None => Has("bonded")'
    BY <1>2 DEF Has
  <2> QED BY <1>1, <2>1, <2>2 DEF Stored
<1>9. Named'
  <2>1. Unique(table)' /\ Unique(Loaded(flash))'
    BY <1>1 DEF Inv, Named, Unique, Loaded
  <2>2. FoundByAddress(conn.peer)' = FoundByAddress(p)
    BY <1>1, <1>2 DEF FoundByAddress
  <2>3. conn'.dev # None => table'[conn'.dev].addr = conn'.peer
    BY <1>1, <1>2, <1>4
  <2>4. conn'.dev = None => FoundByAddress(p) = {}
    BY <1>2, <1>4, Constants
  <2> QED BY <2>1, <2>2, <2>3, <2>4 DEF Named
<1>10. Keys'
  <2>1. ASSUME NEW q \in Peer, peers.owed[q] # None
        PROVE  /\ peers.held[q] = peers.owed[q] /\ Keeps(q)'
               /\ conn'.peer = q /\ Has("bonded")' => bond' = peers.owed[q]
    <3>1. PICK s \in Slot : table[s].addr = q /\ table[s].ids # {} /\ Will(s) = peers.owed[q]
      BY <2>1 DEF Inv, Keys, Keeps
    <3>2. Will(s) = flash[s].bond /\ Will(s)' = flash[s].bond
      BY <1>1 DEF Will
    <3>3. Keeps(q)'
      BY <1>1, <3>1, <3>2 DEF Keeps
    <3>4. ASSUME conn'.peer = q, Has("bonded")'  PROVE bond' = peers.owed[q]
      <4>1. q = p /\ FoundByAddress(p) # {}
        BY <1>2, <3>4 DEF Has
      <4>2. Unique(table)
        BY DEF Inv, Named
      <4>3. s = conn'.dev
        BY <1>4, <3>1, <4>1, <4>2 DEF Unique
      <4> QED BY <1>4, <3>1, <3>2, <4>1, <4>3
    <3> QED BY <2>1, <3>3, <3>4 DEF Inv, Keys
  <2> QED BY <1>1, <1>3, <1>5, <2>1 DEF Keys
<1> QED BY <1>6, <1>7, <1>8, <1>9, <1>10 DEF Inv

LEMMA PeerForgetsInv ==
  ASSUME Inv, NEW p \in Peer, PeerForgets(p)
  PROVE  Inv'
<1>1. /\ conn.peer # p /\ peers' = [peers EXCEPT !.held[p] = None, !.owed[p] = None]
      /\ UNCHANGED <<conn, table, bond, queue, flash, link, app>>
  BY DEF PeerForgets, Forgotten, Host
<1>2. /\ peers' \in [held : Held, owed : Held, keys : 0 .. MaxKeys]
      /\ peers'.owed[p] = None
      /\ \A q \in Peer : q # p => peers'.held[q] = peers.held[q] /\ peers'.owed[q] = peers.owed[q]
  BY <1>1 DEF Inv, Types, Held
<1>3. Types'
  BY <1>1, <1>2 DEF Inv, Types
<1>4. Session'
  BY <1>1 DEF Inv, Session, Has, BusyPairs
<1>5. Stored'
  BY <1>1, SameStored DEF Inv, Has
<1>6. Named'
  BY <1>1, SameNamed DEF Inv, Has
<1>7. Keys'
  <2>1. \A q \in Peer : q # p /\ Keeps(q) => Keeps(q)'
    BY <1>1, <1>2 DEF Keeps, Will
  <2>2. link.proc = "distributed" => conn.peer \in Peer
    <3>1. "distributed" # None
      BY Constants DEF Procedure
    <3> QED BY <3>1, OnLink
  <2> QED BY <1>1, <1>2, <2>1, <2>2 DEF Inv, Keys, Has
<1> QED BY <1>3, <1>4, <1>5, <1>6, <1>7 DEF Inv

(* What is queued for a bond, and what a queue of two parts waits for. *)
LEMMA BothParts ==
  ASSUME NEW s \in Slot, NEW f \in {"store", "update"}, NEW q, q = Both(f, s)
  PROVE  /\ q \in Operations /\ Len(q) = 2 /\ q # <<>>
         /\ \A i \in 1 .. Len(q) : q[i].slot = s /\ q[i].op = f
         /\ \E i \in 1 .. Len(q) : q[i].slot = s /\ q[i].op # "clear"
<1>1. PICK o : o = Op(f, s, "peer")
  OBVIOUS
<1>2. PICK r : r = Op(f, s, "bond")
  OBVIOUS
<1>8. o \in Operation /\ o.slot = s /\ o.op = f
  BY <1>1 DEF Op, Operation
<1>9. r \in Operation /\ r.slot = s /\ r.op = f
  BY <1>2 DEF Op, Operation
<1>3. q = <<o, r>>
  BY <1>1, <1>2 DEF Both
<1>4. q \in Seq(Operation) /\ Len(q) = 2 /\ q[1] = o /\ q[2] = r
  BY <1>3, <1>8, <1>9
<1>5. f # "clear"
  OBVIOUS
<1>6. \A i \in 1 .. 2 : q[i].slot = s /\ q[i].op = f
  BY <1>4, <1>8, <1>9
<1>7. \E i \in 1 .. 2 : q[i].slot = s /\ q[i].op # "clear"
  <2>1. 1 \in 1 .. 2
    OBVIOUS
  <2> QED BY <1>5, <1>6, <2>1
<1>10. q # <<>>
  BY <1>3
<1> QED BY <1>4, <1>6, <1>7, <1>10 DEF Operations

(* A bond that is to be renewed is queued, an entry that did not bond is   *)
(* given back.                                                             *)
LEMMA DisconnectedInv ==
  ASSUME Inv, Orderly, Disconnected
  PROVE  Inv'
<1>1. /\ Has("connected") /\ queue = <<>>
      /\ UNCHANGED <<bond, flash, peers>>
  BY DEF Disconnected, Calm, Orderly
<1>2. conn # Idle /\ conn.peer \in Peer /\ conn \in Conn
  BY <1>1, Values DEF Has, Inv, Session, Types
<1>3. conn' = Idle /\ link' = Down /\ "busy" \notin app'
  <2>1. CASE Has("pairing")
    <3>1. Started(Idle, app \ {"busy"}, Down)
      BY <2>1 DEF Disconnected
    <3>2. "pending" \notin Idle.state
      BY Values
    <3> QED BY <3>1, <3>2, PairingEnds
  <2>2. CASE ~Has("pairing")
    BY <2>2 DEF Disconnected, Inv, Session, BusyPairs
  <2> QED BY <2>1, <2>2
<1>4. /\ link'.proc = None /\ None \notin Pairing
      /\ None \notin {"stk", "distributed", "encrypting", "authenticating", "params"}
      /\ conn'.state = {} /\ conn'.dev = None
  <2>1. {"stk", "distributed", "encrypting", "authenticating", "params"} \subseteq Procedure
    BY DEF Procedure
  <2> QED BY <1>3, <2>1, Values, Constants
<1>5. link'.proc # "distributed" /\ link'.proc # "encrypting" /\ ~Has("bonded")' /\ conn'.dev = None
  BY <1>4 DEF Has
<1>10. Session'
  BY <1>3, <1>4 DEF Session, Has, BusyPairs
<1>6. \A s \in Slot : s # conn.dev \/ Has("bonded") => Agree(table[s], flash[s])
  BY <1>1, Settled DEF Inv, Fresh
<1>7. \A s \in Slot : Written(flash[s])
  BY DEF Inv, Stored
<1>8. CASE Has("bonded")
  <2>1. PICK s \in Slot : s = conn.dev
    BY <1>2, <1>8 DEF Inv, Session, Conn
  <2>2. table' = table
    BY <1>8 DEF Disconnected
  <2>3. \/ queue' = <<>>
        \/ queue' = Both("update", s) /\ Has("update")
    <3>1. queue' = IF Has("encrypted") THEN Queued(ContextOps(s, FALSE)) ELSE queue
      BY <1>8, <2>1 DEF Disconnected
    <3>2. ContextOps(s, FALSE) = IF Has("update")
            THEN <<Op("update", s, "peer"), Op("update", s, "bond")>> ELSE <<>>
      BY DEF ContextOps, StoreFn
    <3>3. QueueSize >= 2
      BY DEF Orderly
    <3>4. Queued(<<>>) = <<>>
          /\ Queued(<<Op("update", s, "peer"), Op("update", s, "bond")>>) = Both("update", s)
      BY <1>1, <3>3, Room
    <3> QED BY <1>1, <3>1, <3>2, <3>4
  <2>4. table[s].addr = conn.peer /\ table[s].ids # {}
    <3>1. table[s].addr = conn.peer
      BY <1>8, <2>1, Constants DEF Inv, Named
    <3> QED BY <1>2, <1>6, <1>8, <3>1, Values, Constants DEF Agree
  <2>5. Types'
    <3>1. PICK q : q = Both("update", s)
      OBVIOUS
    <3>2. q \in Operations
      BY <3>1, BothParts
    <3>3. <<>> \in Operations
      BY DEF Operations
    <3>4. queue' \in Operations
      BY <2>3, <3>1, <3>2, <3>3
    <3> QED BY <1>1, <1>3, <2>2, <3>4, Values DEF Inv, Types
  <2>6. Stored'
    <3>1. \A r \in Slot : Agree(table'[r], flash'[r]) /\ Written(flash'[r])
      BY <1>1, <1>6, <1>7, <1>8, <2>2
    <3>2. queue' = <<>> \/ Storing(s, "update")'
      BY <1>5, <2>2, <2>3, <2>4 DEF Storing
    <3> QED BY <1>5, <3>1, <3>2 DEF Stored
  <2>7. Named'
    BY <1>1, <1>3, <1>5, <2>2 DEF Inv, Named, Unique, Loaded
  <2>8. Keys'
    <3>1. ASSUME NEW p \in Peer, peers.owed[p] # None  PROVE Keeps(p)'
      <4>1. PICK r \in Slot : table[r].addr = p /\ table[r].ids # {} /\ Will(r) = peers.owed[p]
        BY <3>1 DEF Inv, Keys, Keeps
      <4>2. CASE queue' = <<>>
        BY <1>1, <2>2, <4>1, <4>2 DEF Keeps, Will
      <4>3. CASE queue' = Both("update", s) /\ Has("update")
        <5>1. p # conn.peer
          BY <1>8, <3>1, <4>3 DEF Inv, Keys
        <5>2. r # s
          BY <2>4, <4>1, <5>1
        <5>3. \A i \in 1 .. Len(queue') : queue'[i].slot = s
          BY <4>3, BothParts
        <5>4. Will(r)' = flash[r].bond /\ Will(r) = flash[r].bond
          BY <1>1, <5>2, <5>3 DEF Will
        <5> QED BY <1>1, <2>2, <4>1, <5>4 DEF Keeps
      <4> QED BY <2>3, <4>2, <4>3
    <3> QED BY <1>1, <1>5, <3>1 DEF Inv, Keys
  <2> QED BY <1>10, <2>5, <2>6, <2>7, <2>8 DEF Inv
<1>9. CASE ~Has("bonded")
  <2>1. queue' = <<>>
    BY <1>1, <1>9 DEF Disconnected
  <2>2. table' = IF conn.dev = None THEN table ELSE [table EXCEPT ![conn.dev] = Unassigned]
    BY <1>9 DEF Disconnected
  <2>3. /\ table' \in [Slot -> Entry]
        /\ \A s \in Slot : table'[s] = IF s = conn.dev THEN Unassigned ELSE table[s]
    BY <1>2, <2>2, Values, Constants DEF Inv, Types, Conn
  <2>4. Types'
    BY <1>1, <1>3, <2>1, <2>3, Values DEF Inv, Types, Operations
  <2>5. \A s \in Slot : s = conn.dev => flash[s] = EmptyBlock
    BY <1>9, Constants DEF Inv, Stored
  <2>6. Stored'
    <3>1. \A s \in Slot : Agree(table'[s], flash'[s]) /\ Written(flash'[s])
      BY <1>1, <1>6, <1>7, <2>3, <2>5 DEF Agree
    <3> QED BY <1>5, <2>1, <3>1 DEF Stored
  <2>7. Named'
    <3>1. Unique(table)'
      BY <2>3, Values, Constants DEF Inv, Named, Unique
    <3>2. Unique(Loaded(flash))'
      BY <1>1 DEF Inv, Named, Unique, Loaded
    <3> QED BY <1>3, <1>5, <3>1, <3>2 DEF Named
  <2>8. Keys'
    <3>1. ASSUME NEW p \in Peer, peers.owed[p] # None  PROVE Keeps(p)'
      <4>1. PICK r \in Slot : table[r].addr = p /\ table[r].ids # {} /\ Will(r) = peers.owed[p]
        BY <3>1 DEF Inv, Keys, Keeps
      <4>2. flash[r].bond = peers.owed[p] /\ peers.owed[p] \in Key
        BY <1>1, <3>1, <4>1, WillRest DEF Inv, Types, Held
      <4>3. r # conn.dev
        BY <2>5, <4>2, Values, Constants
      <4>4. Will(r)' = flash[r].bond /\ table'[r] = table[r]
        BY <1>1, <2>1, <2>3, <4>3 DEF Will
      <4> QED BY <1>1, <4>1, <4>2, <4>4 DEF Keeps
    <3> QED BY <1>1, <1>5, <3>1 DEF Inv, Keys
  <2> QED BY <1>10, <2>4, <2>6, <2>7, <2>8 DEF Inv
<1> QED BY <1>8, <1>9

-----------------------------------------------------------------------------
\* The end of a pairing.

LEMMA KeysDistributedInv ==
  ASSUME Inv, KeysDistributed
  PROVE  Inv'
<1>1. /\ link.proc = "stk" /\ peers.keys < MaxKeys
      /\ bond' = <<conn.peer, peers.keys + 1>>
      /\ peers' = [peers EXCEPT !.keys = @ + 1, !.held[conn.peer] = <<conn.peer, peers.keys + 1>>,
                                !.owed[conn.peer] = None]
      /\ table' = [table EXCEPT ![conn.dev].addr = conn.peer]
      /\ link' = [link EXCEPT !.proc = "distributed"]
      /\ UNCHANGED <<conn, queue, flash, app>>
  BY DEF KeysDistributed, Host
<1>2. {"authenticating", "params", "stk", "encrypting", "distributed"} \subseteq Procedure
      /\ "stk" \in Pairing
  BY DEF Procedure, Pairing
<1>3. conn # Idle /\ conn \in Conn /\ link \in Link /\ queue = <<>> /\ conn.peer \in Peer
  BY <1>1, <1>2, OnLink, Constants
<1>4. conn.dev # None /\ (Has("bonded") => Has("update")) /\ Has("pairing")
  BY <1>1, <1>2 DEF Inv, Session
<1>5. PICK s \in Slot : s = conn.dev
  BY <1>3, <1>4 DEF Conn
<1>6. PICK key \in Key : key = <<conn.peer, peers.keys + 1>>
  <2>1. peers.keys + 1 \in 1 .. MaxKeys
    BY <1>1, BondsAssumption DEF Inv, Types
  <2> QED BY <1>3, <2>1 DEF Key
<1>7. /\ peers' \in [held : Held, owed : Held, keys : 0 .. MaxKeys]
      /\ peers'.held[conn.peer] = key /\ peers'.owed[conn.peer] = None
      /\ \A p \in Peer : p # conn.peer =>
            peers'.held[p] = peers.held[p] /\ peers'.owed[p] = peers.owed[p]
  <2>1. peers.keys + 1 \in 0 .. MaxKeys
    BY <1>1, BondsAssumption DEF Inv, Types
  <2>2. peers \in [held : Held, owed : Held, keys : 0 .. MaxKeys]
    BY DEF Inv, Types
  <2>3. PICK n \in 0 .. MaxKeys : n = peers.keys + 1
    BY <2>1
  <2>4. peers' = [peers EXCEPT !.keys = n, !.held[conn.peer] = key, !.owed[conn.peer] = None]
    BY <1>1, <1>6, <2>3
  <2>5. peers' = [held |-> [peers.held EXCEPT ![conn.peer] = key],
                  owed |-> [peers.owed EXCEPT ![conn.peer] = None], keys |-> n]
    BY <2>2, <2>4
  <2> QED BY <1>3, <2>2, <2>5 DEF Held
<1>8. /\ table' \in [Slot -> Entry]
      /\ table'[s].addr = conn.peer /\ table'[s].ids = table[s].ids
      /\ \A r \in Slot : r # s => table'[r] = table[r]
  <2>1. table \in [Slot -> Entry]
    BY DEF Inv, Types
  <2>2. PICK e : e = [table[s] EXCEPT !.addr = conn.peer]
    OBVIOUS
  <2>3. e \in Entry /\ e.addr = conn.peer /\ e.ids = table[s].ids
    BY <1>3, <2>1, <2>2 DEF Entry
  <2>4. table' = [table EXCEPT ![s] = e]
    BY <1>1, <1>5, <2>2
  <2> QED BY <2>1, <2>3, <2>4
<1>9. table[s].addr \in {conn.peer, None}
      /\ (conn.peer \notin Resolvable \/ Has("bonded") => table[s].addr = conn.peer)
  BY <1>4, <1>5 DEF Inv, Named
<1>10. table[s].addr = conn.peer => table' = table
  <2>1. table \in [Slot -> Entry]
    BY DEF Inv, Types
  <2>2. ASSUME table[s].addr = conn.peer  PROVE table'[s] = table[s]
    <3>1. table'[s] = [table[s] EXCEPT !.addr = conn.peer] /\ table[s] \in Entry
      BY <1>1, <1>5, <2>1
    <3> QED BY <2>2, <3>1 DEF Entry
  <2> QED BY <1>8, <2>1, <2>2
<1>11. link' \in Link /\ link'.proc = "distributed" /\ link'.secured = link.secured
  BY <1>1, <1>2, <1>3 DEF Link
<1>12. Types'
  BY <1>1, <1>6, <1>7, <1>8, <1>11 DEF Inv, Types, Secret
<1>13. Session'
  <2>1. link.secured /\ "distributed" \in Pairing
    BY <1>1 DEF Inv, Session, Pairing
  <2> QED BY <1>1, <1>2, <1>3, <1>4, <1>11, <2>1 DEF Inv, Session, Has, BusyPairs
<1>14. Stored'
  <2>1. ASSUME NEW r \in Slot  PROVE Fresh(r)' \/ Agree(table'[r], flash[r])
    <3>1. CASE Fresh(r)
      BY <1>1, <3>1 DEF Fresh, Has
    <3>2. CASE ~Fresh(r)
      <4>1. Agree(table[r], flash[r])
        BY <1>3, <3>2, Settled DEF Inv
      <4>2. table'[r] = table[r]
        BY <1>5, <1>8, <1>9, <1>10, <3>2 DEF Fresh
      <4> QED BY <4>1, <4>2
    <3> QED BY <3>1, <3>2
  <2>2. conn'.dev # None /\ ~Has("bonded")' => flash'[conn'.dev] = EmptyBlock /\ table'[conn'.dev].ids # {}
    BY <1>1, <1>5, <1>8 DEF Inv, Stored, Has
  <2>3. \A r \in Slot : Written(flash'[r])
    BY <1>1 DEF Inv, Stored
  <2> QED BY <1>1, <1>3, <2>1, <2>2, <2>3 DEF Stored
<1>15. Unique(table')
  <2>1. Unique(table)
    BY DEF Inv, Named
  <2>2. CASE conn.peer \notin Resolvable
    BY <1>9, <1>10, <2>1, <2>2
  <2>3. CASE conn.peer \in Resolvable
    BY <1>8, <2>1, <2>3 DEF Unique
  <2> QED BY <2>2, <2>3
<1>16. Named'
  <2>1. Unique(table)' /\ Unique(Loaded(flash))'
    BY <1>1, <1>15 DEF Inv, Named, Unique, Loaded
  <2>2. conn'.dev # None /\ table'[conn'.dev].addr = conn'.peer
    BY <1>1, <1>4, <1>5, <1>8
  <2> QED BY <2>1, <2>2 DEF Named
<1>17. Keys'
  <2>1. ASSUME NEW p \in Peer, peers'.owed[p] # None
        PROVE  p # conn.peer /\ peers'.held[p] = peers'.owed[p] /\ Keeps(p)'
    <3>1. p # conn.peer /\ peers'.held[p] = peers.held[p] /\ peers'.owed[p] = peers.owed[p]
      BY <1>7, <2>1
    <3>2. peers.held[p] = peers.owed[p] /\ Keeps(p)
      BY <2>1, <3>1 DEF Inv, Keys
    <3>3. PICK r \in Slot : table[r].addr = p /\ table[r].ids # {} /\ Will(r) = peers.owed[p]
      BY <3>2 DEF Keeps
    <3>4. r # s
      BY <1>9, <3>1, <3>3, Constants
    <3>5. Will(r)' = Will(r) /\ table'[r] = table[r]
      BY <1>1, <1>3, <1>8, <3>4 DEF Will
    <3> QED BY <3>1, <3>2, <3>3, <3>5 DEF Keeps
  <2>2. bond' = peers'.held[conn'.peer] /\ bond' \in Key
    BY <1>1, <1>6, <1>7
  <2>3. link'.proc # "encrypting"
    BY <1>11
  <2> QED BY <1>1, <2>1, <2>2, <2>3 DEF Keys
<1> QED BY <1>12, <1>13, <1>14, <1>16, <1>17 DEF Inv

LEMMA AuthBondedInv ==
  ASSUME Inv, Orderly, NEW idKey \in BOOLEAN, AuthBonded(idKey)
  PROVE  Inv'
<1>1. /\ link.proc = "distributed"
      /\ table' = [table EXCEPT ![conn.dev] = Bonded(@, conn.peer, @.ediv, idKey)]
      /\ queue' = Queued(ContextOps(conn.dev, TRUE))
      /\ AuthEnds([conn EXCEPT !.state = {"bonded"} \cup
                     (@ \ {IF HasRoom THEN "update" ELSE "pairing"})])
      /\ peers' = [peers EXCEPT !.owed[conn.peer] = bond]
      /\ UNCHANGED <<bond, flash>>
  BY DEF AuthBonded
<1>2. {"authenticating", "params", "stk", "encrypting", "distributed"} \subseteq Procedure
      /\ "distributed" \in Pairing
  BY DEF Procedure, Pairing
<1>3. conn # Idle /\ conn \in Conn /\ link \in Link /\ queue = <<>> /\ conn.peer \in Peer
  BY <1>1, <1>2, OnLink, Constants
<1>4. /\ conn.dev # None /\ (Has("bonded") => Has("update")) /\ (Has("update") => Has("bonded"))
      /\ Has("connected") /\ ~Has("pending")
  BY <1>1, <1>2, <1>3 DEF Inv, Session
<1>5. PICK s \in Slot : s = conn.dev
  BY <1>3, <1>4 DEF Conn
<1>6. table[s] \in Entry /\ table[s].addr = conn.peer
  BY <1>1, <1>4, <1>5 DEF Inv, Types, Named
<1>7. \A r \in Slot : r # s \/ Has("bonded") => Agree(table[r], flash[r])
  BY <1>3, <1>5, Settled DEF Inv, Fresh
<1>8. table[s].ids # {}
  <2>1. CASE Has("bonded")
    BY <1>3, <1>6, <1>7, <2>1, Values, Constants DEF Agree
  <2>2. CASE ~Has("bonded")
    BY <1>4, <1>5, <2>2 DEF Inv, Stored
  <2> QED BY <2>1, <2>2
<1>9. /\ table' \in [Slot -> Entry] /\ table'[s].addr = conn.peer /\ table'[s].ids # {}
      /\ \A r \in Slot : r # s => table'[r] = table[r]
  <2>1. table \in [Slot -> Entry]
    BY DEF Inv, Types
  <2>2. PICK e \in Entry : e = Bonded(table[s], conn.peer, table[s].ediv, idKey)
                           /\ e.ids # {} /\ e.addr = conn.peer
    <3>1. table[s].ediv \in Key \cup {None}
      BY <1>6 DEF Entry
    <3>2. PICK b : b = Bonded(table[s], conn.peer, table[s].ediv, idKey)
      OBVIOUS
    <3>3. b \in Entry /\ b.ids # {} /\ b.addr = conn.peer
      BY <1>3, <1>6, <1>8, <3>1, <3>2, BondedEntry
    <3> QED BY <3>2, <3>3
  <2>3. table' = [table EXCEPT ![s] = e]
    BY <1>1, <1>5, <2>1, <2>2
  <2> QED BY <2>1, <2>2, <2>3
<1>10. PICK f \in {"store", "update"} :
          queue' = Both(f, s) /\ (f = "store" => flash[s] = EmptyBlock)
  <2>1. ContextOps(s, TRUE) = IF Has("update")
          THEN <<Op("update", s, "peer"), Op("update", s, "bond")>>
          ELSE <<Op("store", s, "peer"), Op("store", s, "bond")>>
    BY DEF ContextOps, StoreFn
  <2>2. QueueSize >= 2
    BY DEF Orderly
  <2>3. \A f \in {"store", "update"} : Queued(<<Op(f, s, "peer"), Op(f, s, "bond")>>) = Both(f, s)
    BY <1>3, <2>2, Room
  <2>4. CASE Has("update")
    BY <1>1, <1>5, <2>1, <2>3, <2>4
  <2>5. CASE ~Has("update")
    <3>1. flash[s] = EmptyBlock
      BY <1>4, <1>5, <2>5 DEF Inv, Stored
    <3> QED BY <1>1, <1>5, <2>1, <2>3, <2>5, <3>1
  <2> QED BY <2>4, <2>5
<1>11. /\ queue' \in Operations /\ queue' # <<>>
       /\ \A i \in 1 .. Len(queue') : queue'[i].slot = s /\ queue'[i].op = f
       /\ \E i \in 1 .. Len(queue') : queue'[i].slot = s /\ queue'[i].op # "clear"
  <2>1. PICK q : q = Both(f, s)
    OBVIOUS
  <2>2. /\ q \in Operations /\ q # <<>>
        /\ \A i \in 1 .. Len(q) : q[i].slot = s /\ q[i].op = f
        /\ \E i \in 1 .. Len(q) : q[i].slot = s /\ q[i].op # "clear"
    BY <2>1, BothParts
  <2> QED BY <1>10, <2>1, <2>2
<1>12. PICK state \in State : state = ({"bonded"} \cup (conn.state \ {"update"})) \ {"pairing"}
  BY <1>3 DEF Conn, State, Bits
<1>13. /\ conn' \in Conn /\ conn'.state = state /\ conn'.peer = conn.peer /\ conn'.dev = s
       /\ link' \in Link /\ link'.proc = None /\ link'.secured = link.secured
       /\ "busy" \notin app'
  <2>1. HasRoom
    BY <1>3, Constants DEF HasRoom
  <2>2. PICK b : b = [conn EXCEPT !.state = {"bonded"} \cup (@ \ {"update"})]
    OBVIOUS
  <2>3. PICK c : c = [b EXCEPT !.state = @ \ {"pairing"}]
    OBVIOUS
  <2>4. c = [conn EXCEPT !.state = state]
    BY <1>3, <1>12, <2>2, <2>3 DEF Conn
  <2>5. c \in Conn /\ c.state = state /\ c.peer = conn.peer /\ c.dev = conn.dev
    BY <1>3, <2>4, ConnFields
  <2>6. PICK l : l = [link EXCEPT !.proc = None]
    OBVIOUS
  <2>7. l \in Link /\ l.proc = None /\ l.secured = link.secured
    BY <1>3, <2>6 DEF Link
  <2>8. Started(c, app \ {"busy"}, l)
    <3>1. AuthEnds(b)
      BY <1>1, <2>1, <2>2
    <3> QED BY <2>3, <2>6, <3>1 DEF AuthEnds
  <2>9. "pending" \notin c.state
    BY <1>4, <1>12, <2>5 DEF Has
  <2>10. conn' = c /\ link' = l /\ ("busy" \in app' <=> "busy" \in app \ {"busy"})
    BY <2>8, <2>9, PairingEnds
  <2> QED BY <1>5, <2>5, <2>7, <2>10
<1>14. /\ "connected" \in state /\ "bonded" \in state /\ "update" \notin state
       /\ "pairing" \notin state /\ "pending" \notin state
  BY <1>4, <1>12 DEF Has
<1>15. conn' # Idle
  BY <1>13, <1>14, Values
<1>16. None \notin Pairing /\ link'.proc # "distributed" /\ link'.proc # "encrypting"
       /\ None \notin {"stk", "distributed", "encrypting", "authenticating", "params"}
       /\ s # None
  BY <1>2, <1>13, Constants
<1>17. /\ peers' \in [held : Held, owed : Held, keys : 0 .. MaxKeys] /\ peers'.held = peers.held
       /\ peers'.owed[conn.peer] = bond /\ bond = peers.held[conn.peer]
       /\ \A p \in Peer : p # conn.peer => peers'.owed[p] = peers.owed[p]
  <2>1. bond = peers.held[conn.peer] /\ bond \in Key
    BY <1>1 DEF Inv, Keys
  <2> QED BY <1>1, <1>3, <2>1 DEF Inv, Types, Held
<1>18. Types'
  BY <1>1, <1>9, <1>11, <1>13, <1>17 DEF Inv, Types
<1>19. Session'
  BY <1>3, <1>13, <1>14, <1>15, <1>16 DEF Session, Has, BusyPairs
<1>20. Stored'
  <2>1. Storing(s, f)'
    BY <1>1, <1>9, <1>10, <1>13 DEF Storing
  <2>2. \A r \in Slot : Waits(r)' \/ Agree(table'[r], flash'[r])
    <3>1. Waits(s)'
      BY <1>11 DEF Waits
    <3> QED BY <1>1, <1>7, <1>9, <3>1
  <2>3. Has("bonded")' /\ \A r \in Slot : Written(flash'[r])
    BY <1>1, <1>13, <1>14 DEF Inv, Stored, Has
  <2> QED BY <2>1, <2>2, <2>3 DEF Stored
<1>21. Named'
  <2>1. Unique(table)' /\ Unique(Loaded(flash))'
    BY <1>1, <1>6, <1>9 DEF Inv, Named, Unique, Loaded
  <2> QED BY <1>9, <1>13, <1>16, <2>1 DEF Named
<1>22. Keys'
  <2>1. ASSUME NEW p \in Peer, peers'.owed[p] # None
        PROVE  /\ peers'.held[p] = peers'.owed[p] /\ Keeps(p)'
               /\ conn'.peer = p => bond' = peers'.owed[p]
    <3>1. CASE p = conn.peer
      <4>1. Will(s)' = bond
        BY <1>1, <1>11 DEF Will
      <4>2. Keeps(p)'
        BY <1>9, <1>17, <3>1, <4>1 DEF Keeps
      <4> QED BY <1>1, <1>17, <3>1, <4>2
    <3>2. CASE p # conn.peer
      <4>1. peers'.owed[p] = peers.owed[p] /\ peers.held[p] = peers.owed[p] /\ Keeps(p)
        BY <1>17, <2>1, <3>2 DEF Inv, Keys
      <4>2. PICK r \in Slot : table[r].addr = p /\ table[r].ids # {} /\ Will(r) = peers.owed[p]
        BY <4>1 DEF Keeps
      <4>3. r # s
        BY <1>6, <3>2, <4>2
      <4>4. Will(r)' = flash[r].bond /\ Will(r) = flash[r].bond
        <5>1. \A i \in 1 .. Len(queue') : queue'[i].slot = s
          BY <1>11
        <5>2. Will(r)' = flash'[r].bond
          BY <4>3, <5>1 DEF Will
        <5> QED BY <1>1, <1>3, <5>2, WillRest
      <4>5. Keeps(p)'
        BY <1>9, <4>1, <4>2, <4>3, <4>4 DEF Keeps
      <4> QED BY <1>13, <1>17, <3>2, <4>1, <4>5
    <3> QED BY <3>1, <3>2
  <2>2. ~Has("update")'
    BY <1>13, <1>14 DEF Has
  <2> QED BY <1>16, <2>1, <2>2 DEF Keys
<1> QED BY <1>18, <1>19, <1>20, <1>21, <1>22 DEF Inv

-----------------------------------------------------------------------------
\* Deleted bonds.

LEMMA DeletedInv ==
  ASSUME Inv, Orderly, NEW S \in SUBSET Slot, Deleted(S), app' = app
  PROVE  Inv'
<1>1. /\ conn = Idle /\ queue = <<>>
      /\ table' = TableFreed(S) /\ queue' = QueueFreed(S)
      /\ peers' = [peers EXCEPT !.owed = [p \in Peer |->
                      IF \E s \in S : table[s].addr = p THEN None ELSE @[p]]]
      /\ UNCHANGED <<conn, bond, flash, link>>
  BY DEF Deleted, Calm, Orderly
<1>2. /\ queue' \in Operations /\ Len(queue') <= QueueSize
      /\ \A i \in 1 .. Len(queue') : queue'[i].op = "clear" /\ queue'[i].slot \in S
      /\ \A s \in Slot : table'[s] = IF \E i \in 1 .. Len(queue') : queue'[i].slot = s
                                     THEN Unassigned ELSE table[s]
  <2>1. PICK q : q = QueueFreed(S)
    OBVIOUS
  <2>2. /\ q \in Operations /\ Len(q) <= QueueSize
        /\ \A i \in 1 .. Len(q) : q[i].op = "clear" /\ q[i].slot \in S
        /\ \A s \in Slot : TableFreed(S)[s] = IF \E i \in 1 .. Len(q) : q[i].slot = s
                                              THEN Unassigned ELSE table[s]
    BY <1>1, <2>1, Freed
  <2> QED BY <1>1, <2>1, <2>2
<1>3. table' \in [Slot -> Entry]
  <2>1. table' = [s \in Slot |-> table'[s]]
    BY <1>1 DEF TableFreed
  <2>2. \A s \in Slot : table'[s] \in Entry
    BY <1>2, Values DEF Inv, Types
  <2> QED BY <2>1, <2>2
<1>4. /\ peers' \in [held : Held, owed : Held, keys : 0 .. MaxKeys] /\ peers'.held = peers.held
      /\ \A p \in Peer : peers'.owed[p] # None =>
            peers'.owed[p] = peers.owed[p] /\ \A s \in S : table[s].addr # p
  BY <1>1 DEF Inv, Types, Held
<1>5. Types'
  BY <1>1, <1>2, <1>3, <1>4 DEF Inv, Types
<1>6. link.proc = None /\ conn.dev = None /\ conn.state = {}
  BY <1>1, Values DEF Inv, Session
<1>7. Session'
  BY <1>1, <1>6, app' = app DEF Inv, Session, Has, BusyPairs
<1>8. Stored'
  <2>1. Clearing'
    <3>1. \A i \in 1 .. Len(queue') : queue'[i].slot \in Slot
      BY <1>2
    <3>2. \A i \in 1 .. Len(queue') : table'[queue'[i].slot] = Unassigned
      BY <1>2, <3>1
    <3> QED BY <1>1, <1>2, <3>2 DEF Clearing
  <2>2. ASSUME NEW s \in Slot  PROVE Waits(s)' \/ Agree(table'[s], flash'[s])
    <3>1. Agree(table[s], flash[s])
      BY <1>1, <1>6, Constants, Settled DEF Inv, Fresh
    <3> QED BY <1>1, <1>2, <3>1 DEF Waits
  <2>3. \A s \in Slot : Written(flash'[s])
    BY <1>1 DEF Inv, Stored
  <2> QED BY <1>1, <1>6, <2>1, <2>2, <2>3 DEF Stored
<1>9. Named'
  <2>1. Unique(table)'
    BY <1>2, Values, Constants DEF Inv, Named, Unique
  <2>2. Unique(Loaded(flash))'
    BY <1>1 DEF Inv, Named, Unique, Loaded
  <2> QED BY <1>1, <1>6, <2>1, <2>2 DEF Named
<1>10. Keys'
  <2>1. ASSUME NEW p \in Peer, peers'.owed[p] # None
        PROVE  peers'.held[p] = peers'.owed[p] /\ Keeps(p)'
    <3>1. /\ peers'.owed[p] = peers.owed[p] /\ peers.held[p] = peers.owed[p] /\ Keeps(p)
          /\ \A s \in S : table[s].addr # p
      BY <1>4, <2>1 DEF Inv, Keys
    <3>2. PICK r \in Slot : table[r].addr = p /\ table[r].ids # {} /\ Will(r) = peers.owed[p]
      BY <3>1 DEF Keeps
    <3>3. r \notin S
      BY <3>1, <3>2
    <3>4. \A i \in 1 .. Len(queue') : queue'[i].slot # r
      BY <1>2, <3>3
    <3>5. table'[r] = table[r]
      BY <1>2, <3>4
    <3>6. Will(r)' = flash'[r].bond
      BY <3>4 DEF Will
    <3>7. Will(r)' = Will(r)
      BY <1>1, <3>6, WillRest
    <3> QED BY <1>4, <3>1, <3>2, <3>5, <3>7 DEF Keeps
  <2>2. link'.proc # "distributed" /\ link'.proc # "encrypting" /\ ~Has("bonded")'
    <3>1. None # "distributed" /\ None # "encrypting"
      BY Constants DEF Procedure
    <3> QED BY <1>1, <1>6, <3>1 DEF Has
  <2> QED BY <2>1, <2>2 DEF Keys
<1> QED BY <1>5, <1>7, <1>8, <1>9, <1>10 DEF Inv

-----------------------------------------------------------------------------
\* The flash.

(* What the operation at the head of the queue makes of the flash. *)
Erases(f) == Clearing /\ \E o \in Slot : /\ o = queue[1].slot
                                          /\ f = [flash EXCEPT ![o] = EmptyBlock]
Programs(f) ==
    \E s \in Slot, g \in {"store", "update"} :
       /\ Storing(s, g)
       /\ \/ queue = Both(g, s) /\ f = [flash EXCEPT ![s].peer = table[s]]
          \/ queue = Rest(g, s) /\ f = [flash EXCEPT ![s].bond = bond]
Proper(f) ==
    /\ f \in [Slot -> Block] /\ Unique(Loaded(f))
    /\ \A s \in Slot : Written(f[s]) /\ (Waits(s) \/ f[s] = flash[s])

LEMMA Carried ==
  ASSUME Inv, queue # <<>>, NEW f, f = CarriedOut(Head(queue), SourceOf(Head(queue)))
  PROVE  Proper(f) /\ (Erases(f) \/ Programs(f))
<1>1. flash \in [Slot -> Block] /\ table \in [Slot -> Entry] /\ bond \in Secret
      /\ queue \in Seq(Operation)
  BY DEF Inv, Types, Operations
<1>2. \A s \in Slot : Written(flash[s])
  BY DEF Inv, Stored
<1>3. Unique(table) /\ Unique(Loaded(flash))
  BY DEF Inv, Named
<1>4. CASE Clearing
  <2>1. PICK o \in Operation : o = Head(queue) /\ o = queue[1] /\ 1 \in 1 .. Len(queue)
    BY <1>1
  <2>2. o.op = "clear" /\ o.slot \in Slot
    BY <1>4, <2>1 DEF Clearing, Operation
  <2>3. f = [flash EXCEPT ![o.slot] = EmptyBlock]
    BY <2>1, <2>2 DEF CarriedOut
  <2>4. /\ f \in [Slot -> Block] /\ f[o.slot] = EmptyBlock
        /\ \A s \in Slot : s # o.slot => f[s] = flash[s]
    BY <1>1, <2>2, <2>3, Values
  <2>5. \A s \in Slot : Written(f[s]) /\ (Waits(s) \/ f[s] = flash[s])
    BY <1>2, <2>1, <2>2, <2>4 DEF Written, Waits
  <2>6. /\ Loaded(f)[o.slot] = Unassigned
        /\ \A s \in Slot : s # o.slot => Loaded(f)[s] = Loaded(flash)[s]
    BY <2>2, <2>4, Values DEF Loaded
  <2>7. Unique(Loaded(f))
    BY <1>3, <2>6, Values, Constants DEF Unique
  <2> QED BY <1>4, <2>1, <2>2, <2>3, <2>4, <2>5, <2>7 DEF Proper, Erases
<1>5. CASE \E s \in Slot, g \in {"store", "update"} : Storing(s, g)
  <2>1. PICK s \in Slot, g \in {"store", "update"} : Storing(s, g)
    BY <1>5
  <2>2. table[s].ids # {} /\ conn.dev \in {s, None} /\ table[s] \in Entry /\ flash[s] \in Block
    BY <1>1, <2>1 DEF Storing
  <2>3. \A r \in Slot : r # s => Agree(table[r], flash[r])
    <3>1. ASSUME NEW r \in Slot, r # s  PROVE ~Waits(r) /\ ~Fresh(r)
      <4>1. ~Fresh(r)
        BY <2>2, <3>1, Constants DEF Fresh
      <4>2. CASE queue = Both(g, s)
        BY <3>1, <4>1, <4>2, BothParts DEF Waits
      <4>3. CASE queue = Rest(g, s)
        <5>1. Len(queue) = 1 /\ queue[1] = Op(g, s, "bond")
          BY <4>3 DEF Rest
        <5>2. \A i \in 1 .. Len(queue) : queue[i].slot = s
          BY <5>1 DEF Op
        <5> QED BY <3>1, <4>1, <5>2 DEF Waits
      <4> QED BY <2>1, <4>2, <4>3 DEF Storing
    <3> QED BY <3>1 DEF Inv, Stored
  <2>4. Waits(s)
    <3>1. CASE queue = Both(g, s)
      BY <3>1, BothParts DEF Waits
    <3>2. CASE queue = Rest(g, s)
      <4>1. Len(queue) = 1 /\ queue[1] = Op(g, s, "bond") /\ 1 \in 1 .. 1
        BY <3>2 DEF Rest
      <4> QED BY <4>1 DEF Waits, Op
    <3> QED BY <2>1, <3>1, <3>2 DEF Storing
  <2>5. /\ \/ queue = Both(g, s) /\ f = [flash EXCEPT ![s].peer = table[s]]
           \/ queue = Rest(g, s) /\ f = [flash EXCEPT ![s].bond = bond] /\ flash[s].peer = table[s]
        /\ f \in [Slot -> Block] /\ f[s].peer = table[s]
        /\ \A r \in Slot : r # s => f[r] = flash[r]
    <3>1. CASE queue = Both(g, s) /\ (g = "store" => flash[s] = EmptyBlock)
      <4>1. PICK o : o = Head(queue) /\ o.op = g /\ o.slot = s /\ o.part = "peer"
        <5>1. Head(queue) = Op(g, s, "peer")
          BY <3>1 DEF Both
        <5> QED BY <5>1 DEF Op
      <4>2. SourceOf(o) = table[s]
        BY <4>1 DEF SourceOf
      <4>3. g = "store" => flash[s].peer = Blank
        BY <3>1, Values
      <4>4. f = [flash EXCEPT ![s].peer =
                    IF g = "store" /\ flash[s].peer # Blank THEN Garbled ELSE table[s]]
        BY <1>1, <4>1, <4>2 DEF CarriedOut
      <4>5. f = [flash EXCEPT ![s].peer = table[s]]
        BY <4>3, <4>4
      <4>6. PICK b : b = [flash[s] EXCEPT !.peer = table[s]]
        OBVIOUS
      <4>7. b \in Block /\ b.peer = table[s]
        BY <2>2, <4>6 DEF Block
      <4>8. f = [flash EXCEPT ![s] = b]
        BY <4>5, <4>6
      <4> QED BY <1>1, <3>1, <4>5, <4>7, <4>8
    <3>2. CASE queue = Rest(g, s) /\ flash[s].peer = table[s]
               /\ (g = "store" => flash[s].bond = Blank)
      <4>1. PICK o : o = Head(queue) /\ o.op = g /\ o.slot = s /\ o.part = "bond"
        <5>1. Head(queue) = Op(g, s, "bond")
          BY <3>2 DEF Rest
        <5> QED BY <5>1 DEF Op
      <4>2. SourceOf(o) = bond
        BY <4>1 DEF SourceOf
      <4>4. f = [flash EXCEPT ![s].bond =
                    IF g = "store" /\ flash[s].bond # Blank THEN Garbled ELSE bond]
        BY <1>1, <4>1, <4>2 DEF CarriedOut
      <4>5. f = [flash EXCEPT ![s].bond = bond]
        BY <3>2, <4>4
      <4>6. PICK b : b = [flash[s] EXCEPT !.bond = bond]
        OBVIOUS
      <4>7. b \in Block /\ b.peer = table[s]
        BY <1>1, <2>2, <3>2, <4>6 DEF Block
      <4>8. f = [flash EXCEPT ![s] = b]
        BY <4>5, <4>6
      <4> QED BY <1>1, <3>2, <4>5, <4>7, <4>8
    <3> QED BY <2>1, <3>1, <3>2 DEF Storing
  <2>6. \A r \in Slot : Written(f[r]) /\ (Waits(r) \/ f[r] = flash[r])
    BY <1>2, <2>2, <2>4, <2>5 DEF Written
  <2>7. \A r \in Slot : Loaded(f)[r] = table[r]
    <3>1. \A r \in Slot : Agree(table[r], f[r]) /\ table[r] \in Entry
      BY <1>1, <2>2, <2>3, <2>5 DEF Agree
    <3> QED BY <2>5, <3>1, AgreeLoads
  <2>8. Unique(Loaded(f))
    BY <1>3, <2>7 DEF Unique
  <2>9. Programs(f)
    BY <2>1, <2>5 DEF Programs
  <2> QED BY <2>5, <2>6, <2>8, <2>9 DEF Proper
<1> QED BY <1>4, <1>5 DEF Inv, Stored

LEMMA FlashDoneInv ==
  ASSUME Inv, FlashDone
  PROVE  Inv'
<1>1. /\ queue # <<>> /\ flash' = CarriedOut(Head(queue), SourceOf(Head(queue)))
      /\ queue' = Tail(queue)
      /\ UNCHANGED <<conn, table, bond, link, peers, app>>
  BY DEF FlashDone
<1>2. /\ flash' \in [Slot -> Block] /\ Unique(Loaded(flash'))
      /\ \A s \in Slot : Written(flash'[s]) /\ (Waits(s) \/ flash'[s] = flash[s])
      /\ Erases(flash') \/ Programs(flash')
  <2>1. PICK f : f = CarriedOut(Head(queue), SourceOf(Head(queue)))
    OBVIOUS
  <2>2. Proper(f) /\ (Erases(f) \/ Programs(f))
    BY <1>1, <2>1, Carried
  <2>3. flash' = f
    BY <1>1, <2>1
  <2> QED BY <2>2, <2>3 DEF Proper
<1>3. queue \in Operations /\ queue' \in Operations /\ flash \in [Slot -> Block]
      /\ table \in [Slot -> Entry]
  BY <1>1, TailOf DEF Inv, Types
<1>4. Types'
  BY <1>1, <1>2, <1>3 DEF Inv, Types
<1>5. link.proc = None /\ (conn = Idle \/ (Has("bonded") /\ ~Has("update")))
  BY <1>1 DEF Inv, Session
<1>6. Session'
  BY <1>1, <1>5 DEF Inv, Session, Has, BusyPairs
<1>7. \A s \in Slot : ~Fresh(s) /\ ~Fresh(s)'
  BY <1>1, <1>5, Values, Constants DEF Fresh, Has
<1>8. conn'.dev # None => Has("bonded")'
  BY <1>1, <1>5, Values DEF Has
<1>9. Named'
  <2>1. Unique(table)' /\ Unique(Loaded(flash))'
    BY <1>1, <1>2 DEF Inv, Named, Unique, Loaded
  <2> QED BY <1>1, <2>1 DEF Inv, Named, FoundByAddress, Has
<1>10. SUFFICES Stored' /\ \A p \in Peer : Keeps(p) => Keeps(p)'
  <2>1. link.proc # "distributed" /\ link.proc # "encrypting"
    BY <1>5, Constants DEF Procedure
  <2>2. ASSUME \A p \in Peer : Keeps(p) => Keeps(p)'  PROVE Keys'
    BY <1>1, <2>1, <2>2 DEF Inv, Keys, Has
  <2> QED BY <1>4, <1>6, <1>9, <2>2 DEF Inv
<1>11. CASE Erases(flash')
  <2>1. PICK o \in Slot : o = queue[1].slot /\ flash' = [flash EXCEPT ![o] = EmptyBlock]
    BY <1>11 DEF Erases
  <2>2. /\ Len(queue') = Len(queue) - 1 /\ Len(queue) \in Nat /\ Len(queue) >= 1
        /\ \A i \in 1 .. Len(queue) : i # 1 => i - 1 \in 1 .. Len(queue') /\ queue'[i - 1] = queue[i]
        /\ \A i \in 1 .. Len(queue') : i + 1 \in 1 .. Len(queue) /\ queue'[i] = queue[i + 1]
    BY <1>1, <1>3, TailOf DEF Operations
  <2>3. \A i \in 1 .. Len(queue) : queue[i].op = "clear" /\ table[queue[i].slot] = Unassigned
    BY <1>11 DEF Erases, Clearing
  <2>4. Clearing'
    <3>1. \A i \in 1 .. Len(queue') : queue'[i].op = "clear" /\ table'[queue'[i].slot] = Unassigned
      BY <1>1, <2>2, <2>3
    <3>2. Len(queue') <= QueueSize
      BY <1>11, <2>2, Constants DEF Erases, Clearing
    <3> QED BY <1>1, <1>11, <3>1, <3>2 DEF Erases, Clearing
  <2>5. table[o] = Unassigned
    BY <2>1, <2>2, <2>3
  <2>6. ASSUME NEW s \in Slot  PROVE Waits(s)' \/ Agree(table'[s], flash'[s])
    <3>1. CASE s = o
      BY <1>1, <1>3, <2>1, <2>5, <3>1 DEF Agree
    <3>2. CASE s # o /\ Waits(s)
      <4>1. PICK i \in 1 .. Len(queue) : queue[i].slot = s
        BY <3>2 DEF Waits
      <4>2. i - 1 \in 1 .. Len(queue') /\ queue'[i - 1].slot = s
        BY <2>1, <2>2, <3>2, <4>1
      <4> QED BY <4>2 DEF Waits
    <3>3. CASE s # o /\ ~Waits(s)
      BY <1>1, <1>3, <1>7, <2>1, <3>3 DEF Inv, Stored
    <3> QED BY <3>1, <3>2, <3>3
  <2>7. Stored'
    BY <1>2, <1>8, <2>4, <2>6 DEF Stored
  <2>8. ASSUME NEW p \in Peer, Keeps(p)  PROVE Keeps(p)'
    <3>1. PICK r \in Slot : table[r].addr = p /\ table[r].ids # {} /\ Will(r) = peers.owed[p]
      BY <2>8 DEF Keeps
    <3>2. r # o
      BY <2>5, <3>1, Values
    <3>3. Will(r) = flash[r].bond
      BY <2>3 DEF Will
    <3>4. Will(r)' = flash'[r].bond
      BY <2>4 DEF Will, Clearing
    <3>5. flash'[r] = flash[r]
      BY <1>3, <2>1, <3>2
    <3> QED BY <1>1, <3>1, <3>3, <3>4, <3>5 DEF Keeps
  <2> QED BY <2>7, <2>8
<1>12. CASE Programs(flash')
  <2>1. PICK s \in Slot, g \in {"store", "update"} :
               /\ Storing(s, g)
               /\ \/ queue = Both(g, s) /\ flash' = [flash EXCEPT ![s].peer = table[s]]
                  \/ queue = Rest(g, s) /\ flash' = [flash EXCEPT ![s].bond = bond]
    BY <1>12 DEF Programs
  <2>2. table[s].ids # {} /\ conn.dev \in {s, None}
    BY <2>1 DEF Storing
  <2>3. flash[s] \in Block /\ flash'[s] \in Block /\ \A r \in Slot : r # s => flash'[r] = flash[r]
    BY <1>2, <1>3, <2>1
  <2>4. CASE queue = Both(g, s) /\ flash' = [flash EXCEPT ![s].peer = table[s]]
    <3>1. queue' = Rest(g, s)
      BY <1>1, <2>4 DEF Both, Rest
    <3>2. flash'[s].peer = table[s] /\ flash'[s].bond = flash[s].bond
      BY <1>3, <2>3, <2>4 DEF Block
    <3>3. g = "store" => flash[s].bond = Blank
      <4>1. queue # Rest(g, s)
        BY <2>4 DEF Both, Rest
      <4> QED BY <2>1, <4>1, Values DEF Storing
    <3>4. Storing(s, g)'
      BY <1>1, <2>2, <3>1, <3>2, <3>3 DEF Storing
    <3>5. Len(queue') = 1 /\ queue'[1].slot = s /\ queue'[1].op = g /\ 1 \in 1 .. 1 /\ g # "clear"
      BY <3>1 DEF Rest, Op
    <3>6. \A i \in 1 .. Len(queue) : queue[i].slot = s /\ queue[i].op = g
      BY <2>4, BothParts
    <3>7. \E i \in 1 .. Len(queue) : queue[i].slot = s /\ queue[i].op # "clear"
      BY <2>4, BothParts
    <3>8. \A r \in Slot : Waits(r)' \/ Agree(table'[r], flash'[r])
      <4>1. \A r \in Slot : r # s => ~Waits(r)
        BY <3>6 DEF Waits
      <4>2. Waits(s)'
        BY <3>5 DEF Waits
      <4> QED BY <1>1, <1>7, <2>3, <4>1, <4>2 DEF Inv, Stored
    <3>9. Stored'
      BY <1>2, <1>8, <3>4, <3>8 DEF Stored
    <3>10. \A r \in Slot : Will(r)' = Will(r)
      <4>1. Will(s)' = bond /\ Will(s) = bond
        <5>1. \E i \in 1 .. Len(queue') : queue'[i].slot = s /\ queue'[i].op # "clear"
          BY <3>5
        <5>2. Will(s)' = bond'
          BY <5>1 DEF Will
        <5>3. Will(s) = bond
          BY <3>7 DEF Will
        <5> QED BY <1>1, <5>2, <5>3
      <4>2. ASSUME NEW r \in Slot, r # s  PROVE Will(r)' = flash'[r].bond /\ Will(r) = flash[r].bond
        <5>1. \A i \in 1 .. Len(queue') : queue'[i].slot = s
          BY <3>5
        <5> QED BY <3>6, <4>2, <5>1 DEF Will
      <4> QED BY <2>3, <4>1, <4>2
    <3> QED BY <1>1, <3>9, <3>10 DEF Keeps
  <2>5. CASE queue = Rest(g, s) /\ flash' = [flash EXCEPT ![s].bond = bond]
    <3>1. queue' = <<>>
      BY <1>1, <2>5 DEF Rest
    <3>2. flash'[s].peer = flash[s].peer /\ flash'[s].bond = bond
      BY <1>3, <2>3, <2>5 DEF Block
    <3>3. flash[s].peer = table[s]
      <4>1. queue # Both(g, s)
        BY <2>5 DEF Both, Rest
      <4> QED BY <2>1, <4>1 DEF Storing
    <3>5. Len(queue) = 1 /\ queue[1].slot = s /\ queue[1].op = g /\ 1 \in 1 .. 1 /\ g # "clear"
      BY <2>5 DEF Rest, Op
    <3>6. \A i \in 1 .. Len(queue) : queue[i].slot = s
      BY <3>5
    <3>8. \A r \in Slot : Agree(table'[r], flash'[r])
      <4>1. \A r \in Slot : r # s => ~Waits(r)
        BY <3>6 DEF Waits
      <4>2. Agree(table'[s], flash'[s])
        BY <1>1, <2>2, <3>2, <3>3 DEF Agree
      <4> QED BY <1>1, <1>7, <2>3, <4>1, <4>2 DEF Inv, Stored
    <3>9. Stored'
      BY <1>2, <1>8, <3>1, <3>8 DEF Stored
    <3>10. \A r \in Slot : Will(r)' = Will(r)
      <4>1. Will(s) = bond
        BY <3>5 DEF Will
      <4>2. ASSUME NEW r \in Slot, r # s  PROVE Will(r) = flash[r].bond
        BY <3>6, <4>2 DEF Will
      <4>3. \A r \in Slot : Will(r)' = flash'[r].bond
        BY <3>1 DEF Will
      <4> QED BY <2>3, <3>2, <4>1, <4>2, <4>3
    <3> QED BY <1>1, <3>9, <3>10 DEF Keeps
  <2> QED BY <2>1, <2>4, <2>5
<1> QED BY <1>2, <1>11, <1>12

LEMMA PowerLossInv ==
  ASSUME Inv, PowerLoss
  PROVE  Inv'
<1>1. PICK f \in {flash} \cup
           {CarriedOut(queue[i], SourceOf(queue[i])) : i \in 1 .. 1 \cap DOMAIN queue} : Restart(f)
  BY DEF PowerLoss
<1>2. CASE f = flash
  BY <1>1, <1>2, CrashInv DEF Inv, Types, Stored, Named
<1>3. CASE f # flash
  <2>1. PICK i \in 1 .. 1 \cap DOMAIN queue : f = CarriedOut(queue[i], SourceOf(queue[i]))
    BY <1>1, <1>3
  <2>2. i = 1 /\ queue \in Seq(Operation) /\ queue # <<>>
    <3>1. queue \in Seq(Operation) /\ i = 1
      BY DEF Inv, Types, Operations
    <3> QED BY <3>1
  <2>3. f = CarriedOut(Head(queue), SourceOf(Head(queue)))
    BY <2>1, <2>2
  <2>4. Proper(f)
    BY <2>2, <2>3, Carried
  <2> QED BY <1>1, <2>4, CrashInv DEF Proper
<1> QED BY <1>2, <1>3

LEMMA FlashFailsInv ==
  ASSUME Inv, FlashFails
  PROVE  Inv'
<1>1. Restart(flash)
  BY DEF FlashFails
<1>2. flash \in [Slot -> Block] /\ (\A s \in Slot : Written(flash[s])) /\ Unique(Loaded(flash))
  BY DEF Inv, Types, Stored, Named
<1> QED BY <1>1, <1>2, CrashInv

-----------------------------------------------------------------------------
\* Every step.

LEMMA NextInv ==
  ASSUME Inv, Orderly, [Next]_vars
  PROVE  Inv'
<1>1. ASSUME NEW p \in Peer, Connected(p)  PROVE Inv'
  BY <1>1, ConnectedInv
<1>2. ASSUME NEW p \in Peer, PeerForgets(p)  PROVE Inv'
  BY <1>2, PeerForgetsInv
<1>3. CASE Disconnected
  BY <1>3, DisconnectedInv
<1>4. CASE SecRequest
  BY <1>4, SecRequestInv
<1>5. CASE SecParamsRequest
  BY <1>5, SecParamsRequestInv
<1>6. CASE SecUpdate
  BY <1>6, SecUpdateInv
<1>7. CASE SecUpdateOpen
  BY <1>7, SecUpdateOpenInv
<1>8. CASE KeysDistributed
  BY <1>8, KeysDistributedInv
<1>9. CASE AuthUnbonded
  BY <1>9, AuthUnbondedInv
<1>10. ASSUME NEW idKey \in BOOLEAN, AuthBonded(idKey)  PROVE Inv'
  BY <1>10, AuthBondedInv
<1>11. CASE FlashDone
  BY <1>11, FlashDoneInv
<1>12. CASE FlashFails
  BY <1>12, FlashFailsInv
<1>13. CASE PowerLoss
  BY <1>13, PowerLossInv
<1>14. CASE DeviceDeleteAll
  <2>1. Assigned \in SUBSET Slot
    BY DEF Assigned
  <2>2. Deleted(Assigned) /\ app' = app
    BY <1>14 DEF DeviceDeleteAll, Host
  <2> QED BY <2>1, <2>2, DeletedInv
<1>15. ASSUME NEW s \in Slot, DeviceDelete(s)  PROVE Inv'
  <2>1. {s} \in SUBSET Slot /\ Deleted({s}) /\ app' = app
    BY <1>15 DEF DeviceDelete, Host
  <2> QED BY <2>1, DeletedInv
<1>16. CASE UNCHANGED vars
  <2>1. UNCHANGED <<conn, table, bond, queue, flash, link, peers, app>>
    BY <1>16 DEF vars
  <2>2. Types' /\ Session' /\ Named'
    BY <2>1 DEF Inv, Types, Session, Named, Has, BusyPairs, Unique, Loaded, FoundByAddress
  <2>3. Stored'
    BY <2>1, SameStored DEF Inv, Has
  <2>4. Keys'
    <3>1. \A p \in Peer : Keeps(p) => Keeps(p)'
      BY <2>1 DEF Keeps, Will
    <3> QED BY <2>1, <3>1 DEF Inv, Keys, Has
  <2> QED BY <2>2, <2>3, <2>4 DEF Inv
<1> QED BY <1>1, <1>2, <1>3, <1>4, <1>5, <1>6, <1>7, <1>8, <1>9, <1>10, <1>11, <1>12,
           <1>13, <1>14, <1>15, <1>16 DEF Next

LEMMA AlwaysInv ==
  ASSUME Orderly
  PROVE  Spec => []Inv
<1>1. Init => Inv
  BY InitInv
<1>2. Inv /\ [Next]_vars => Inv'
  BY NextInv
<1> QED BY <1>1, <1>2, PTL DEF Spec

-----------------------------------------------------------------------------
\* What the invariant says.

LEMMA InvTypeOK ==
  ASSUME Inv, Orderly
  PROVE  BondsTypeOK
<1>1. /\ conn.state \subseteq {"connected", "bonded", "encrypted", "pairing", "pending", "update"}
      /\ conn.peer \in Peer \cup {None} /\ conn.dev \in Slot \cup {None}
  BY DEF Inv, Types, Conn, State, Bits
<1>2. \A s \in Slot : /\ table[s].ids \subseteq {"addr", "irk"}
                      /\ table[s].addr \in Peer \cup {None}
                      /\ table[s].ediv \in Key \cup {None}
  BY DEF Inv, Types, Entry
<1>3. bond \in Key \cup {None, Blank} /\ peers.keys \in 0 .. MaxKeys
  BY DEF Inv, Types, Secret
<1>4. queue \in Seq(Operation)
  BY DEF Inv, Types, Operations
<1>5. \A i \in 1 .. Len(queue) : queue[i].slot \in Slot
  <2>1. \A i \in 1 .. Len(queue) : queue[i] \in Operation
    BY <1>4
  <2> QED BY <2>1 DEF Operation
<1>6. Len(queue) <= QueueSize
  <2>1. QueueSize \in Nat /\ QueueSize >= 2
    BY Constants DEF Orderly
  <2>2. CASE queue = <<>>
    BY <2>1, <2>2
  <2>3. CASE Clearing
    BY <2>3 DEF Clearing
  <2>4. ASSUME NEW s \in Slot, NEW f \in {"store", "update"}, Storing(s, f)
        PROVE  Len(queue) <= QueueSize
    <3>1. queue = Both(f, s) \/ queue = Rest(f, s)
      BY <2>4 DEF Storing
    <3>2. Len(queue) = 2 \/ Len(queue) = 1
      BY <3>1 DEF Both, Rest
    <3>3. 2 <= QueueSize /\ 1 <= QueueSize
      BY <2>1
    <3> QED BY <3>2, <3>3
  <2>5. queue = <<>> \/ Clearing \/ \E s \in Slot, f \in {"store", "update"} : Storing(s, f)
    BY DEF Inv, Stored
  <2> QED BY <2>2, <2>3, <2>4, <2>5
<1> QED BY <1>1, <1>2, <1>3, <1>5, <1>6 DEF BondsTypeOK

LEMMA InvErased ==
  ASSUME Inv
  PROVE  StoresErased
<1>1. ASSUME NEW s \in Slot, NEW part \in DOMAIN flash[s]  PROVE flash[s][part] # Garbled
  <2>1. PICK b \in Block : b = flash[s]
    BY DEF Inv, Types
  <2>2. b.peer # Garbled /\ b.bond # Garbled /\ b.gatts # Garbled
    BY Constants DEF Block
  <2>3. DOMAIN b = {"peer", "bond", "gatts"}
    BY DEF Block
  <2> QED BY <2>1, <2>2, <2>3
<1> QED BY <1>1 DEF StoresErased

LEMMA InvAgrees ==
  ASSUME Inv
  PROVE  FlashAgrees
<1> SUFFICES ASSUME conn = Idle, queue = <<>>
             PROVE  table = Loaded(flash)
  BY DEF FlashAgrees
<1>1. flash \in [Slot -> Block] /\ table \in [Slot -> Entry]
  BY DEF Inv, Types
<1>2. \A s \in Slot : Agree(table[s], flash[s])
  BY Settled, Values, Constants DEF Inv, Fresh
<1>3. \A s \in Slot : table[s] = Loaded(flash)[s]
  BY <1>1, <1>2, AgreeLoads
<1>4. Loaded(flash) = [s \in Slot |-> Loaded(flash)[s]]
  BY DEF Loaded
<1> QED BY <1>1, <1>3, <1>4

LEMMA InvListed ==
  ASSUME Inv
  PROVE  BondedListed
<1> SUFFICES ASSUME NEW p \in Peer, peers.owed[p] # None, conn.peer # p
             PROVE  \E s \in Whitelist(MaxBonds, MaxBonds) : table[s].addr = p
  BY DEF BondedListed
<1>1. PICK s \in Slot : table[s].addr = p /\ table[s].ids # {}
  BY DEF Inv, Keys, Keeps
<1>2. PICK kind \in {"addr", "irk"} : kind \in table[s].ids
  BY <1>1, EntryFields DEF Inv, Types
<1>3. conn.dev # s
  BY <1>1, Constants DEF Inv, Named
<1> QED BY <1>1, <1>2, <1>3, AllListed

LEMMA InvKept ==
  ASSUME Inv
  PROVE  BondsKept
<1> SUFFICES ASSUME queue = <<>>, NEW p \in Peer, peers.owed[p] # None
             PROVE  \E s \in Slot : DistributedKey(s) = peers.owed[p] /\ table[s].addr = p
  BY DEF BondsKept
<1>1. PICK s \in Slot : table[s].addr = p /\ Will(s) = peers.owed[p]
  BY DEF Inv, Keys, Keeps
<1> QED BY <1>1, WillRest DEF DistributedKey

(* Whatever connects, pairs, fails or is deleted, the host build's table,  *)
(* flash, queue and whitelist tell one story of who is bonded: no part of  *)
(* a block is programmed twice, a peer has one entry, an idle module has   *)
(* the table a restart would load, and a bond a peer counts on is in flash *)
(* and in the whitelist (device_manager_central.c: device_context_store,   *)
(* device_instance_free, dm_init, dm_whitelist_create).                    *)
THEOREM BondsAreSound ==
  ASSUME Orderly
  PROVE  Spec => []BondsSound
<1>1. Inv => BondsSound
  <2> SUFFICES ASSUME Inv  PROVE BondsSound
    OBVIOUS
  <2>1. OnePerPeer
    <3>1. Unique(table) /\ Unique(Loaded(flash))
      BY DEF Inv, Named
    <3> QED BY <3>1 DEF OnePerPeer, Unique
  <2> QED BY <2>1, InvTypeOK, InvErased, InvAgrees, InvKept, InvListed DEF BondsSound
<1> QED BY <1>1, AlwaysInv, PTL

(* The application's one security procedure is taken exactly while the     *)
(* connection pairs, also when the link or the power goes in the middle:   *)
(* no pairing that was cut off keeps later ones waiting                    *)
(* (device_manager_central.c: STATE_CONTROL_PROCEDURE_IN_PROGRESS).        *)
THEOREM BusyWhilePairing ==
  ASSUME Orderly
  PROVE  Spec => []BusyPairs
<1>1. Inv => BusyPairs
  BY DEF Inv, Session
<1> QED BY <1>1, AlwaysInv, PTL

(* A peer recognised as bonded is offered the key it counts on, although   *)
(* there is one bond buffer for all peers: connecting reads the peer's own *)
(* block, and what other peers queued has been carried out by then         *)
(* (device_manager_central.c: dm_security_setup_req with m_bond_table[0]). *)
THEOREM OwnKeyIsOffered ==
  ASSUME Orderly
  PROVE  Spec => []BondedKey
<1>1. Inv => BondedKey
  <2> SUFFICES ASSUME Inv, link.proc = "encrypting", Has("bonded"), peers.owed[conn.peer] # None
               PROVE  link.reply = peers.owed[conn.peer]
    BY DEF BondedKey
  <2>1. "encrypting" # None
    BY Constants DEF Procedure
  <2>2. conn.peer \in Peer
    BY <2>1, OnLink
  <2> QED BY <2>2 DEF Inv, Keys
<1> QED BY <1>1, AlwaysInv, PTL

-----------------------------------------------------------------------------
\* Service discovery: the invariant.

(* No service of a peer has more characteristics than are looked for. *)
Fits == \A l \in Layouts : Cardinality(Decls(l, 1, Len(l))) <= MaxChars

FoundChars == {s \in Seq([decl : Nat, value : Nat, cccd : Nat]) : Len(s) <= MaxChars}
EventType == {"complete", "not found", "error"}
Events == Seq([user : Nat, srv : Service, type : EventType, chars : FoundChars])
Requests == [kind : {"service", "chars", "descs"}, from : Int, to : Int]
Databases == [busy : BOOLEAN, srv : 1 .. MaxUsers, char : 1 .. MaxChars + 1, end : Nat,
              found : [1 .. MaxUsers -> FoundChars]]
Records == [pend : Events, made : 0 .. MaxUsers, db : Databases,
            req : Requests \cup {NoRequest}, told : Events]

Registered ==
    /\ ready \in BOOLEAN /\ up \in BOOLEAN /\ peer \in [Service -> Layouts]
    /\ reg \in Seq(Service) /\ Len(reg) <= MaxUsers

(* The service in progress: what the peer has, what was found. *)
Layout(m) == peer[reg[m.db.srv]]
Chars(m) == m.db.found[m.db.srv]

Listing(chars, l) ==
    /\ InOrder(chars)
    /\ \A i \in 1 .. Len(chars) : /\ chars[i].decl \in Decls(l, 1, Len(l))
                                  /\ chars[i].value = chars[i].decl + 1
Lists(chars, l, upto) == Decls(l, 1, upto) \subseteq DeclsOf(chars)
MayHold(chars, l, i, d) ==
    \/ d = CccdAmong(l, OwnDescs(chars, l, i))
    \/ d = 0 /\ ~OneResponse(chars, l, i)
Configured(chars, l, upto) ==
    \A i \in 1 .. Len(chars) : i < upto => MayHold(chars, l, i, chars[i].cccd)
Bare(chars, from) == \A i \in 1 .. Len(chars) : i >= from => chars[i].cccd = 0

(* What a request tells of the discovery in progress. *)
AwaitsChars(m, r) ==
    /\ m.db.end = Len(Layout(m)) /\ r.to = Len(Layout(m))
    /\ Listing(Chars(m), Layout(m)) /\ Bare(Chars(m), 1)
    /\ Lists(Chars(m), Layout(m), r.from - 1)
    /\ m.db.char = Len(Chars(m)) + 1 /\ Len(Chars(m)) < MaxChars
    /\ r.from \in Nat \ {0}
    /\ \A i \in 1 .. Len(Chars(m)) : Chars(m)[i].decl < r.from
AllFound(m) ==
    /\ m.db.end = Len(Layout(m)) /\ Listing(Chars(m), Layout(m))
    /\ Fits => Lists(Chars(m), Layout(m), Len(Layout(m)))
AwaitsDescs(m, r) ==
    /\ AllFound(m) /\ m.db.char \in 1 .. Len(Chars(m))
    /\ r.from = Chars(m)[m.db.char].value + 1
    /\ r.to = RangeEnd(Chars(m), Layout(m), m.db.char)
    /\ Configured(Chars(m), Layout(m), m.db.char) /\ Bare(Chars(m), m.db.char)
Awaits(m, r) ==
    /\ r \in Requests
    /\ r.kind = "service" => m.db.char = 1 /\ Chars(m) = <<>>
    /\ r.kind = "chars" => AwaitsChars(m, r)
    /\ r.kind = "descs" => AwaitsDescs(m, r)

EventsRight(s) == Fits => \A i \in 1 .. Len(s) : RightOf(s[i])
InTurn(s) ==
    \A i \in 1 .. Len(s) : i <= Len(reg) /\ s[i].user = Handler(reg, reg[i])

(* A discovery in progress: one event waits for every service before. *)
Going(m) ==
    /\ m.db.srv <= Len(reg) /\ m.made = m.db.srv - 1 /\ Len(m.pend) = m.made
    /\ InTurn(m.pend) /\ m.told = <<>>

Sane(m) ==
    /\ m \in Records /\ Len(m.pend) <= MaxUsers
    /\ EventsRight(m.pend) /\ EventsRight(m.told)
    /\ m.db.busy <=> m.req # NoRequest
    /\ m.db.busy => ready /\ up /\ Going(m) /\ Awaits(m, m.req)

Present == [pend |-> pend, made |-> made, db |-> db, req |-> req, told |-> told]
DiscoveryInv == Registered /\ Sane(Present)

(* What may be told of the service in progress. *)
MayTell(m, type) ==
    Fits => RightOf([user |-> Handler(reg, reg[m.db.srv]), srv |-> reg[m.db.srv],
                     type |-> type, chars |-> IF type = "complete" THEN Chars(m) ELSE <<>>])

(* A discovery that ended well has told everybody. *)
Ends(m) == ~m.db.busy /\ m.made = Len(reg) => Len(m.told) = Len(reg) /\ InTurn(m.told)

-----------------------------------------------------------------------------
\* Service discovery: the steps of a handler.

LEMMA LeastNatural ==
  ASSUME NEW S \in SUBSET Nat, S # {}
  PROVE  \E m \in S : \A n \in S : m <= n
<1>1. PICK m \in S : \A n \in S : <<n, m>> \notin OpToRel(<, Nat)
  BY NatLessThanWellFounded, WFMin
<1>2. \A n \in S : ~(n < m)
  BY <1>1 DEF OpToRel
<1> QED BY <1>2

LEMMA LayoutIsSeq ==
  ASSUME Registered, NEW i \in 1 .. Len(reg)
  PROVE  /\ reg[i] \in Service /\ peer[reg[i]] \in Layouts
         /\ peer[reg[i]] \in Seq({"service", "decl", "value", "cccd", "desc", "custom"})
         /\ \A h \in 1 .. Len(peer[reg[i]]) :
               peer[reg[i]][h] = "decl" =>
                  h < Len(peer[reg[i]]) /\ peer[reg[i]][h + 1] = "value"
<1>1. reg[i] \in Service
  BY DEF Registered
<1>2. peer[reg[i]] \in Layouts
  BY <1>1 DEF Registered
<1> QED BY <1>1, <1>2, DiscoveryAssumption

(* The handler of a service is the first that registered for it. *)
LEMMA HandlerIsFirst ==
  ASSUME NEW r \in Seq(Service), NEW i \in 1 .. Len(r)
  PROVE  /\ Handler(r, r[i]) \in 1 .. Len(r) /\ r[Handler(r, r[i])] = r[i]
         /\ \A j \in 1 .. Len(r) : r[j] = r[i] => Handler(r, r[i]) <= j
<1> DEFINE S == {j \in 1 .. Len(r) : r[j] = r[i]}
<1>1. DOMAIN r = 1 .. Len(r) /\ Len(r) \in Nat
  BY LenProperties
<1>2. S \in SUBSET Nat /\ S # {}
  BY <1>1
<1>3. \E m \in S : \A n \in S : m <= n
  BY <1>2, LeastNatural
<1>4. \E m \in DOMAIN r : r[m] = r[i] /\ \A j \in DOMAIN r : r[j] = r[i] => m <= j
  BY <1>1, <1>3
<1> QED BY <1>1, <1>4 DEF Handler

(* One more registration leaves the handlers of the others. *)
LEMMA HandlerStays ==
  ASSUME NEW r \in Seq(Service), NEW s \in Service, NEW i \in 1 .. Len(r)
  PROVE  Handler(Append(r, s), Append(r, s)[i]) = Handler(r, r[i])
<1> DEFINE a == Append(r, s)
           h == Handler(r, r[i])
           k == Handler(a, a[i])
<1>1. /\ a \in Seq(Service) /\ Len(a) = Len(r) + 1 /\ Len(r) \in Nat
      /\ \A j \in 1 .. Len(r) : a[j] = r[j]
  BY AppendProperties
<1>2. /\ h \in 1 .. Len(r) /\ r[h] = r[i]
      /\ \A j \in 1 .. Len(r) : r[j] = r[i] => h <= j
  BY HandlerIsFirst
<1>3. i \in 1 .. Len(a)
  BY <1>1
<1>4. /\ k \in 1 .. Len(a) /\ a[k] = a[i]
      /\ \A j \in 1 .. Len(a) : a[j] = a[i] => k <= j
  <2> HIDE DEF a
  <2> QED BY <1>1, <1>3, HandlerIsFirst
<1>5. h \in 1 .. Len(a) /\ a[h] = a[i]
  BY <1>1, <1>2
<1>6. k <= h
  BY <1>4, <1>5
<1>7. k \in 1 .. Len(r)
  BY <1>1, <1>2, <1>4, <1>6
<1>8. r[k] = r[i]
  BY <1>1, <1>4, <1>7
<1>9. h <= k
  BY <1>2, <1>7, <1>8
<1> HIDE DEF a, h, k
<1>10. h = k
  BY <1>2, <1>6, <1>7, <1>9
<1> QED BY <1>10 DEF a, h, k

(* The event that is triggered waits, or goes out with all that waited. *)
LEMMA TriggeredEvent ==
  ASSUME Registered, NEW m \in Records, Going(m), NEW type \in EventType,
         EventsRight(m.pend),
         NEW e, e = [user |-> Handler(reg, reg[m.db.srv]), srv |-> reg[m.db.srv],
                     type |-> type, chars |-> IF type = "complete" THEN Chars(m) ELSE <<>>],
         Fits => RightOf(e)
  PROVE  LET t == Triggered(m, type)
         IN  /\ t \in Records /\ t.db = m.db /\ t.made = m.made /\ t.req = m.req
             /\ EventsRight(t.pend) /\ EventsRight(t.told) /\ Len(t.pend) <= MaxUsers
             /\ \/ /\ m.db.srv = Len(reg)
                   /\ Len(t.told) = Len(reg) /\ InTurn(t.told)
                \/ /\ m.db.srv < Len(reg) /\ Len(t.pend) = m.db.srv
                   /\ InTurn(t.pend) /\ t.told = <<>>
<1> DEFINE w == [m EXCEPT !.pend = Append(m.pend, e)]
<1>1. /\ m.db.srv \in 1 .. Len(reg) /\ Len(m.pend) = m.db.srv - 1 /\ m.pend \in Events
      /\ Len(reg) \in Nat /\ MaxUsers \in Nat /\ Len(reg) <= MaxUsers /\ m.told = <<>>
  BY DiscoveryAssumption DEF Going, Registered, Records, Databases
<1>2. e \in [user : Nat, srv : Service, type : EventType, chars : FoundChars]
  <2>1. reg[m.db.srv] \in Service /\ Handler(reg, reg[m.db.srv]) \in Nat
    BY <1>1, LayoutIsSeq, HandlerIsFirst DEF Registered
  <2>2. Chars(m) \in FoundChars
    BY DEF Records, Databases, Chars
  <2>3. <<>> \in FoundChars
    BY DiscoveryAssumption DEF FoundChars
  <2> QED BY <2>1, <2>2, <2>3
<1>3. /\ w.pend \in Events /\ Len(w.pend) = m.db.srv
      /\ w.pend[m.db.srv] = e
      /\ \A i \in 1 .. m.db.srv - 1 : w.pend[i] = m.pend[i]
  BY <1>1, <1>2, AppendProperties DEF Events, Records
<1>4. w \in Records /\ w.db = m.db /\ w.made = m.made /\ w.req = m.req /\ w.told = <<>>
  BY <1>1, <1>3 DEF Records
<1>5. InTurn(w.pend)
  BY <1>1, <1>3 DEF InTurn, Going
<1>6. EventsRight(w.pend)
  BY <1>1, <1>3 DEF EventsRight
<1>7. Triggered(m, type) = Sent(w)
  BY <1>1 DEF Triggered, Chars, Records
<1>8. <<>> \in Events /\ EventsRight(<<>>) /\ Len(<<>>) = 0
  BY DEF Events, EventsRight
<1> HIDE DEF w
<1>9. CASE m.db.srv = Len(reg)
  <2>1. Sent(w) = [w EXCEPT !.pend = <<>>, !.told = <<>> \o w.pend]
    BY <1>3, <1>4, <1>9 DEF Sent
  <2>2. <<>> \o w.pend = w.pend
    BY <1>3, ConcatEmptySeq DEF Events
  <2>3. Sent(w) = [w EXCEPT !.pend = <<>>, !.told = w.pend]
    BY <2>1, <2>2
  <2>4. /\ Sent(w) \in Records /\ Sent(w).pend = <<>> /\ Sent(w).told = w.pend
        /\ Sent(w).db = w.db /\ Sent(w).made = w.made /\ Sent(w).req = w.req
    BY <1>3, <1>4, <1>8, <2>3 DEF Records
  <2> QED BY <1>1, <1>3, <1>4, <1>5, <1>6, <1>7, <1>8, <1>9, <2>4
<1>10. CASE m.db.srv # Len(reg)
  <2>1. Sent(w) = w
    BY <1>3, <1>10 DEF Sent
  <2> QED BY <1>1, <1>3, <1>4, <1>5, <1>6, <1>7, <1>8, <1>10, <2>1
<1> QED BY <1>9, <1>10

(* A call to the SoftDevice keeps the discovery going, or ends it. *)
LEMMA AskedOutcome ==
  ASSUME Registered, ready, up, NEW m \in Records, Going(m), m.db.busy, m.req = NoRequest,
         EventsRight(m.pend), NEW r, Awaits(m, r), NEW ok \in BOOLEAN
  PROVE  Sane(Asked(m, r, ok)) /\ Ends(Asked(m, r, ok))
<1>1. /\ m.db.srv \in 1 .. Len(reg) /\ Len(m.pend) = m.db.srv - 1 /\ m.pend \in Events
      /\ Len(reg) \in Nat /\ MaxUsers \in Nat /\ Len(reg) <= MaxUsers /\ m.told = <<>>
      /\ m.made = m.db.srv - 1
  BY DiscoveryAssumption DEF Going, Registered, Records, Databases
<1>2. r \in Requests /\ r # NoRequest
  BY DEF Awaits, Requests, NoRequest
<1>3. CASE ok
  <2> DEFINE a == [m EXCEPT !.req = r]
  <2>1. Asked(m, r, ok) = a
    BY <1>3 DEF Asked
  <2>2. /\ a \in Records /\ a.req = r /\ a.db = m.db /\ a.made = m.made
        /\ a.pend = m.pend /\ a.told = m.told
    BY <1>2 DEF Records
  <2> HIDE DEF a
  <2>3. Going(a)
    BY <2>2 DEF Going
  <2>4. Awaits(a, r)
    BY <2>2 DEF Awaits, AwaitsChars, AwaitsDescs, AllFound, Chars, Layout
  <2>5. EventsRight(a.told)
    BY <1>1, <2>2 DEF EventsRight
  <2> QED BY <1>1, <1>2, <2>1, <2>2, <2>3, <2>4, <2>5 DEF Sane, Ends
<1>4. CASE ~ok
  <2> DEFINE a == [m EXCEPT !.db.busy = FALSE]
             e == [user |-> Handler(reg, reg[a.db.srv]), srv |-> reg[a.db.srv],
                   type |-> "error", chars |-> <<>>]
             t == Triggered(a, "error")
  <2>1. Asked(m, r, ok) = t
    BY <1>4 DEF Asked
  <2>2. /\ a \in Records /\ a.req = NoRequest /\ ~a.db.busy /\ a.db.srv = m.db.srv
        /\ a.made = m.made /\ a.pend = m.pend /\ a.told = m.told
    BY DEF Records, Databases
  <2> HIDE DEF a
  <2>3. Going(a)
    BY <2>2 DEF Going
  <2>4. RightOf(e)
    BY DEF RightOf
  <2>5. /\ t \in Records /\ t.db = a.db /\ t.made = a.made /\ t.req = a.req
        /\ EventsRight(t.pend) /\ EventsRight(t.told) /\ Len(t.pend) <= MaxUsers
    BY <2>2, <2>3, <2>4, TriggeredEvent DEF EventType
  <2>6. ~t.db.busy /\ t.req = NoRequest /\ t.made # Len(reg)
    BY <1>1, <2>2, <2>5
  <2> HIDE DEF t
  <2> QED BY <2>1, <2>5, <2>6 DEF Sane, Ends
<1> QED BY <1>3, <1>4

(* A service is done: its event, then the next service, or the end. *)
LEMMA CompletedOutcome ==
  ASSUME Registered, ready, up, NEW m \in Records, Going(m), m.db.busy, m.req = NoRequest,
         EventsRight(m.pend), NEW type \in EventType, NEW ok \in BOOLEAN,
         MayTell(m, type)
  PROVE  Sane(Completed(m, type, ok)) /\ Ends(Completed(m, type, ok))
<1>1. /\ m.db.srv \in 1 .. Len(reg) /\ m.db.srv \in 1 .. MaxUsers
      /\ Len(reg) \in Nat /\ MaxUsers \in Nat /\ Len(reg) <= MaxUsers
      /\ m.made = m.db.srv - 1 /\ m.made + 1 = m.db.srv /\ MaxChars \in Nat
  BY DiscoveryAssumption DEF Going, Registered, Records, Databases
<1> DEFINE e == [user |-> Handler(reg, reg[m.db.srv]), srv |-> reg[m.db.srv],
                 type |-> type, chars |-> IF type = "complete" THEN Chars(m) ELSE <<>>]
           t == Triggered(m, type)
<1>2. Fits => RightOf(e)
  BY DEF MayTell
<1>3. /\ t \in Records /\ t.db = m.db /\ t.made = m.made /\ t.req = m.req
      /\ EventsRight(t.pend) /\ EventsRight(t.told) /\ Len(t.pend) <= MaxUsers
      /\ \/ m.db.srv = Len(reg) /\ Len(t.told) = Len(reg) /\ InTurn(t.told)
         \/ /\ m.db.srv < Len(reg) /\ Len(t.pend) = m.db.srv
            /\ InTurn(t.pend) /\ t.told = <<>>
  BY <1>2, TriggeredEvent
<1>4. Completed(m, type, ok) = NextService(t, ok)
  BY DEF Completed
<1> HIDE DEF t, e
<1>5. CASE m.db.srv = Len(reg)
  <2> DEFINE a == [t EXCEPT !.made = m.db.srv, !.db.busy = FALSE]
  <2>1. NextService(t, ok) = a
    BY <1>1, <1>3, <1>5 DEF NextService
  <2>3. m.db.srv \in 0 .. MaxUsers
    BY <1>1
  <2>2. /\ a \in Records /\ ~a.db.busy /\ a.req = NoRequest /\ a.pend = t.pend /\ a.told = t.told
        /\ a.made = Len(reg)
    BY <1>3, <1>5, <2>3 DEF Records, Databases
  <2> HIDE DEF a
  <2> QED BY <1>1, <1>3, <1>4, <1>5, <2>1, <2>2 DEF Sane, Ends
<1>6. CASE m.db.srv < Len(reg)
  <2> DEFINE a == [t EXCEPT !.made = m.db.srv, !.db.char = 1, !.db.srv = @ + 1,
                            !.db.found[t.db.srv + 1] = <<>>]
  <2>1. NextService(t, ok) = Asked(a, ServiceRequest, ok)
    BY <1>1, <1>3, <1>6 DEF NextService
  <2>2. <<>> \in FoundChars
    BY DiscoveryAssumption DEF FoundChars
  <2>3. /\ m.db.srv + 1 \in 1 .. MaxUsers /\ m.db.srv + 1 <= Len(reg)
        /\ m.db.srv \in 0 .. MaxUsers /\ 1 \in 1 .. MaxChars + 1
    BY <1>1, <1>6
  <2>4. a.db = [m.db EXCEPT !.char = 1, !.srv = m.db.srv + 1,
                            !.found = [@ EXCEPT ![m.db.srv + 1] = <<>>]]
    BY <1>3 DEF Records, Databases
  <2>5. a.db \in Databases
    <3>1. m.db \in Databases
      BY DEF Records
    <3>2. [m.db.found EXCEPT ![m.db.srv + 1] = <<>>] \in [1 .. MaxUsers -> FoundChars]
      BY <2>2, <3>1 DEF Databases
    <3> QED BY <2>3, <2>4, <3>1, <3>2 DEF Databases
  <2>6. /\ a.made = m.db.srv /\ a.pend = t.pend /\ a.told = t.told /\ a.req = NoRequest
    BY <1>3 DEF Records
  <2>7. a \in Records
    BY <1>3, <2>3, <2>5, <2>6 DEF Records
  <2>8. a.db.busy /\ a.db.srv = m.db.srv + 1 /\ a.db.char = 1 /\ a.db.found[m.db.srv + 1] = <<>>
    <3>1. m.db \in Databases
      BY DEF Records
    <3>2. m.db.found \in [1 .. MaxUsers -> FoundChars]
      BY <3>1 DEF Databases
    <3>3. [m.db.found EXCEPT ![m.db.srv + 1] = <<>>][m.db.srv + 1] = <<>>
      BY ONLY <2>3, <3>2
    <3> QED BY <2>4, <3>1, <3>3 DEF Databases
  <2> HIDE DEF a
  <2>9. Going(a)
    <3>1. Len(a.pend) = m.db.srv /\ InTurn(a.pend) /\ a.told = <<>>
      BY ONLY <1>3, <1>6, <2>3, <2>6
    <3>2. a.db.srv <= Len(reg) /\ a.made = a.db.srv - 1
      BY ONLY <2>3, <2>6, <2>8
    <3> QED BY ONLY <2>6, <3>1, <3>2 DEF Going
  <2>10. Awaits(a, ServiceRequest)
    BY <2>8 DEF Awaits, ServiceRequest, Requests, Chars
  <2>11. EventsRight(a.pend)
    BY <1>3, <2>6
  <2> QED BY <1>4, <2>1, <2>6, <2>7, <2>8, <2>9, <2>10, <2>11, AskedOutcome
<1> QED BY <1>1, <1>5, <1>6

(* Looking for the next characteristic that has descriptors: those passed  *)
(* over have none.                                                         *)
LEMMA DescsOutcome ==
  ASSUME Registered, ready, up, NEW m \in Records, Going(m), m.db.busy, m.req = NoRequest,
         EventsRight(m.pend), NEW ok \in BOOLEAN,
         AllFound(m), m.db.char \in Nat \ {0},
         Configured(Chars(m), Layout(m), m.db.char), Bare(Chars(m), m.db.char)
  PROVE  Sane(DescsDiscovered(m, ok)) /\ Ends(DescsDiscovered(m, ok))
<1> DEFINE W == WithDescs(m)
           chars == Chars(m)
           l == Layout(m)
<1>1. /\ m.db.srv \in 1 .. MaxUsers /\ m.db.srv \in 1 .. Len(reg)
      /\ chars \in FoundChars /\ Len(chars) \in Nat /\ Len(chars) <= MaxChars
      /\ l \in Seq({"service", "decl", "value", "cccd", "desc", "custom"}) /\ Len(l) \in Nat
  <2>1. m.db.srv \in 1 .. MaxUsers /\ m.db.srv \in 1 .. Len(reg) /\ chars \in FoundChars
    BY DiscoveryAssumption DEF Going, Registered, Records, Databases, Chars
  <2>2. l \in Seq({"service", "decl", "value", "cccd", "desc", "custom"})
    BY <2>1, LayoutIsSeq DEF Layout
  <2> QED BY <2>1, <2>2 DEF FoundChars
<1>2. \A i \in 1 .. Len(chars) :
        /\ chars[i].decl \in Nat /\ chars[i].value \in Nat
        /\ DescRange(m, i) = [from |-> chars[i].value + 1, to |-> RangeEnd(chars, l, i)]
        /\ RangeEnd(chars, l, i) \in Int
  <2> SUFFICES ASSUME NEW i \in 1 .. Len(chars)
               PROVE  /\ chars[i].decl \in Nat /\ chars[i].value \in Nat
                      /\ DescRange(m, i) = [from |-> chars[i].value + 1,
                                            to |-> RangeEnd(chars, l, i)]
                      /\ RangeEnd(chars, l, i) \in Int
    OBVIOUS
  <2>1. \A j \in 1 .. Len(chars) : chars[j] \in [decl : Nat, value : Nat, cccd : Nat]
    <3>1. chars \in Seq([decl : Nat, value : Nat, cccd : Nat])
      BY <1>1 DEF FoundChars
    <3> QED BY <3>1, ElementOfSeq
  <2>2. i = Len(chars) \/ i + 1 \in 1 .. Len(chars)
    BY <1>1
  <2>3. DescRange(m, i) = [from |-> chars[i].value + 1, to |-> RangeEnd(chars, l, i)]
    BY DEF DescRange, RangeEnd, AllFound, Chars
  <2> QED BY <1>1, <2>1, <2>2, <2>3 DEF RangeEnd
<1>3. \A i \in 1 .. Len(chars) : i >= m.db.char /\ i \notin W =>
         CccdAmong(l, OwnDescs(chars, l, i)) = 0
  <2> SUFFICES ASSUME NEW i \in 1 .. Len(chars), i >= m.db.char, i \notin W
               PROVE  CccdAmong(l, OwnDescs(chars, l, i)) = 0
    OBVIOUS
  <2>1. i \in m.db.char .. Len(chars)
    BY <1>1
  <2>2. ~(chars[i].value + 1 <= RangeEnd(chars, l, i))
    BY <1>2, <2>1 DEF WithDescs, Chars
  <2>3. chars[i].value + 1 .. RangeEnd(chars, l, i) = {}
    BY <1>2, <2>2
  <2> QED BY <2>3 DEF CccdAmong, OwnDescs
<1>4. CASE W = {}
  <2>1. DescsDiscovered(m, ok) = Completed(m, "complete", ok)
    BY <1>4 DEF DescsDiscovered
  <2>2. \A i \in 1 .. Len(chars) :
           MayHold(chars, l, i, chars[i].cccd)
    BY <1>1, <1>3, <1>4 DEF Configured, Bare, MayHold
  <2>4. DOMAIN chars = 1 .. Len(chars)
    BY <1>1 DEF FoundChars
  <2>7. Listing(chars, l) /\ (Fits => Lists(chars, l, Len(l)))
    BY DEF AllFound
  <2>8. DeclsOf(chars) \subseteq Decls(l, 1, Len(l))
    BY ONLY <2>4, <2>7 DEF Listing, DeclsOf
  <2>3. Fits => DeclsOf(chars) = Decls(l, 1, Len(l))
    BY ONLY <2>7, <2>8 DEF Lists
  <2>5. Fits => Describes(chars, l)
    BY <2>2, <2>3, <2>4 DEF Describes, AllFound, Listing, MayHold
  <2>6. MayTell(m, "complete")
    BY <2>5 DEF MayTell, RightOf, Layout
  <2> QED BY <2>1, <2>6, CompletedOutcome DEF EventType
<1>5. CASE W # {}
  <2>1. W \subseteq Nat
    BY <1>1 DEF WithDescs
  <2>2. PICK i \in W : \A j \in W : i <= j
    BY <1>5, <2>1, LeastNatural
  <2>3. (CHOOSE k \in W : \A j \in W : k <= j) = i
    BY <2>1, <2>2
  <2> DEFINE a == [m EXCEPT !.db.char = i]
             r == [kind |-> "descs", from |-> DescRange(m, i).from, to |-> DescRange(m, i).to]
  <2>4. DescsDiscovered(m, ok) = Asked(a, r, ok)
    BY <1>5, <2>3 DEF DescsDiscovered
  <2>5. /\ i \in 1 .. Len(chars) /\ i \in 1 .. MaxChars + 1 /\ i >= m.db.char
    BY <1>1, DiscoveryAssumption DEF WithDescs, Chars
  <2>6. /\ a \in Records /\ a.db = [m.db EXCEPT !.char = i] /\ a.made = m.made
        /\ a.pend = m.pend /\ a.told = m.told /\ a.req = NoRequest
        /\ a.db.busy /\ a.db.srv = m.db.srv /\ a.db.char = i /\ a.db.end = m.db.end
        /\ a.db.found = m.db.found
    BY <2>5 DEF Records, Databases
  <2> HIDE DEF a
  <2>7. Going(a)
    BY <2>6 DEF Going
  <2>8. Chars(a) = chars /\ Layout(a) = l
    BY <2>6 DEF Chars, Layout
  <2>9. AllFound(a)
    BY <2>6, <2>8 DEF AllFound
  <2>10. r.kind = "descs" /\ r.from = chars[i].value + 1 /\ r.to = RangeEnd(chars, l, i)
         /\ r \in Requests
    BY <1>2, <2>5 DEF Requests
  <2>11. Configured(chars, l, i)
    <3> SUFFICES ASSUME NEW j \in 1 .. Len(chars), j < i
                 PROVE  MayHold(chars, l, j, chars[j].cccd)
      BY DEF Configured
    <3>1. j \notin W
      BY <1>1, <2>1, <2>2
    <3> QED BY <1>1, <1>3, <3>1 DEF Configured, Bare, MayHold
  <2>12. Bare(chars, i)
    BY <1>1, <2>5 DEF Bare
  <2>13. Awaits(a, r)
    BY <2>5, <2>6, <2>8, <2>9, <2>10, <2>11, <2>12 DEF Awaits, AwaitsDescs
  <2>14. EventsRight(a.pend)
    BY <2>6
  <2> HIDE DEF r
  <2>15. a \in Records /\ a.db.busy /\ a.req = NoRequest
    BY <2>6
  <2>16. Sane(Asked(a, r, ok)) /\ Ends(Asked(a, r, ok))
    BY <2>7, <2>13, <2>14, <2>15, AskedOutcome
  <2> QED BY <2>4, <2>16
<1> HIDE DEF W
<1> QED BY <1>4, <1>5

(* A list cannot be longer than the service has characteristics, and one   *)
(* as long has them all.                                                   *)
LEMMA ListingBounded ==
  ASSUME NEW l, Len(l) \in Nat, NEW s \in Seq([decl : Nat, value : Nat, cccd : Nat]),
         Listing(s, l)
  PROVE  /\ Len(s) <= Cardinality(Decls(l, 1, Len(l)))
         /\ Cardinality(Decls(l, 1, Len(l))) \in Nat
         /\ Len(s) = Cardinality(Decls(l, 1, Len(l))) => Lists(s, l, Len(l))
<1> DEFINE D == Decls(l, 1, Len(l))
           n == Len(s)
           f == [i \in 1 .. n |-> s[i].decl]
<1>1. IsFiniteSet(D) /\ D \subseteq 1 .. Len(l)
  <2>1. 1 \in Int /\ Len(l) \in Int /\ D \in SUBSET (1 .. Len(l))
    BY DEF Decls
  <2>2. IsFiniteSet(1 .. Len(l))
    BY <2>1, FS_Interval
  <2> HIDE DEF D
  <2> QED BY <2>1, <2>2, FS_Subset
<1>2. n \in Nat /\ DOMAIN s = 1 .. n
  BY LenProperties
<1>3. f \in [1 .. n -> D]
  BY DEF Listing
<1>4. \A i, j \in 1 .. n : i < j => f[i] < f[j]
  BY <1>2 DEF Listing, InOrder
<1>5. f \in Injection(1 .. n, D)
  <2> SUFFICES ASSUME NEW i \in 1 .. n, NEW j \in 1 .. n, f[i] = f[j]  PROVE i = j
    BY <1>3 DEF Injection, IsInjective
  <2> HIDE DEF f, D, n
  <2>1. f[i] \in Nat /\ f[j] \in Nat
    <3>1. f[i] \in D /\ f[j] \in D
      BY <1>3
    <3>2. D \subseteq Nat
      BY <1>1
    <3> QED BY <3>1, <3>2
  <2>2. i \in Nat /\ j \in Nat
    BY <1>2
  <2>3. ~(i < j) /\ ~(j < i)
    BY ONLY <1>4, <2>1, i \in 1 .. n, j \in 1 .. n, f[i] = f[j]
  <2> QED BY ONLY <2>2, <2>3
<1>6. Cardinality(1 .. n) = n
  <2> HIDE DEF n
  <2>1. 1 \in Int /\ n \in Int
    BY <1>2
  <2>2. Cardinality(1 .. n) = IF 1 > n THEN 0 ELSE n - 1 + 1
    BY <2>1, FS_Interval
  <2> QED BY <1>2, <2>2
<1>7. n <= Cardinality(D) /\ (n = Cardinality(D) => f \in Surjection(1 .. n, D))
  BY <1>1, <1>5, <1>6, FS_Injection
<1>8. f \in Surjection(1 .. n, D) => Lists(s, l, Len(l))
  <2> SUFFICES ASSUME f \in Surjection(1 .. n, D), NEW d \in D
               PROVE  d \in DeclsOf(s)
    BY DEF Lists
  <2>1. PICK i \in 1 .. n : f[i] = d
    BY DEF Surjection
  <2> QED BY <1>2, <2>1 DEF DeclsOf
<1>9. Cardinality(D) \in Nat
  BY <1>1, FS_CardinalityType
<1> QED BY <1>7, <1>8, <1>9

(* A response to a request that starts behind what is listed extends the   *)
(* list without a gap.                                                     *)
LEMMA GotExtends ==
  ASSUME NEW l \in Seq({"service", "decl", "value", "cccd", "desc", "custom"}),
         \A h \in 1 .. Len(l) : l[h] = "decl" => h < Len(l) /\ l[h + 1] = "value",
         NEW s \in Seq([decl : Nat, value : Nat, cccd : Nat]),
         Listing(s, l), Bare(s, 1), NEW from \in Nat \ {0}, Lists(s, l, from - 1),
         \A i \in 1 .. Len(s) : s[i].decl < from,
         NEW got \in CharsIn(l, from, Len(l))
  PROVE  LET both == s \o got
         IN  /\ both \in Seq([decl : Nat, value : Nat, cccd : Nat])
             /\ Len(both) = Len(s) + Len(got) /\ Len(got) \in Nat
             /\ Listing(both, l) /\ Bare(both, 1)
             /\ got = <<>> => Lists(both, l, Len(l))
             /\ got # <<>> => /\ Len(got) > 0
                              /\ both[Len(both)].value < Len(l) =>
                                    Lists(both, l, both[Len(both)].value)
                              /\ both[Len(both)].value >= Len(l) => Lists(both, l, Len(l))
<1> DEFINE C == [decl : Nat, value : Nat, cccd : Nat]
           all == Decls(l, from, Len(l))
           both == s \o got
           n == Len(s)
           k == Len(got)
<1>1. Len(l) \in Nat /\ DOMAIN l = 1 .. Len(l) /\ n \in Nat /\ DOMAIN s = 1 .. n
  BY LenProperties
<1>2. /\ all \subseteq Nat /\ \A h \in all : h >= from /\ h \in 1 .. Len(l) /\ l[h] = "decl"
  BY <1>1 DEF Decls
<1>3. {Characteristic(h) : h \in all} \subseteq C
  BY <1>2 DEF Characteristic
<1>4. PICK b \in 0 .. Batch : got \in [1 .. b -> {Characteristic(h) : h \in all}]
  BY DEF CharsIn, SeqOf
<1>5. b \in Nat
  BY DiscoveryAssumption
<1>6. got \in Seq(C) /\ k = b /\ k \in Nat /\ DOMAIN got = 1 .. k
  <2>1. got \in [1 .. b -> C]
    BY <1>3, <1>4
  <2>2. got \in Seq(C)
    <3> HIDE DEF C
    <3> QED BY <1>5, <2>1, SeqDef
  <2> QED BY <1>5, <2>1, <2>2, LenProperties
<1>7. /\ InOrder(got) /\ (all # {} => got # <<>>)
      /\ \A h \in all : \A g \in DeclsOf(got) : h <= g => h \in DeclsOf(got)
  BY DEF CharsIn
<1>8. \A i \in 1 .. k : /\ got[i].decl \in all /\ got[i].value = got[i].decl + 1
                        /\ got[i].cccd = 0
  BY <1>4, <1>6 DEF Characteristic
<1>9. /\ both \in Seq(C) /\ Len(both) = n + k /\ DOMAIN both = 1 .. n + k
      /\ \A i \in 1 .. n : both[i] = s[i]
      /\ \A i \in 1 .. k : both[n + i] = got[i]
  <2>1. both \in Seq(C) /\ Len(both) = n + k
    BY <1>6, ConcatProperties
  <2>2. \A i \in 1 .. n + k : both[i] = IF i <= n THEN s[i] ELSE got[i - n]
    BY <1>6, ConcatProperties
  <2>3. \A i \in 1 .. n : both[i] = s[i]
    BY <1>1, <1>6, <2>2
  <2>4. \A i \in 1 .. k : both[n + i] = got[i]
    BY <1>1, <1>6, <2>2
  <2> QED BY <2>1, <2>3, <2>4, LenProperties
<1>10. \A i \in 1 .. n + k : i \in 1 .. n \/ (i - n \in 1 .. k /\ i = n + (i - n))
  BY <1>1, <1>6
<1>11. all \subseteq Decls(l, 1, Len(l))
  BY <1>1, <1>2 DEF Decls
<1>12. \A i \in 1 .. n + k : /\ both[i].decl \in Decls(l, 1, Len(l))
                             /\ both[i].value = both[i].decl + 1 /\ both[i].cccd = 0
  <2> HIDE DEF both, all
  <2> SUFFICES ASSUME NEW i \in 1 .. n + k
               PROVE  /\ both[i].decl \in Decls(l, 1, Len(l))
                      /\ both[i].value = both[i].decl + 1 /\ both[i].cccd = 0
    OBVIOUS
  <2>1. CASE i \in 1 .. n
    <3>1. both[i] = s[i] /\ s[i].cccd = 0
      <4>1. i >= 1 /\ i \in 1 .. Len(s)
        BY <2>1
      <4>2. s[i].cccd = 0
        BY <4>1 DEF Bare
      <4> QED BY <1>9, <2>1, <4>2
    <3>2. s[i].decl \in Decls(l, 1, Len(l)) /\ s[i].value = s[i].decl + 1
      BY <2>1 DEF Listing
    <3> QED BY <3>1, <3>2
  <2>2. CASE i - n \in 1 .. k /\ i = n + (i - n)
    <3>1. both[i] = got[i - n]
      BY <1>9, <2>2
    <3> QED BY <1>8, <1>11, <2>2, <3>1
  <2> QED BY <1>10, <2>1, <2>2
<1>13. InOrder(both)
  <2> HIDE DEF both, all
  <2> SUFFICES ASSUME NEW i \in 1 .. n + k, NEW j \in 1 .. n + k, i < j
               PROVE  both[i].decl < both[j].decl
    BY <1>9 DEF InOrder
  <2>1. CASE i \in 1 .. n /\ j \in 1 .. n
    BY <1>1, <1>9, <2>1 DEF Listing, InOrder
  <2>2. CASE i \in 1 .. n /\ j - n \in 1 .. k /\ j = n + (j - n)
    <3>1. both[j] = got[j - n] /\ both[i] = s[i]
      BY <1>9, <2>2
    <3>2. s[i].decl < from /\ got[j - n].decl >= from /\ got[j - n].decl \in Nat
      BY <1>2, <1>8, <2>2
    <3>3. s[i].decl \in Nat
      <4>1. s \in Seq(C)
        OBVIOUS
      <4>2. s[i] \in C
        <5> HIDE DEF C
        <5> QED BY <2>2, <4>1, ElementOfSeq
      <4> QED BY <4>2
    <3>4. \A x, y \in Nat : x < from /\ y >= from => x < y
      OBVIOUS
    <3> QED BY <3>1, <3>2, <3>3, <3>4
  <2>3. CASE i - n \in 1 .. k /\ i = n + (i - n) /\ j - n \in 1 .. k /\ j = n + (j - n)
    <3>1. both[j] = got[j - n] /\ both[i] = got[i - n]
      BY <1>9, <2>3
    <3>2. i - n < j - n
      BY <1>1
    <3> QED BY <1>6, <1>7, <2>3, <3>1, <3>2 DEF InOrder
  <2>4. CASE i \notin 1 .. n /\ j \in 1 .. n
    BY <1>1, <2>4
  <2> QED BY <1>10, <2>1, <2>2, <2>3, <2>4
<1>14. Listing(both, l) /\ Bare(both, 1)
  <2> HIDE DEF both
  <2> QED BY <1>9, <1>12, <1>13 DEF Listing, Bare
<1>15. \A h \in Decls(l, 1, from - 1) : h \in DeclsOf(both)
  <2> HIDE DEF both
  <2> SUFFICES ASSUME NEW h \in Decls(l, 1, from - 1) PROVE h \in DeclsOf(both)
    OBVIOUS
  <2>1. PICK i \in 1 .. n : s[i].decl = h
    BY <1>1 DEF Lists, DeclsOf
  <2>2. i \in 1 .. n + k /\ both[i].decl = h
    <3>1. i \in 1 .. n + k
      <4> HIDE DEF n, k
      <4> QED BY <1>1, <1>6
    <3> QED BY <1>9, <2>1, <3>1
  <2> QED BY <1>9, <2>2 DEF DeclsOf
<1>16. \A h \in DeclsOf(got) : h \in DeclsOf(both)
  <2> HIDE DEF both
  <2> SUFFICES ASSUME NEW h \in DeclsOf(got) PROVE h \in DeclsOf(both)
    OBVIOUS
  <2>1. PICK i \in 1 .. k : got[i].decl = h
    BY <1>6 DEF DeclsOf
  <2>2. n + i \in 1 .. n + k /\ both[n + i].decl = h
    <3>1. n + i \in 1 .. n + k
      <4> HIDE DEF n, k
      <4> QED BY <1>1, <1>6
    <3> QED BY <1>9, <2>1, <3>1
  <2> QED BY <1>9, <2>2 DEF DeclsOf
<1>17. \A h \in Decls(l, 1, Len(l)) : h \in Decls(l, 1, from - 1) \/ h \in all
  BY <1>1 DEF Decls
<1>18. got = <<>> => Lists(both, l, Len(l))
  BY <1>7, <1>15, <1>17 DEF Lists
<1>19. ASSUME got # <<>>
       PROVE  /\ k > 0
              /\ both[n + k].value < Len(l) => Lists(both, l, both[n + k].value)
              /\ both[n + k].value >= Len(l) => Lists(both, l, Len(l))
  <2> HIDE DEF both, all
  <2>1. k > 0 /\ k \in 1 .. k
    BY <1>6, <1>19, EmptySeq
  <2>2. both[n + k] = got[k]
    BY <1>9, <2>1
  <2> DEFINE g == got[k].decl
  <2>3. /\ g \in all /\ g \in DeclsOf(got) /\ got[k].value = g + 1
        /\ g \in 1 .. Len(l) /\ l[g] = "decl" /\ g < Len(l) /\ l[g + 1] = "value"
    BY <1>1, <1>2, <1>6, <1>8, <2>1 DEF DeclsOf
  <2>4. \A h \in Decls(l, 1, Len(l)) : h <= g + 1 => h \in DeclsOf(both)
    <3> SUFFICES ASSUME NEW h \in Decls(l, 1, Len(l)), h <= g + 1
                 PROVE  h \in DeclsOf(both)
      OBVIOUS
    <3>1. h # g + 1
      BY <2>3 DEF Decls
    <3>2. h <= g
      <4>1. h \in Nat /\ g \in Nat
        BY <1>1, <2>3 DEF Decls
      <4> HIDE DEF g
      <4> QED BY ONLY <3>1, <4>1, h <= g + 1
    <3> QED BY <1>7, <1>15, <1>16, <1>17, <2>3, <3>2
  <2>5. g + 1 <= Len(l)
    BY <1>1, <2>3
  <2>6. Lists(both, l, g + 1)
    <3>1. \A h \in Decls(l, 1, g + 1) : h \in Decls(l, 1, Len(l)) /\ h <= g + 1
      BY <1>1, <2>3 DEF Decls
    <3> QED BY <2>4, <3>1 DEF Lists
  <2>7. g + 1 >= Len(l) => g + 1 = Len(l)
    BY <1>1, <2>3
  <2> HIDE DEF g
  <2> QED BY <2>1, <2>2, <2>3, <2>6, <2>7
<1>20. /\ both \in Seq(C) /\ Len(both) = n + k /\ k \in Nat
  BY <1>6, <1>9
<1>21. got # <<>> => /\ k > 0
                     /\ both[Len(both)].value < Len(l) => Lists(both, l, both[Len(both)].value)
                     /\ both[Len(both)].value >= Len(l) => Lists(both, l, Len(l))
  BY <1>19, <1>20
<1>22. Len(both) = Len(s) + Len(got) /\ Len(got) \in Nat /\ (got # <<>> => Len(got) > 0)
  BY <1>20, <1>21
<1>23. both \in Seq(C)
  BY <1>20
<1> HIDE DEF n, k, all
<1> QED BY <1>14, <1>18, <1>21, <1>22, <1>23

-----------------------------------------------------------------------------
\* Service discovery: the handlers.

(* While a request is outstanding the discovery goes on. *)
LEMMA WhileAsking ==
  ASSUME DiscoveryInv, req.kind \in {"service", "chars", "descs"}
  PROVE  /\ Registered /\ ready /\ up
         /\ Now \in Records /\ Now.pend = pend /\ Now.made = made /\ Now.db = db
         /\ Now.req = NoRequest /\ Now.told = told
         /\ Going(Now) /\ Now.db.busy /\ EventsRight(Now.pend)
         /\ Awaits(Now, req)
         /\ Chars(Now) = db.found[db.srv] /\ Layout(Now) = peer[reg[db.srv]]
         /\ db.srv \in 1 .. Len(reg) /\ db.srv \in 1 .. MaxUsers
         /\ Chars(Now) \in FoundChars
         /\ db \in Databases /\ req \in Requests
<1>1. /\ Registered /\ Sane(Present)
      /\ Present.pend = pend /\ Present.made = made /\ Present.db = db
      /\ Present.req = req /\ Present.told = told
  BY DEF DiscoveryInv, Present
<1>2. req # NoRequest
  BY DEF NoRequest
<1>3. Present \in Records /\ db.busy /\ ready /\ up /\ Going(Present) /\ Awaits(Present, req)
      /\ EventsRight(pend)
  BY <1>1, <1>2 DEF Sane
<1>4. pend \in Events /\ made \in 0 .. MaxUsers /\ db \in Databases /\ told \in Events
      /\ req \in Requests
  BY <1>1, <1>2, <1>3 DEF Records
<1>5. /\ Now \in Records /\ Now.pend = pend /\ Now.made = made /\ Now.db = db
      /\ Now.req = NoRequest /\ Now.told = told
  BY <1>4 DEF Now, Records
<1>6. Going(Now)
  BY <1>1, <1>3, <1>5 DEF Going
<1>7. Awaits(Now, req)
  BY <1>1, <1>3, <1>5 DEF Awaits, AwaitsChars, AwaitsDescs, AllFound, Chars, Layout
<1>8. Chars(Now) = db.found[db.srv] /\ Layout(Now) = peer[reg[db.srv]]
  BY <1>5 DEF Chars, Layout
<1>9. db.srv \in 1 .. MaxUsers /\ db.found \in [1 .. MaxUsers -> FoundChars]
  BY <1>4 DEF Databases
<1>10. db.srv \in 1 .. Len(reg)
  <2>1. db.srv <= Len(reg)
    BY <1>5, <1>6 DEF Going
  <2> QED BY <1>1, <1>9, <2>1 DEF Registered
<1> QED BY <1>1, <1>3, <1>4, <1>5, <1>6, <1>7, <1>8, <1>9, <1>10

(* The service is found, or the peer does not have it. *)
LEMMA ServiceOutcome ==
  ASSUME DiscoveryInv, NEW ok \in BOOLEAN, OnService(ok)
  PROVE  \E m : Becomes(m) /\ Sane(m) /\ Ends(m)
<1> DEFINE l == peer[reg[db.srv]]
           m == [Now EXCEPT !.db.end = Len(l)]
<1>1. req.kind = "service" /\ Becomes(IF l = <<>> THEN Completed(Now, "not found", ok)
                                      ELSE Asked(m, CharsRequest(m), ok))
  BY DEF OnService
<1>2. /\ Registered /\ ready /\ up /\ Now \in Records /\ Now.req = NoRequest
      /\ Going(Now) /\ Now.db.busy /\ EventsRight(Now.pend) /\ Awaits(Now, req)
      /\ Now.db = db /\ Chars(Now) = db.found[db.srv] /\ Layout(Now) = l
      /\ db.srv \in 1 .. Len(reg) /\ db \in Databases
  BY <1>1, WhileAsking
<1>3. CASE l = <<>>
  <2>1. MayTell(Now, "not found")
    BY <1>2, <1>3 DEF MayTell, RightOf, Layout
  <2>2. Sane(Completed(Now, "not found", ok)) /\ Ends(Completed(Now, "not found", ok))
    BY <1>2, <2>1, CompletedOutcome DEF EventType
  <2> QED BY <1>1, <1>3, <2>2
<1>4. CASE l # <<>>
  <2> DEFINE r == CharsRequest(m)
  <2>1. l \in Seq({"service", "decl", "value", "cccd", "desc", "custom"}) /\ Len(l) \in Nat
    BY <1>2, LayoutIsSeq
  <2>2. Chars(Now) = <<>> /\ db.char = 1
    BY <1>1, <1>2 DEF Awaits
  <2>3. /\ m.db = [db EXCEPT !.end = Len(l)] /\ m.made = Now.made /\ m.pend = Now.pend
        /\ m.told = Now.told /\ m.req = NoRequest
    BY <1>2 DEF Records
  <2>4. m.db \in Databases /\ m.db.srv = db.srv /\ m.db.found = db.found /\ m.db.char = db.char
        /\ m.db.end = Len(l) /\ m.db.busy
    BY <1>2, <2>1, <2>3 DEF Databases
  <2>5. m \in Records
    BY <1>2, <2>4 DEF Records
  <2>6. r = [kind |-> "chars", to |-> Len(l), from |-> 1]
    BY <2>2, <2>4 DEF CharsRequest
  <2> HIDE DEF m, r, l
  <2>7. Going(m)
    BY <1>2, <2>3, <2>4 DEF Going
  <2>8. Chars(m) = <<>> /\ Layout(m) = l
    BY <1>2, <2>2, <2>4 DEF Chars, Layout
  <2>9. AwaitsChars(m, r)
    <3>1. Decls(l, 1, r.from - 1) = {}
      <4>1. r.from - 1 = 0 /\ 1 .. 0 = {}
        BY <2>6
      <4> QED BY <4>1 DEF Decls
    <3>2. Listing(<<>>, l) /\ Bare(<<>>, 1) /\ Lists(<<>>, l, r.from - 1)
      BY <3>1 DEF Listing, InOrder, Bare, Lists
    <3>3. Len(<<>>) = 0 /\ 0 < MaxChars
      BY DiscoveryAssumption
    <3> QED BY <2>2, <2>4, <2>6, <2>8, <3>2, <3>3 DEF AwaitsChars
  <2>10. Awaits(m, r)
    BY <2>1, <2>6, <2>9 DEF Awaits, Requests
  <2>11. EventsRight(m.pend)
    BY <1>2, <2>3
  <2>12. Sane(Asked(m, r, ok)) /\ Ends(Asked(m, r, ok))
    BY <1>2, <2>3, <2>4, <2>5, <2>7, <2>10, <2>11, AskedOutcome
  <2> QED BY <1>1, <1>4, <2>12 DEF r
<1> QED BY <1>3, <1>4

(* The first handle of a range that holds a descriptor, or none. *)
LEMMA CccdIsFirst ==
  ASSUME NEW l, NEW H \in SUBSET Nat
  PROVE  LET S == {h \in H : l[h] = "cccd"}
             d == CccdAmong(l, H)
         IN  /\ d \in Nat /\ (S = {} => d = 0)
             /\ S # {} => d \in S /\ \A g \in S : d <= g
<1> DEFINE S == {h \in H : l[h] = "cccd"}
<1>1. S \in SUBSET Nat
  OBVIOUS
<1>2. CASE S = {}
  BY <1>2 DEF CccdAmong
<1>3. CASE S # {}
  <2>1. CccdAmong(l, H) = CHOOSE h \in S : \A g \in S : h <= g
    BY <1>3 DEF CccdAmong
  <2> HIDE DEF S
  <2>2. \E h \in S : \A g \in S : h <= g
    BY <1>1, <1>3, LeastNatural
  <2>3. CccdAmong(l, H) \in S /\ \A g \in S : CccdAmong(l, H) <= g
    BY <2>1, <2>2
  <2>4. CccdAmong(l, H) \in Nat
    BY <1>1, <2>3
  <2> QED BY <1>3, <2>3, <2>4 DEF S
<1> QED BY <1>2, <1>3

(* The first response to a request for descriptors shows the first that    *)
(* configures or none, and none only if it does not hold the whole range.  *)
LEMMA FirstResponse ==
  ASSUME NEW l, NEW from \in Nat, NEW to \in Int
  PROVE  LET d == CccdAmong(l, DescsIn(l, from, to))
         IN  /\ d \in Nat
             /\ \/ d = CccdAmong(l, from .. to)
                \/ /\ d = 0 /\ ~(to <= from)
                   /\ ~(/\ to - from < DescBatch
                        /\ \A h \in from .. to : l[h] # "custom")
<1> DEFINE D == DescsIn(l, from, to)
           S == {h \in D : l[h] = "cccd"}
           T == {h \in from .. to : l[h] = "cccd"}
<1>1. D \in SUBSET Nat /\ D \subseteq from .. to /\ from .. to \in SUBSET Nat
  BY DEF DescsIn
<1>2. DescBatch \in Nat \ {0}
  BY DiscoveryAssumption
<1>3. CccdAmong(l, D) \in Nat
  BY <1>1, CccdIsFirst
<1>4. CASE to <= from \/ (to - from < DescBatch /\ \A h \in from .. to : l[h] # "custom")
  <2>1. ASSUME NEW h \in from .. to PROVE h \in D
    <3>1. CASE to <= from
      <4>1. h = from
        BY <3>1
      <4>2. from .. h = {from}
        BY <4>1
      <4> QED BY <1>2, <4>1, <4>2 DEF DescsIn
    <3>2. CASE to - from < DescBatch /\ \A g \in from .. to : l[g] # "custom"
      <4>1. from \in from .. to /\ \A g \in from .. h : g \in from .. to
        OBVIOUS
      <4>2. l[from] # "custom" /\ \A g \in from .. h : l[g] # "custom"
        BY <3>2, <4>1
      <4>3. h - from < DescBatch
        BY <1>2, <3>2
      <4> QED BY <4>2, <4>3 DEF DescsIn
    <3> QED BY <1>4, <3>1, <3>2
  <2>2. D = from .. to
    BY <1>1, <2>1
  <2> HIDE DEF D
  <2> QED BY <1>3, <2>2 DEF D
<1>5. CASE S = {} /\ ~(to <= from)
           /\ ~(to - from < DescBatch /\ \A h \in from .. to : l[h] # "custom")
  <2> HIDE DEF D
  <2>1. CccdAmong(l, D) = 0
    BY <1>1, <1>5, CccdIsFirst
  <2> QED BY <1>3, <1>5, <2>1 DEF D
<1>6. CASE S # {}
  <2> DEFINE d == CccdAmong(l, D)
             e == CccdAmong(l, from .. to)
  <2> HIDE DEF D
  <2>1. d \in S /\ (\A g \in S : d <= g)
    BY <1>1, <1>6, CccdIsFirst
  <2>2. S \subseteq T /\ T # {}
    BY <1>1, <1>6
  <2>3. e \in T /\ (\A g \in T : e <= g)
    BY <1>1, <2>2, CccdIsFirst
  <2> HIDE DEF d, e
  <2>4. d \in D /\ d \in from .. to /\ e \in from .. to /\ e <= d /\ l[e] = "cccd"
    BY <1>1, <2>1, <2>2, <2>3
  <2>5. e \in D
    <3>1. e - from <= d - from
      BY <2>4
    <3>2. \A g \in from .. e : g \in from .. d
      BY <2>4
    <3>3. /\ d - from < (IF l[from] = "custom" THEN 1 ELSE DescBatch)
          /\ \A g \in from .. d : l[g] = "custom" <=> l[from] = "custom"
      BY <2>4 DEF D, DescsIn
    <3>4. e - from < (IF l[from] = "custom" THEN 1 ELSE DescBatch)
      BY <1>2, <2>4, <3>1, <3>3
    <3> QED BY <2>4, <3>2, <3>3, <3>4 DEF D, DescsIn
  <2>6. e \in S
    BY <2>4, <2>5
  <2>7. d = e
    BY <2>1, <2>4, <2>6
  <2> QED BY <1>3, <2>7 DEF d, e, D
<1> QED BY <1>4, <1>5, <1>6

(* A beginning of a list is a list, and the whole of one is all of it. *)
LEMMA ListingCut ==
  ASSUME NEW s \in Seq([decl : Nat, value : Nat, cccd : Nat]), NEW l,
         Listing(s, l), Bare(s, 1), NEW k \in 0 .. Len(s)
  PROVE  /\ SubSeq(s, 1, k) \in Seq([decl : Nat, value : Nat, cccd : Nat])
         /\ Len(SubSeq(s, 1, k)) = k
         /\ Listing(SubSeq(s, 1, k), l) /\ Bare(SubSeq(s, 1, k), 1)
         /\ k = Len(s) => SubSeq(s, 1, k) = s
<1> DEFINE C == [decl : Nat, value : Nat, cccd : Nat]
           c == SubSeq(s, 1, k)
<1>1. s \in Seq(C) /\ Len(s) \in Nat /\ DOMAIN s = 1 .. Len(s)
  BY LenProperties
<1>2. /\ c \in Seq(C) /\ Len(c) = k /\ DOMAIN c = 1 .. k
      /\ \A i \in 1 .. k : c[i] = s[i] /\ i \in 1 .. Len(s)
  <2> HIDE DEF C
  <2>1. \A i \in 1 .. k : s[i] \in C /\ i \in 1 .. Len(s)
    BY <1>1, ElementOfSeq
  <2>2. k \in Nat /\ 1 \in 1 .. Len(s) + 1 /\ k \in 1 - 1 .. Len(s) /\ k - 1 + 1 = k
    BY <1>1
  <2> HIDE DEF c
  <2>3. /\ c \in Seq(C) /\ Len(c) = k - 1 + 1
        /\ \A i \in 1 .. k - 1 + 1 : c[i] = s[1 + i - 1]
    <3>1. c = SubSeq(s, 1, k)
      BY DEF c
    <3> QED BY ONLY <1>1, <2>2, <3>1, SubSeqProperties
  <2>4. \A i \in 1 .. k : 1 + i - 1 = i
    BY <2>2
  <2>5. c \in Seq(C) /\ Len(c) = k /\ \A i \in 1 .. k : c[i] = s[i]
    BY <2>2, <2>3, <2>4
  <2>6. DOMAIN c = 1 .. k
    BY <2>5, LenProperties
  <2> QED BY <2>1, <2>5, <2>6
<1>3. Listing(c, l) /\ Bare(c, 1)
  <2> HIDE DEF c
  <2>1. \A i \in 1 .. k : i >= 1 => c[i].cccd = 0
    BY <1>2 DEF Bare
  <2>2. \A i \in 1 .. k : c[i].decl \in Decls(l, 1, Len(l)) /\ c[i].value = c[i].decl + 1
    BY <1>2 DEF Listing
  <2>3. InOrder(c)
    BY <1>1, <1>2 DEF Listing, InOrder
  <2> QED BY <1>2, <2>1, <2>2, <2>3 DEF Listing, Bare
<1>4. k = Len(s) => c = s
  BY <1>1, SubSeqFull
<1> QED BY <1>2, <1>3, <1>4

(* What a response says of characteristics, and what is asked next. *)
LEMMA CharsOutcome ==
  ASSUME DiscoveryInv, NEW ok \in BOOLEAN, OnChars(ok)
  PROVE  \E m : Becomes(m) /\ Sane(m) /\ Ends(m)
<1> DEFINE C == [decl : Nat, value : Nat, cccd : Nat]
           l == peer[reg[db.srv]]
<1>1. /\ Registered /\ ready /\ up /\ Now \in Records /\ Now.req = NoRequest
      /\ Now.pend = pend /\ Now.made = made /\ Now.told = told
      /\ Going(Now) /\ Now.db.busy /\ EventsRight(Now.pend) /\ AwaitsChars(Now, req)
      /\ Now.db = db /\ Chars(Now) = Found /\ Layout(Now) = l
      /\ db.srv \in 1 .. Len(reg) /\ db.srv \in 1 .. MaxUsers /\ db \in Databases
      /\ Found \in FoundChars
  BY WhileAsking DEF OnChars, Awaits, Found
<1>2. /\ l \in Seq({"service", "decl", "value", "cccd", "desc", "custom"}) /\ Len(l) \in Nat
      /\ l \in Layouts
      /\ \A h \in 1 .. Len(l) : l[h] = "decl" => h < Len(l) /\ l[h + 1] = "value"
  BY <1>1, LayoutIsSeq
<1>3. /\ db.end = Len(l) /\ req.to = Len(l) /\ Listing(Found, l) /\ Bare(Found, 1)
      /\ Lists(Found, l, req.from - 1) /\ req.from \in Nat \ {0}
      /\ \A i \in 1 .. Len(Found) : Found[i].decl < req.from
      /\ Len(Found) < MaxChars
  BY <1>1 DEF AwaitsChars
<1>4. Found \in Seq(C) /\ Len(Found) \in Nat
  BY <1>1 DEF FoundChars
<1>5. PICK got \in CharsIn(l, req.from, req.to) :
         LET chars == LET both == Found \o got
                      IN  SubSeq(both, 1, IF Len(both) <= MaxChars THEN Len(both)
                                          ELSE MaxChars)
             m == [Now EXCEPT !.db.found[db.srv] = chars]
             more == Last(chars).value < db.end /\ Len(chars) # MaxChars
             next == [m EXCEPT !.db.char = Len(chars) + 1]
         IN  Becomes(IF got # <<>> /\ more THEN Asked(next, CharsRequest(next), ok)
                     ELSE DescsDiscovered([m EXCEPT !.db.char = 1], ok))
  BY DEF OnChars
<1> DEFINE both == Found \o got
           k == IF Len(both) <= MaxChars THEN Len(both) ELSE MaxChars
           chars == SubSeq(both, 1, k)
<1>6. /\ both \in Seq(C) /\ Len(both) = Len(Found) + Len(got) /\ Len(got) \in Nat
      /\ Listing(both, l) /\ Bare(both, 1)
      /\ got = <<>> => Lists(both, l, Len(l))
      /\ got # <<>> => /\ Len(got) > 0
                       /\ both[Len(both)].value < Len(l) =>
                             Lists(both, l, both[Len(both)].value)
                       /\ both[Len(both)].value >= Len(l) => Lists(both, l, Len(l))
  <2>1. got \in CharsIn(l, req.from, Len(l))
    BY <1>3
  <2> HIDE DEF l
  <2> QED BY <1>2, <1>3, <1>4, <2>1, GotExtends
<1>7. Len(both) \in Nat /\ k \in Nat /\ k \in 0 .. Len(both) /\ k <= MaxChars
      /\ (k = Len(both) \/ k = MaxChars) /\ MaxChars \in Nat \ {0}
  <2> HIDE DEF both
  <2>1. Len(both) \in Nat
    BY <1>4, <1>6
  <2>2. MaxChars \in Nat \ {0}
    BY DiscoveryAssumption
  <2> QED BY <2>1, <2>2
<1> HIDE DEF k
<1>8. /\ chars \in Seq(C) /\ Len(chars) = k /\ Listing(chars, l) /\ Bare(chars, 1)
      /\ (k = Len(both) => chars = both)
  <2> HIDE DEF both
  <2> QED BY <1>6, <1>7, ListingCut
<1>9. chars \in FoundChars
  <2> HIDE DEF chars
  <2> QED BY <1>7, <1>8 DEF FoundChars
<1> DEFINE m == [Now EXCEPT !.db.found[db.srv] = chars]
           next == [m EXCEPT !.db.char = k + 1]
           back == [m EXCEPT !.db.char = 1]
<1>10. Becomes(IF got # <<>> /\ Last(chars).value < db.end /\ k # MaxChars
               THEN Asked(next, CharsRequest(next), ok) ELSE DescsDiscovered(back, ok))
  <2>1. Len(chars) = k
    BY <1>8
  <2> QED BY <1>5, <2>1 DEF k
<1> HIDE DEF chars, both
<1>11. /\ m \in Records /\ m.made = made /\ m.pend = pend /\ m.told = told
       /\ m.req = NoRequest /\ m.db = [db EXCEPT !.found = [@ EXCEPT ![db.srv] = chars]]
  <2>1. m.db = [db EXCEPT !.found = [@ EXCEPT ![db.srv] = chars]]
    BY <1>1 DEF Records, Databases
  <2>2. [db.found EXCEPT ![db.srv] = chars] \in [1 .. MaxUsers -> FoundChars]
    BY <1>1, <1>9 DEF Databases
  <2>3. m.db \in Databases
    BY <1>1, <2>1, <2>2 DEF Databases
  <2> QED BY <1>1, <2>1, <2>3 DEF Records
<1> HIDE DEF m
<1>12. m.db.found[db.srv] = chars /\ m.db.srv = db.srv /\ m.db.end = Len(l) /\ m.db.busy
  <2>1. db.found \in [1 .. MaxUsers -> FoundChars]
    BY <1>1 DEF Databases
  <2>2. m.db.found = [db.found EXCEPT ![db.srv] = chars] /\ m.db.srv = db.srv
        /\ m.db.end = db.end /\ m.db.busy = db.busy
    BY <1>1, <1>11 DEF Databases
  <2>3. db.srv \in 1 .. MaxUsers
    BY <1>1 DEF Databases
  <2>4. m.db.found[db.srv] = chars
    BY ONLY <2>1, <2>2, <2>3
  <2> HIDE DEF l
  <2> QED BY ONLY <1>1, <1>3, <2>2, <2>4
<1>13. ASSUME NEW i \in 1 .. MaxChars + 1, NEW a, a = [m EXCEPT !.db.char = i]
       PROVE  /\ a \in Records /\ a.db.char = i /\ a.db.found[db.srv] = chars
              /\ a.db.end = Len(l) /\ a.db.busy /\ a.req = NoRequest /\ a.db.srv = db.srv
              /\ Going(a) /\ EventsRight(a.pend)
              /\ Chars(a) = chars /\ Layout(a) = l
  <2>1. /\ a.db = [m.db EXCEPT !.char = i] /\ a.made = made /\ a.pend = pend
        /\ a.told = told /\ a.req = NoRequest
    BY <1>11, <1>13 DEF Records
  <2>2. m.db \in Databases
    BY <1>11 DEF Records
  <2>3. a.db \in Databases /\ a.db.char = i /\ a.db.found = m.db.found /\ a.db.end = m.db.end
        /\ a.db.busy = m.db.busy /\ a.db.srv = m.db.srv
    BY <1>13, <2>1, <2>2 DEF Databases
  <2>4. a \in Records
    BY <1>11, <1>13, <2>1, <2>3 DEF Records
  <2>5. Going(a)
    BY <1>1, <1>12, <2>1, <2>3 DEF Going
  <2> QED BY <1>1, <1>12, <2>1, <2>3, <2>4, <2>5 DEF Chars, Layout
<1>14. CASE got # <<>> /\ Last(chars).value < db.end /\ k # MaxChars
  <2> DEFINE r == CharsRequest(next)
  <2>1. k = Len(both) /\ chars = both /\ k > 0 /\ k < MaxChars
    BY <1>4, <1>6, <1>7, <1>8, <1>14
  <2>2. Last(chars) = chars[k]
    BY <1>8 DEF Last
  <2>3. chars[k].value < Len(l) /\ Lists(chars, l, chars[k].value)
    BY <1>3, <1>6, <1>14, <2>1, <2>2
  <2>4. k + 1 \in 1 .. MaxChars + 1 /\ k \in 1 .. k /\ k + 1 - 1 = k /\ k + 1 # 1
    BY <1>7, <2>1
  <2>5. chars[k] \in C
    <3>1. chars \in Seq(C) /\ k \in 1 .. Len(chars)
      BY <1>8, <2>4
    <3> HIDE DEF C
    <3> QED BY <3>1, ElementOfSeq
  <2>6. /\ next \in Records /\ next.db.char = k + 1 /\ next.db.found[db.srv] = chars
        /\ next.db.end = Len(l) /\ next.db.busy /\ next.req = NoRequest
        /\ next.db.srv = db.srv /\ Going(next) /\ EventsRight(next.pend)
        /\ Chars(next) = chars /\ Layout(next) = l
    BY <1>13, <2>4
  <2> HIDE DEF next
  <2>7. r = [kind |-> "chars", to |-> Len(l), from |-> chars[k].value + 1]
    BY <2>4, <2>6 DEF CharsRequest
  <2>8. r.to = Len(l) /\ r.from = chars[k].value + 1 /\ r.kind = "chars" /\ r \in Requests
        /\ r.from \in Nat \ {0} /\ r.from - 1 = chars[k].value
    <3>1. chars[k].value \in Nat
      BY <2>5
    <3> QED BY <1>2, <2>7, <3>1 DEF Requests
  <2>9. \A i \in 1 .. k : chars[i].decl < r.from
    <3> SUFFICES ASSUME NEW i \in 1 .. k PROVE chars[i].decl < r.from
      OBVIOUS
    <3>1. chars[k].value = chars[k].decl + 1 /\ chars[k].decl \in Nat
      BY <1>8, <2>4, <2>5 DEF Listing
    <3>2. i = k \/ i < k
      BY <1>7
    <3>3. DOMAIN chars = 1 .. k
      BY <1>8
    <3>4. i < k => chars[i].decl < chars[k].decl
      BY <1>8, <2>4, <3>3 DEF Listing, InOrder
    <3>5. chars[i].decl \in Nat
      <4>1. chars[i].decl \in Decls(l, 1, Len(l))
        BY <1>8 DEF Listing
      <4> QED BY <1>2, <4>1 DEF Decls
    <3> QED BY <2>8, <3>1, <3>2, <3>4, <3>5
  <2> HIDE DEF r
  <2>10. AwaitsChars(next, r)
    BY <1>8, <2>1, <2>3, <2>6, <2>8, <2>9 DEF AwaitsChars
  <2>11. Awaits(next, r)
    BY <2>8, <2>10 DEF Awaits
  <2>12. Sane(Asked(next, r, ok)) /\ Ends(Asked(next, r, ok))
    BY <1>1, <2>6, <2>11, AskedOutcome
  <2> QED BY <1>10, <1>14, <2>12 DEF r
<1>15. CASE ~(got # <<>> /\ Last(chars).value < db.end /\ k # MaxChars)
  <2>1. 1 \in 1 .. MaxChars + 1
    BY <1>7
  <2>2. /\ back \in Records /\ back.db.char = 1
        /\ back.db.end = Len(l) /\ back.db.busy /\ back.req = NoRequest
        /\ Going(back) /\ EventsRight(back.pend)
        /\ Chars(back) = chars /\ Layout(back) = l
    BY <1>13, <2>1
  <2> HIDE DEF back
  <2>3. ASSUME Fits  PROVE Lists(chars, l, Len(l))
    <3>1. /\ Len(both) <= Cardinality(Decls(l, 1, Len(l)))
          /\ Cardinality(Decls(l, 1, Len(l))) \in Nat
          /\ Len(both) = Cardinality(Decls(l, 1, Len(l))) => Lists(both, l, Len(l))
      BY <1>2, <1>6, ListingBounded
    <3>2. Cardinality(Decls(l, 1, Len(l))) <= MaxChars
      BY <1>2, <2>3 DEF Fits
    <3>3. k = Len(both) /\ chars = both
      BY <1>7, <1>8, <3>1, <3>2
    <3>4. CASE got = <<>>
      BY <1>6, <3>3, <3>4
    <3>5. CASE k = MaxChars
      BY <1>7, <3>1, <3>2, <3>3, <3>5
    <3>6. CASE got # <<>> /\ ~(Last(chars).value < db.end)
      <4>1. k > 0 /\ k \in 1 .. Len(chars)
        BY <1>4, <1>6, <1>7, <1>8, <3>3, <3>6
      <4>2. chars[k].value \in Nat
        <5>1. chars[k] \in C
          <6>1. chars \in Seq(C)
            BY <1>8
          <6> HIDE DEF C
          <6> QED BY <4>1, <6>1, ElementOfSeq
        <5> QED BY <5>1
      <4>3. Last(chars) = chars[k]
        BY <1>8 DEF Last
      <4>4. chars[k].value >= Len(l)
        BY <1>2, <1>3, <3>6, <4>2, <4>3
      <4> QED BY <1>6, <3>3, <3>6, <4>4
    <3> QED BY <1>15, <3>4, <3>5, <3>6
  <2>4. AllFound(back)
    BY <1>8, <2>2, <2>3 DEF AllFound
  <2>5. Configured(Chars(back), Layout(back), back.db.char) /\ Bare(Chars(back), back.db.char)
    <3>1. \A i \in 1 .. Len(chars) : ~(i < 1)
      BY <1>7, <1>8
    <3> QED BY <1>8, <2>2, <3>1 DEF Configured
  <2>6. back.db.char \in Nat \ {0}
    BY <2>2
  <2>7. Sane(DescsDiscovered(back, ok)) /\ Ends(DescsDiscovered(back, ok))
    BY <1>1, <2>2, <2>4, <2>5, <2>6, DescsOutcome
  <2> QED BY <1>10, <1>15, <2>7 DEF back
<1> QED BY <1>14, <1>15

(* Indices of a list, and of the next in it. *)
LEMMA NextIndex ==
  ASSUME NEW n \in Nat, NEW i \in 1 .. n
  PROVE  /\ i = n \/ i + 1 \in 1 .. n
         /\ i + 1 \in Nat \ {0}
         /\ \A j \in 1 .. n : /\ j < i + 1 => (j = i \/ (j < i /\ j # i))
                              /\ j >= i + 1 => (j # i /\ j >= i)
                              /\ i = n => j < i + 1
         /\ \A m \in Nat : n <= m => i + 1 \in 1 .. m + 1
OBVIOUS

LEMMA FunctionIsSeq ==
  ASSUME NEW S, NEW n \in Nat, NEW f \in [1 .. n -> S]
  PROVE  f \in Seq(S) /\ Len(f) = n /\ DOMAIN f = 1 .. n
<1>1. f \in Seq(S)
  BY SeqDef
<1> QED BY <1>1, LenProperties

WithCccd(s, i, d) == [s EXCEPT ![i].cccd = d]

(* The descriptor that was asked for goes to the characteristic it is of. *)
LEMMA OwnDescriptor ==
  ASSUME NEW s \in Seq([decl : Nat, value : Nat, cccd : Nat]), NEW l, Len(l) \in Nat,
         NEW i \in 1 .. Len(s), Listing(s, l), Configured(s, l, i), Bare(s, i),
         NEW d \in Nat, MayHold(s, l, i, d),
         NEW c, c = WithCccd(s, i, d)
  PROVE  /\ c \in Seq([decl : Nat, value : Nat, cccd : Nat]) /\ Len(c) = Len(s)
         /\ Listing(c, l) /\ Configured(c, l, i + 1) /\ Bare(c, i + 1)
         /\ DeclsOf(c) = DeclsOf(s)
<1> DEFINE C == [decl : Nat, value : Nat, cccd : Nat]
           n == Len(s)
<1>0. c = [s EXCEPT ![i].cccd = d]
  BY DEF WithCccd
<1>1. n \in Nat /\ s \in [1 .. n -> C]
  BY LenProperties
<1>2. c \in [1 .. n -> C]
  <2>1. [s[i] EXCEPT !.cccd = d] \in C
    BY <1>1
  <2>2. c = [s EXCEPT ![i] = [s[i] EXCEPT !.cccd = d]]
    BY <1>0, <1>1
  <2> HIDE DEF C
  <2> QED BY <1>1, <2>1, <2>2
<1>3. c \in Seq(C) /\ Len(c) = n /\ DOMAIN c = 1 .. n
  <2> HIDE DEF C, n
  <2> QED BY ONLY <1>1, <1>2, FunctionIsSeq
<1>4. \A j \in 1 .. n : c[j].decl = s[j].decl /\ c[j].value = s[j].value
                        /\ c[j].cccd = IF j = i THEN d ELSE s[j].cccd
  <2>1. s[i] \in C
    BY <1>1
  <2>2. \A j \in 1 .. n : c[j] = IF j = i THEN [s[i] EXCEPT !.cccd = d] ELSE s[j]
    <3> HIDE DEF C
    <3> QED BY ONLY <1>0, <1>1
  <2>3. LET x == [s[i] EXCEPT !.cccd = d]
        IN  x.decl = s[i].decl /\ x.value = s[i].value /\ x.cccd = d
    BY ONLY <2>1
  <2> QED BY ONLY <2>2, <2>3
<1> HIDE DEF C
<1>5. \A j \in 1 .. n : RangeEnd(c, l, j) = RangeEnd(s, l, j)
  <2> SUFFICES ASSUME NEW j \in 1 .. n PROVE RangeEnd(c, l, j) = RangeEnd(s, l, j)
    OBVIOUS
  <2>1. j = n \/ j + 1 \in 1 .. n
    BY <1>1, NextIndex
  <2> QED BY <1>3, <1>4, <2>1 DEF RangeEnd
<1>6. DOMAIN s = 1 .. n
  BY <1>1
<1>7. DeclsOf(c) = DeclsOf(s)
  BY ONLY <1>3, <1>4, <1>6 DEF DeclsOf
<1>8. Listing(c, l)
  <2>1. Listing(s, l)
    OBVIOUS
  <2>2. InOrder(c)
    BY ONLY <1>3, <1>4, <1>6, <2>1 DEF Listing, InOrder
  <2>3. \A j \in 1 .. n : /\ c[j].decl \in Decls(l, 1, Len(l))
                         /\ c[j].value = c[j].decl + 1
    BY ONLY <1>4, <2>1 DEF Listing
  <2> QED BY ONLY <1>3, <2>2, <2>3 DEF Listing
<1>9. Configured(c, l, i + 1)
  <2> SUFFICES ASSUME NEW j \in 1 .. n, j < i + 1
               PROVE  MayHold(c, l, j, c[j].cccd)
    BY <1>3 DEF Configured
  <2>4. MayHold(s, l, j, c[j].cccd) => MayHold(c, l, j, c[j].cccd)
    BY <1>4, <1>5 DEF MayHold, OneResponse, OwnDescs
  <2>1. j = i \/ (j < i /\ j # i)
    <3>1. n \in Nat /\ i \in 1 .. n /\ j \in 1 .. n /\ j < i + 1
      BY <1>1
    <3> QED BY ONLY <3>1, NextIndex
  <2>2. CASE j = i
    BY <1>4, <2>2, <2>4
  <2>3. CASE j < i /\ j # i
    BY <1>4, <2>3, <2>4 DEF Configured
  <2> QED BY <2>1, <2>2, <2>3
<1>10. Bare(c, i + 1)
  <2> SUFFICES ASSUME NEW j \in 1 .. n, j >= i + 1 PROVE c[j].cccd = 0
    BY <1>3 DEF Bare
  <2>1. j # i /\ j >= i
    <3>1. n \in Nat /\ i \in 1 .. n /\ j \in 1 .. n /\ j >= i + 1
      BY <1>1
    <3> QED BY ONLY <3>1, NextIndex
  <2> QED BY <1>4, <2>1 DEF Bare
<1> QED BY <1>3, <1>7, <1>8, <1>9, <1>10 DEF C

Halfway(s, l, i) == /\ s \in Seq([decl : Nat, value : Nat, cccd : Nat])
                    /\ Listing(s, l) /\ Configured(s, l, i) /\ Bare(s, i)
OwnCccd(s, l, i) == CccdAmong(l, DescsIn(l, s[i].value + 1, RangeEnd(s, l, i)))

LEMMA OwnDescriptorSet ==
  ASSUME NEW s, NEW l, NEW i, Halfway(s, l, i), i \in 1 .. Len(s), Len(l) \in Nat,
         OwnCccd(s, l, i) \in Nat, s[i].value \in Nat, RangeEnd(s, l, i) \in Int
  PROVE  LET c == WithCccd(s, i, OwnCccd(s, l, i))
         IN  Halfway(c, l, i + 1) /\ Len(c) = Len(s) /\ DeclsOf(c) = DeclsOf(s)
<1> DEFINE d == OwnCccd(s, l, i)
           c == WithCccd(s, i, d)
<1>1. /\ s \in Seq([decl : Nat, value : Nat, cccd : Nat])
      /\ Listing(s, l) /\ Configured(s, l, i) /\ Bare(s, i)
  BY DEF Halfway
<1>2. d \in Nat /\ MayHold(s, l, i, d)
  <2> DEFINE v == s[i].value  to == RangeEnd(s, l, i)
  <2>1. v \in Nat /\ v + 1 \in Nat /\ to \in Int /\ DescBatch \in Nat
    BY DiscoveryAssumption
  <2>2. d = CccdAmong(l, DescsIn(l, v + 1, to)) /\ OwnDescs(s, l, i) = v + 1 .. to
    BY DEF OwnCccd, OwnDescs
  <2> HIDE DEF d, v, to
  <2>3. /\ d \in Nat
        /\ \/ d = CccdAmong(l, v + 1 .. to)
           \/ /\ d = 0 /\ ~(to <= v + 1)
              /\ ~(to - (v + 1) < DescBatch /\ \A h \in v + 1 .. to : l[h] # "custom")
    BY <2>1, <2>2, FirstResponse
  <2>4. to - (v + 1) < DescBatch <=> to - v <= DescBatch
    BY <2>1
  <2> QED BY <2>2, <2>3, <2>4 DEF MayHold, OneResponse, v, to
<1> HIDE DEF d
<1>3. c = WithCccd(s, i, d)
  OBVIOUS
<1> HIDE DEF c
<1>4. /\ c \in Seq([decl : Nat, value : Nat, cccd : Nat]) /\ Len(c) = Len(s)
      /\ Listing(c, l) /\ Configured(c, l, i + 1) /\ Bare(c, i + 1)
      /\ DeclsOf(c) = DeclsOf(s)
  <2>1. i \in 1 .. Len(s) /\ Len(l) \in Nat
    OBVIOUS
  <2> QED BY ONLY <1>1, <1>2, <1>3, <2>1, OwnDescriptor
<1> QED BY <1>4 DEF Halfway, c, d

(* What a response says of descriptors. *)
LEMMA DescsAnswered ==
  ASSUME DiscoveryInv, NEW ok \in BOOLEAN, OnDescs(ok)
  PROVE  \E m : Becomes(m) /\ Sane(m) /\ Ends(m)
<1> DEFINE C == [decl : Nat, value : Nat, cccd : Nat]
           l == peer[reg[db.srv]]
           cccd == CccdAmong(l, DescsIn(l, req.from, req.to))
           i == db.char
           m == [Now EXCEPT !.db.found[db.srv][db.char].cccd = IF cccd = 0 THEN @ ELSE cccd]
           next == [m EXCEPT !.db.char = @ + 1]
<1>1. /\ Registered /\ ready /\ up /\ Now \in Records /\ Now.req = NoRequest
      /\ Now.pend = pend /\ Now.made = made /\ Now.told = told
      /\ Going(Now) /\ Now.db.busy /\ EventsRight(Now.pend) /\ AwaitsDescs(Now, req)
      /\ Now.db = db /\ Chars(Now) = Found /\ Layout(Now) = l
      /\ db.srv \in 1 .. Len(reg) /\ db.srv \in 1 .. MaxUsers /\ db \in Databases
      /\ Found \in FoundChars
  BY WhileAsking DEF OnDescs, Awaits, Found
<1>2. /\ l \in Seq({"service", "decl", "value", "cccd", "desc", "custom"}) /\ Len(l) \in Nat
      /\ l \in Layouts
  BY <1>1, LayoutIsSeq
<1>3. /\ db.end = Len(l) /\ Listing(Found, l) /\ (Fits => Lists(Found, l, Len(l)))
      /\ i \in 1 .. Len(Found) /\ req.from = Found[i].value + 1
      /\ req.to = RangeEnd(Found, l, i) /\ Configured(Found, l, i) /\ Bare(Found, i)
  BY <1>1 DEF AwaitsDescs, AllFound
<1>4. Becomes(IF db.char = Len(Found) THEN Completed(m, "complete", ok)
              ELSE DescsDiscovered(next, ok))
  BY DEF OnDescs
<1>5. Found \in Seq(C) /\ Len(Found) \in Nat /\ Len(Found) <= MaxChars /\ MaxChars \in Nat
      /\ \A j \in 1 .. Len(Found) : Found[j] \in C
  <2>1. Found \in Seq(C) /\ Len(Found) <= MaxChars
    BY <1>1 DEF FoundChars
  <2> HIDE DEF C
  <2> QED BY <2>1, ElementOfSeq, DiscoveryAssumption
<1>6. cccd \in Nat
  <2>1. Found[i].value + 1 \in Nat
    BY <1>3, <1>5
  <2>2. RangeEnd(Found, l, i) \in Int
    <3>1. i = Len(Found) \/ i + 1 \in 1 .. Len(Found)
      BY <1>3, <1>5, NextIndex
    <3>2. i + 1 \in 1 .. Len(Found) => Found[i + 1].decl \in Nat
      BY <1>5
    <3> QED BY <1>2, <3>1, <3>2 DEF RangeEnd
  <2> HIDE DEF l
  <2> QED BY <1>3, <2>1, <2>2, FirstResponse
<1>17. Found[i].value \in Nat /\ RangeEnd(Found, l, i) \in Int
  <2>1. i = Len(Found) \/ i + 1 \in 1 .. Len(Found)
    BY <1>3, <1>5, NextIndex
  <2>2. i + 1 \in 1 .. Len(Found) => Found[i + 1].decl \in Nat
    BY <1>5
  <2>3. RangeEnd(Found, l, i) \in Int
    BY <1>2, <2>1, <2>2 DEF RangeEnd
  <2> QED BY <1>3, <1>5, <2>3
<1> HIDE DEF cccd
<1>7. Found[i].cccd = 0
  BY <1>3, <1>5 DEF Bare
<1> DEFINE chars == [Found EXCEPT ![i].cccd = cccd]
<1>8. /\ chars \in Seq(C) /\ Len(chars) = Len(Found) /\ Listing(chars, l)
      /\ Configured(chars, l, i + 1) /\ Bare(chars, i + 1) /\ DeclsOf(chars) = DeclsOf(Found)
  <2>1. cccd = CccdAmong(l, DescsIn(l, Found[i].value + 1, RangeEnd(Found, l, i)))
    BY <1>3 DEF cccd
  <2>2. Listing(Found, l) /\ Configured(Found, l, i) /\ Bare(Found, i) /\ i \in 1 .. Len(Found)
    BY <1>3
  <2>3. Found \in Seq(C) /\ Len(l) \in Nat
    BY <1>2, <1>5
  <2>4. cccd = OwnCccd(Found, l, i)
    BY <2>1 DEF OwnCccd
  <2>5. chars = WithCccd(Found, i, OwnCccd(Found, l, i))
    BY <2>4 DEF WithCccd
  <2>6. Halfway(Found, l, i)
    BY <2>2, <2>3 DEF Halfway
  <2> HIDE DEF l, chars
  <2>7. Halfway(chars, l, i + 1) /\ Len(chars) = Len(Found) /\ DeclsOf(chars) = DeclsOf(Found)
    BY ONLY <1>6, <1>17, <2>2, <2>3, <2>4, <2>5, <2>6, OwnDescriptorSet
  <2> QED BY <2>7 DEF Halfway
<1>9. m.db = [db EXCEPT !.found = [@ EXCEPT ![db.srv] = chars]]
      /\ m.made = made /\ m.pend = pend /\ m.told = told /\ m.req = NoRequest
      /\ m = [Now EXCEPT !.db = m.db]
  <2>1. db.found[db.srv][i].cccd = 0
    BY <1>7 DEF Found
  <2>2. (IF cccd = 0 THEN 0 ELSE cccd) = cccd
    OBVIOUS
  <2>3. db.found[db.srv] = Found
    BY DEF Found
  <2> QED BY <1>1, <2>1, <2>2, <2>3 DEF Records, Databases
<1> HIDE DEF m
<1>10. chars \in FoundChars
  <2> HIDE DEF chars
  <2> QED BY <1>5, <1>8 DEF FoundChars
<1> HIDE DEF chars
<1>11. /\ m.db \in Databases /\ m.db.found[db.srv] = chars /\ m.db.srv = db.srv
       /\ m.db.end = Len(l) /\ m.db.busy /\ m.db.char = i
  <2>1. db.found \in [1 .. MaxUsers -> FoundChars]
    BY <1>1 DEF Databases
  <2>2. [db.found EXCEPT ![db.srv] = chars] \in [1 .. MaxUsers -> FoundChars]
        /\ [db.found EXCEPT ![db.srv] = chars][db.srv] = chars
    BY <1>1, <1>10, <2>1
  <2> QED BY <1>1, <1>3, <1>9, <2>2 DEF Databases
<1>12. m \in Records
  BY <1>1, <1>9, <1>11 DEF Records
<1>13. Going(m) /\ EventsRight(m.pend) /\ Chars(m) = chars /\ Layout(m) = l
  BY <1>1, <1>9, <1>11 DEF Going, Chars, Layout
<1>14. Fits => Lists(chars, l, Len(l))
  BY <1>3, <1>8 DEF Lists
<1>15. CASE db.char = Len(Found)
  <2>1. DOMAIN chars = 1 .. Len(chars)
    BY <1>8, LenProperties
  <2>2. \A j \in 1 .. Len(chars) : j < i + 1
    BY <1>3, <1>5, <1>8, <1>15
  <2>3. Fits => DeclsOf(chars) = Decls(l, 1, Len(l))
    BY <1>8, <1>14, <2>1 DEF Lists, Listing, DeclsOf
  <2>4. Fits => Describes(chars, l)
    BY <1>8, <2>1, <2>2, <2>3 DEF Describes, Listing, Configured, MayHold
  <2>5. MayTell(m, "complete")
    BY <1>13, <2>4 DEF MayTell, RightOf, Layout
  <2>6. Sane(Completed(m, "complete", ok)) /\ Ends(Completed(m, "complete", ok))
    BY <1>1, <1>9, <1>11, <1>12, <1>13, <2>5, CompletedOutcome DEF EventType
  <2> QED BY <1>4, <1>15, <2>6
<1>16. CASE db.char # Len(Found)
  <2>1. i + 1 \in 1 .. MaxChars + 1 /\ i + 1 \in Nat \ {0}
    BY <1>3, <1>5, NextIndex
  <2>2. next.db = [m.db EXCEPT !.char = i + 1] /\ next.made = m.made /\ next.pend = m.pend
        /\ next.told = m.told /\ next.req = NoRequest
    BY <1>9, <1>11, <1>12 DEF Records
  <2>3. /\ next.db \in Databases /\ next.db.char = i + 1 /\ next.db.found = m.db.found
        /\ next.db.end = m.db.end /\ next.db.busy /\ next.db.srv = m.db.srv
    BY <1>11, <2>1, <2>2 DEF Databases
  <2>4. next \in Records
    BY <1>12, <2>2, <2>3 DEF Records
  <2> HIDE DEF next
  <2>5. Going(next) /\ EventsRight(next.pend) /\ Chars(next) = chars /\ Layout(next) = l
    BY <1>11, <1>13, <2>2, <2>3 DEF Going, Chars, Layout
  <2>6. AllFound(next)
    BY <1>8, <1>11, <1>14, <2>3, <2>5 DEF AllFound
  <2>7. Sane(DescsDiscovered(next, ok)) /\ Ends(DescsDiscovered(next, ok))
    BY <1>1, <1>8, <2>1, <2>2, <2>3, <2>4, <2>5, <2>6, DescsOutcome
  <2> QED BY <1>4, <1>16, <2>7 DEF next
<1> QED BY <1>15, <1>16

(* What a handler leaves behind is again a state of the discovery. *)
LEMMA BecomesInv ==
  ASSUME Registered, UNCHANGED <<ready, reg, up, peer>>,
         NEW m, Becomes(m), Sane(m), Ends(m)
  PROVE  /\ DiscoveryInv'
         /\ ~db'.busy /\ made' = Len(reg) => Len(told') = Len(reg) /\ InTurn(told')
<1>1. m \in Records /\ pend' = m.pend /\ made' = m.made /\ db' = m.db /\ req' = m.req
      /\ told' = m.told
  BY DEF Sane, Becomes
<1>2. m = [pend |-> m.pend, made |-> m.made, db |-> m.db, req |-> m.req, told |-> m.told]
  BY <1>1 DEF Records
<1>3. Present' = m
  BY <1>1, <1>2 DEF Present
<1>4. Registered'
  BY DEF Registered
<1>5. \A e : RightOf(e)' <=> RightOf(e)
  BY DEF RightOf
<1>6. EventsRight(Present.pend)' /\ EventsRight(Present.told)'
  <2>1. \A s : EventsRight(s)' <=> EventsRight(s)
    BY <1>5 DEF EventsRight
  <2> QED BY <1>3, <1>5 DEF Sane, EventsRight
<1>7. Going(m) => Going(Present)'
  BY <1>3 DEF Going, InTurn
<1>8. Awaits(m, m.req) => Awaits(Present, Present.req)'
  BY <1>3 DEF Awaits, AwaitsChars, AwaitsDescs, AllFound, Chars, Layout
<1>9. Sane(Present)'
  BY <1>3, <1>6, <1>7, <1>8 DEF Sane
<1>10. ~db'.busy /\ made' = Len(reg) => Len(told') = Len(reg) /\ InTurn(told')
  BY <1>1 DEF Ends
<1> QED BY <1>4, <1>9, <1>10 DEF DiscoveryInv

LEMMA ResponseInv ==
  ASSUME DiscoveryInv, OnResponse
  PROVE  /\ DiscoveryInv'
         /\ ~db'.busy /\ made' = Len(reg) => Len(told') = Len(reg) /\ InTurn(told')
<1>1. PICK ok \in BOOLEAN : OnService(ok) \/ OnChars(ok) \/ OnDescs(ok)
  BY DEF OnResponse
<1>2. PICK m : Becomes(m) /\ Sane(m) /\ Ends(m)
  BY <1>1, ServiceOutcome, CharsOutcome, DescsAnswered
<1>3. Registered /\ UNCHANGED <<ready, reg, up, peer>>
  BY DEF DiscoveryInv, OnResponse
<1> QED BY <1>2, <1>3, BecomesInv

LEMMA EmptyDiscovery ==
  /\ ZeroDb \in Databases /\ ZeroDb.busy = FALSE /\ <<>> \in Events /\ <<>> \in FoundChars
  /\ ZeroDb.srv = 1 /\ ZeroDb.char = 1
  /\ \A i \in 1 .. MaxUsers : ZeroDb.found[i] = <<>>
  /\ Len(<<>>) = 0 /\ 0 \in 0 .. MaxUsers /\ 1 \in 1 .. MaxUsers
<1>1. <<>> \in FoundChars /\ <<>> \in Events
  BY DiscoveryAssumption DEF FoundChars, Events
<1>2. 1 \in 1 .. MaxUsers /\ 1 \in 1 .. MaxChars + 1 /\ 0 \in 0 .. MaxUsers
  BY DiscoveryAssumption
<1> QED BY <1>1, <1>2 DEF ZeroDb, Databases

LEMMA DiscoveryInitInv == DiscoveryInit => DiscoveryInv
<1> SUFFICES ASSUME DiscoveryInit PROVE DiscoveryInv
  OBVIOUS
<1>1. Registered
  <2>1. reg = <<>> /\ <<>> \in Seq(Service) /\ Len(<<>>) = 0 /\ 1 .. 0 = {}
    BY DEF DiscoveryInit
  <2>2. 0 <= MaxUsers
    BY DiscoveryAssumption
  <2> QED BY <2>1, <2>2 DEF DiscoveryInit, Registered
<1>2. Present \in Records /\ Present.pend = <<>> /\ Present.told = <<>>
      /\ Present.db = ZeroDb /\ Present.req = NoRequest
  BY EmptyDiscovery DEF DiscoveryInit, Present, Records
<1>3. Sane(Present)
  BY <1>2, EmptyDiscovery, DiscoveryAssumption DEF Sane, EventsRight
<1> QED BY <1>1, <1>3 DEF DiscoveryInv

(* A state without a discovery in progress needs its events right only. *)
LEMMA RestingInv ==
  ASSUME Registered', Present' \in Records, Len(pend') <= MaxUsers,
         EventsRight(pend)', EventsRight(told)', ~db'.busy, req' = NoRequest
  PROVE  DiscoveryInv'
<1>1. /\ Present'.pend = pend' /\ Present'.told = told' /\ Present'.db = db'
      /\ Present'.req = req'
  BY DEF Present
<1> QED BY <1>1 DEF DiscoveryInv, Sane, EventsRight, Present

LEMMA InvFacts ==
  ASSUME DiscoveryInv
  PROVE  /\ Registered /\ Present \in Records
         /\ pend \in Events /\ told \in Events /\ db \in Databases /\ made \in 0 .. MaxUsers
         /\ req \in Requests \cup {NoRequest}
         /\ Len(pend) <= MaxUsers /\ EventsRight(pend) /\ EventsRight(told)
         /\ db.busy <=> req # NoRequest
         /\ db.busy => ready /\ up /\ Going(Present) /\ Awaits(Present, req)
<1>1. /\ Present.pend = pend /\ Present.told = told /\ Present.db = db /\ Present.made = made
      /\ Present.req = req
  BY DEF Present
<1>2. Registered /\ Sane(Present)
  BY DEF DiscoveryInv
<1>3. Present \in Records
  BY <1>2 DEF Sane
<1> QED BY <1>1, <1>2, <1>3 DEF Sane, Records

-----------------------------------------------------------------------------
\* Service discovery: the other steps.

(* A connection comes up while nothing is in progress. *)
LEMMA OnConnectedInv ==
  ASSUME DiscoveryInv, OnConnected
  PROVE  DiscoveryInv'
<1>1. ~up /\ up' = TRUE /\ UNCHANGED <<ready, reg, pend, made, db, req, peer, told>>
  BY DEF OnConnected
<1>2. ~db.busy /\ req = NoRequest /\ Present' = Present
  BY <1>1, InvFacts DEF Present
<1>3. Registered'
  BY <1>1, InvFacts DEF Registered
<1>4. EventsRight(pend)' /\ EventsRight(told)'
  <2>1. EventsRight(pend) /\ EventsRight(told)
    BY InvFacts
  <2>2. \A e : RightOf(e)' <=> RightOf(e)
    BY <1>1 DEF RightOf
  <2> QED BY <1>1, <2>1, <2>2 DEF EventsRight
<1> QED BY <1>1, <1>2, <1>3, <1>4, InvFacts, RestingInv

(* A disconnection ends whatever goes on; what waits stays. *)
LEMMA OnDisconnectedInv ==
  ASSUME DiscoveryInv, OnDisconnected
  PROVE  DiscoveryInv'
<1>1. /\ up' = FALSE /\ req' = NoRequest
      /\ UNCHANGED <<ready, reg, pend, made, peer, told>>
      /\ db' = ZeroDb \/ (~ready /\ db' = db)
  BY DEF OnDisconnected
<1>5. ~db'.busy
  BY <1>1, InvFacts, EmptyDiscovery
<1>2. Present' \in Records
  BY <1>1, InvFacts, EmptyDiscovery DEF Present, Records
<1>3. Registered'
  BY <1>1, InvFacts DEF Registered
<1>4. EventsRight(pend)' /\ EventsRight(told)'
  <2>1. EventsRight(pend) /\ EventsRight(told)
    BY InvFacts
  <2>2. \A e : RightOf(e)' <=> RightOf(e)
    BY <1>1 DEF RightOf
  <2> QED BY <1>1, <2>1, <2>2 DEF EventsRight
<1> QED BY <1>1, <1>2, <1>3, <1>4, <1>5, InvFacts, RestingInv

(* A service registered during a discovery is looked up last. *)
LEMMA RegisterInv ==
  ASSUME DiscoveryInv, NEW s \in Service, Register(s)
  PROVE  DiscoveryInv'
<1>1. /\ ready /\ Len(reg) < MaxUsers /\ reg' = Append(reg, s)
      /\ UNCHANGED <<ready, pend, made, db, req, up, peer, told>>
  BY DEF Register
<1>2. Registered /\ reg \in Seq(Service) /\ Len(reg) \in Nat /\ MaxUsers \in Nat
  BY InvFacts, DiscoveryAssumption DEF Registered
<1>3. /\ reg' \in Seq(Service) /\ Len(reg') = Len(reg) + 1 /\ reg'[Len(reg) + 1] = s
      /\ \A i \in 1 .. Len(reg) : reg'[i] = reg[i]
  BY <1>1, <1>2, AppendProperties
<1>4. \A i \in 1 .. Len(reg) : Handler(reg', reg'[i]) = Handler(reg, reg[i])
  BY <1>1, <1>2, HandlerStays
<1>5. Registered'
  BY <1>1, <1>2, <1>3 DEF Registered
<1>6. Present' = Present /\ Present \in Records
  BY <1>1, InvFacts DEF Present
<1>7. \A e : RightOf(e)' <=> RightOf(e)
  BY <1>1 DEF RightOf
<1>8. EventsRight(Present.pend)' /\ EventsRight(Present.told)'
  <2>1. EventsRight(Present.pend) /\ EventsRight(Present.told)
    BY DEF DiscoveryInv, Sane
  <2> QED BY <1>6, <1>7, <2>1 DEF EventsRight
<1>9. CASE ~db.busy
  <2>1. Sane(Present)'
    <3>1. ~Present.db.busy /\ Sane(Present)
      BY <1>9 DEF Present, DiscoveryInv
    <3> QED BY <1>6, <1>8, <3>1 DEF Sane
  <2> QED BY <1>5, <2>1 DEF DiscoveryInv
<1>10. CASE db.busy
  <2>1. Present.db.busy /\ Sane(Present) /\ Present.db = db
    BY <1>10 DEF Present, DiscoveryInv
  <2>2. Going(Present) /\ Awaits(Present, Present.req) /\ ready /\ up
    BY <2>1 DEF Sane
  <2>3. Present.db.srv \in 1 .. Len(reg)
    <3>1. Present.db.srv \in 1 .. MaxUsers /\ Present.db.srv <= Len(reg)
      BY <1>6, <2>2 DEF Going, Records, Databases
    <3> QED BY <1>2, <3>1
  <2>4. reg'[Present.db.srv] = reg[Present.db.srv]
    BY <1>3, <2>3
  <2>5. Going(Present)'
    <3>1. Present.db.srv <= Len(reg')
      BY <1>2, <1>3, <2>3
    <3>2. InTurn(Present.pend)'
      <4> SUFFICES ASSUME NEW i \in 1 .. Len(Present.pend)
                   PROVE  /\ i <= Len(reg')
                          /\ Present.pend[i].user = Handler(reg', reg'[i])
        BY <1>6 DEF InTurn
      <4>1. i <= Len(reg) /\ Present.pend[i].user = Handler(reg, reg[i])
        BY <2>2 DEF Going, InTurn
      <4>2. i \in 1 .. Len(reg)
        BY <1>2, <4>1
      <4> QED BY <1>2, <1>3, <1>4, <4>1, <4>2
    <3> QED BY <1>6, <2>2, <3>1, <3>2 DEF Going
  <2>6. Awaits(Present, Present.req)'
    BY <1>1, <1>6, <2>2, <2>4 DEF Awaits, AwaitsChars, AwaitsDescs, AllFound, Chars, Layout
  <2>7. Sane(Present)'
    BY <1>1, <1>6, <1>8, <2>1, <2>2, <2>5, <2>6 DEF Sane
  <2> QED BY <1>5, <2>7 DEF DiscoveryInv
<1> QED BY <1>9, <1>10

(* A start forgets what an earlier discovery left. *)
LEMMA StartInv ==
  ASSUME DiscoveryInv, NEW ok \in BOOLEAN, Start(ok)
  PROVE  DiscoveryInv'
<1>1. /\ ready /\ up /\ reg # <<>> /\ db = ZeroDb /\ made' = 0 /\ pend' = <<>> /\ told' = <<>>
      /\ IF ok THEN db' = [db EXCEPT !.busy = TRUE] /\ req' = ServiceRequest
         ELSE UNCHANGED <<db, req>>
      /\ UNCHANGED <<ready, reg, up, peer>>
  BY DEF Start
<1>2. Registered /\ Registered'
  BY <1>1, InvFacts DEF Registered
<1>3. EventsRight(<<>>)' /\ Len(<<>>) = 0 /\ 0 <= MaxUsers
  BY DiscoveryAssumption DEF EventsRight
<1>4. CASE ~ok
  <2>1. ~db.busy /\ req = NoRequest /\ UNCHANGED <<db, req>>
    BY <1>1, <1>4, InvFacts, EmptyDiscovery
  <2>2. Present' \in Records
    BY <1>1, <2>1, InvFacts, EmptyDiscovery DEF Present, Records
  <2>3. EventsRight(pend)' /\ EventsRight(told)'
    BY <1>1 DEF EventsRight
  <2> QED BY <1>1, <1>2, <1>3, <2>1, <2>2, <2>3, RestingInv
<1>5. CASE ok
  <2>1. ServiceRequest \in Requests /\ ServiceRequest # NoRequest
        /\ ServiceRequest.kind = "service"
    BY DEF ServiceRequest, Requests, NoRequest
  <2>2. db' = [ZeroDb EXCEPT !.busy = TRUE] /\ req' = ServiceRequest
    BY <1>1, <1>5
  <2>3. /\ db' \in Databases /\ db'.busy /\ db'.srv = 1 /\ db'.char = 1 /\ db'.found[1] = <<>>
    BY <2>2, EmptyDiscovery DEF Databases
  <2>4. /\ Present' \in Records /\ Present'.db = db' /\ Present'.req = req'
        /\ Present'.pend = <<>> /\ Present'.told = <<>> /\ Present'.made = 0
    BY <1>1, <2>1, <2>2, <2>3, EmptyDiscovery DEF Present, Records
  <2>5. 1 <= Len(reg)
    <3>1. reg \in Seq(Service) /\ Len(reg) \in Nat
      BY <1>2 DEF Registered
    <3>2. Len(reg) # 0
      BY <1>1, <3>1, EmptySeq
    <3> QED BY <3>1, <3>2
  <2>6. Going(Present)'
    BY <1>1, <1>3, <2>3, <2>4, <2>5 DEF Going, InTurn
  <2>7. Awaits(Present, Present.req)'
    BY <2>1, <2>2, <2>3, <2>4 DEF Awaits, Chars
  <2>8. EventsRight(Present.pend)' /\ EventsRight(Present.told)'
    BY <2>4 DEF EventsRight
  <2>9. Sane(Present)'
    BY <1>1, <1>3, <2>1, <2>2, <2>3, <2>4, <2>6, <2>7, <2>8 DEF Sane
  <2> QED BY <1>2, <2>9 DEF DiscoveryInv
<1> QED BY <1>4, <1>5

(* Closed and opened between discoveries. *)
LEMMA CloseOpenInv ==
  ASSUME DiscoveryInv, Close \/ Open
  PROVE  DiscoveryInv'
<1>1. ready' \in BOOLEAN /\ reg' = <<>> /\ made' = 0 /\ pend' = <<>>
      /\ UNCHANGED <<db, req, up, peer, told>>
  BY DEF Close, Open
<1>2. ~db.busy
  BY InvFacts DEF Close, Open
<1>3. Registered'
  <2>1. <<>> \in Seq(Service) /\ Len(<<>>) = 0 /\ 1 .. 0 = {} /\ 0 <= MaxUsers
    BY DiscoveryAssumption
  <2> QED BY <1>1, <2>1, InvFacts DEF Registered
<1>4. Present' \in Records
  BY <1>1, InvFacts, EmptyDiscovery DEF Present, Records
<1>5. EventsRight(pend)' /\ EventsRight(told)' /\ Len(pend') <= MaxUsers
  <2>1. EventsRight(told)
    BY InvFacts
  <2>2. \A e : RightOf(e)' <=> RightOf(e)
    BY <1>1 DEF RightOf
  <2>3. Len(<<>>) = 0 /\ 0 <= MaxUsers
    BY DiscoveryAssumption
  <2> QED BY <1>1, <2>1, <2>2, <2>3 DEF EventsRight
<1> QED BY <1>1, <1>2, <1>3, <1>4, <1>5, InvFacts, RestingInv

LEMMA DiscoveryNextInv ==
  ASSUME DiscoveryInv, [DiscoveryNext]_discoveryVars
  PROVE  DiscoveryInv'
<1>1. CASE UNCHANGED discoveryVars
  <2>1. ready' = ready /\ up' = up /\ reg' = reg /\ peer' = peer /\ Present' = Present
    BY <1>1 DEF discoveryVars, Present
  <2>2. \A e : RightOf(e)' <=> RightOf(e)
    BY <2>1 DEF RightOf
  <2>3. EventsRight(Present.pend)' /\ EventsRight(Present.told)'
    BY <2>1, <2>2 DEF EventsRight, DiscoveryInv, Sane
  <2>4. Going(Present) => Going(Present)'
    BY <2>1 DEF Going, InTurn
  <2>5. Awaits(Present, Present.req) => Awaits(Present, Present.req)'
    BY <2>1 DEF Awaits, AwaitsChars, AwaitsDescs, AllFound, Chars, Layout
  <2>6. Registered'
    BY <2>1 DEF Registered, DiscoveryInv
  <2>7. Sane(Present)'
    BY <2>1, <2>3, <2>4, <2>5 DEF Sane, DiscoveryInv
  <2> QED BY <2>6, <2>7 DEF DiscoveryInv
<1> QED BY <1>1, OnConnectedInv, OnDisconnectedInv, ResponseInv, CloseOpenInv, RegisterInv,
           StartInv DEF DiscoveryNext

LEMMA AlwaysDiscoveryInv == DiscoverySpec => []DiscoveryInv
BY DiscoveryInitInv, DiscoveryNextInv, PTL DEF DiscoverySpec

-----------------------------------------------------------------------------
\* Service discovery: what follows.

LEMMA InvDiscoveryTypeOK == DiscoveryInv => DiscoveryTypeOK
<1> SUFFICES ASSUME DiscoveryInv PROVE DiscoveryTypeOK
  OBVIOUS
<1>1. reg \in SeqOf(Service, MaxUsers)
  <2>1. reg \in Seq(Service) /\ Len(reg) <= MaxUsers /\ MaxUsers \in Nat
    BY InvFacts, DiscoveryAssumption DEF Registered
  <2>2. Len(reg) \in 0 .. MaxUsers /\ reg \in [1 .. Len(reg) -> Service]
    BY <2>1, LenProperties
  <2> QED BY <2>2 DEF SeqOf
<1>2. Len(pend) <= MaxUsers /\ made \in 0 .. MaxUsers
  BY InvFacts
<1>3. /\ db.srv \in 1 .. MaxUsers /\ db.char \in 1 .. MaxChars + 1
      /\ \A i \in 1 .. MaxUsers : Len(db.found[i]) <= MaxChars
  <2>1. db \in Databases
    BY InvFacts
  <2>2. db.found \in [1 .. MaxUsers -> FoundChars]
    BY <2>1 DEF Databases
  <2>3. \A i \in 1 .. MaxUsers : db.found[i] \in FoundChars
    BY <2>2
  <2>4. \A i \in 1 .. MaxUsers : Len(db.found[i]) <= MaxChars
    BY <2>3 DEF FoundChars
  <2> QED BY <2>1, <2>4 DEF Databases
<1>4. req.kind \in {"none", "service", "chars", "descs"}
  BY InvFacts DEF Requests, NoRequest
<1> QED BY <1>1, <1>2, <1>3, <1>4 DEF DiscoveryTypeOK

LEMMA InvToldRight == ASSUME Fits, DiscoveryInv PROVE ToldRight
<1>1. told \in Events /\ EventsRight(told)
  BY InvFacts
<1>2. DOMAIN told = 1 .. Len(told)
  BY <1>1, LenProperties DEF Events
<1> QED BY <1>1, <1>2 DEF ToldRight, EventsRight

(* Whatever the users register, the peer has and the SoftDevice refuses:   *)
(* the discovery keeps to its arrays, it goes on just while a request is   *)
(* outstanding, and a user is told of a service what the peer has, every   *)
(* characteristic and never with a neighbour's descriptor, but with its    *)
(* own for certain only where its descriptors fit one response             *)
(* (ble_db_discovery.c), provided no service has more characteristics than *)
(* the module looks for.                                                   *)
THEOREM DiscoveryTellsRight ==
  ASSUME Fits
  PROVE  DiscoverySpec => []DiscoveryRight
<1>1. DiscoveryInv => DiscoveryRight
  <2> SUFFICES ASSUME DiscoveryInv PROVE DiscoveryRight
    OBVIOUS
  <2>1. NeverStuck
    BY InvFacts DEF NeverStuck
  <2> QED BY <2>1, InvDiscoveryTypeOK, InvToldRight DEF DiscoveryRight
<1> QED BY <1>1, AlwaysDiscoveryInv, PTL

(* A discovery that ends with no call refused has told every user as often *)
(* as services lead to it (pending_user_evts_send): once, if nobody else   *)
(* registered for its service; whether or not the peer's services fit.     *)
THEOREM UsersAreTold == DiscoverySpec => EveryUserTold
<1>1. ASSUME DiscoveryInv, [DiscoveryNext]_discoveryVars
      PROVE  [(db.busy /\ ~db'.busy /\ up' /\ made' = Len(reg)) =>
                 \A i \in DOMAIN reg :
                    Cardinality({k \in DOMAIN told' : told'[k].user = i})
                       = Cardinality({k \in DOMAIN reg : Handler(reg, reg[k]) = i})]_discoveryVars
  <2> SUFFICES ASSUME DiscoveryNext, db.busy, ~db'.busy, up', made' = Len(reg),
                      NEW i \in DOMAIN reg
               PROVE  {k \in DOMAIN told' : told'[k].user = i}
                         = {k \in DOMAIN reg : Handler(reg, reg[k]) = i}
    BY <1>1
  <2>1. OnResponse
    <3>1. ~OnConnected
      BY DEF OnConnected
    <3>2. ~OnDisconnected
      BY DEF OnDisconnected
    <3>3. ~Close
      BY DEF Close
    <3>4. ~Open
      BY DEF Open
    <3>5. ~\E s \in Service : Register(s)
      BY DEF Register
    <3>6. ~\E ok \in BOOLEAN : Start(ok)
      BY EmptyDiscovery DEF Start
    <3> QED BY <3>1, <3>2, <3>3, <3>4, <3>5, <3>6 DEF DiscoveryNext
  <2>2. DiscoveryInv' /\ Len(told') = Len(reg) /\ InTurn(told')
    BY <1>1, <2>1, ResponseInv
  <2>3. told' \in Events
    <3>1. DiscoveryInv => told \in Events
      BY InvFacts
    <3>2. (DiscoveryInv => told \in Events)'
      BY <3>1, InvFacts, PTL
    <3> QED BY <2>2, <3>2
  <2>4. DOMAIN told' = 1 .. Len(reg) /\ DOMAIN reg = 1 .. Len(reg)
    BY <1>1, <2>2, <2>3, InvFacts, LenProperties DEF Events, Registered
  <2>5. \A j \in 1 .. Len(reg) : told'[j].user = Handler(reg, reg[j])
    BY <2>2 DEF InTurn
  <2> QED BY <2>4, <2>5
<1> QED BY <1>1, AlwaysDiscoveryInv, PTL DEF EveryUserTold, DiscoverySpec

===============================================================================
