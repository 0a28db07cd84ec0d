---------------------------- MODULE DeviceManager ----------------------------
(***************************************************************************)
(* What device_manager_peripheral.c and device_manager_central.c have in   *)
(* common: the table of bonded peers in RAM, its copy in flash kept by     *)
(* pstorage, the bond buffer of the one connection                         *)
(* (DEVICE_MANAGER_MAX_CONNECTIONS is 1), and the start-up that reads the  *)
(* table back.  The two files carry the same text for these functions; the *)
(* lines mapped are those of the peripheral one.                           *)
(*                                                                         *)
(* pstorage queues operations and reads their source when it carries them  *)
(* out.  Peers, their keys and the SoftDevice are external.                *)
(***************************************************************************)
EXTENDS Naturals, FiniteSets, Sequences

CONSTANTS Peer,        \* the devices that may connect
          Resolvable,  \* those that connect from resolvable random addresses
          MaxBonds,    \* DEVICE_MANAGER_MAX_BONDS
          QueueSize,   \* operations pstorage can queue
          MaxKeys,     \* bound: keys agreed in a behaviour
          Faults,      \* what may fail: "power", "flash"
          Prompt,      \* flash operations end before the next link event
          None,        \* no peer, no device, no key
          Blank,       \* erased flash
          Garbled      \* flash programmed twice

Slot == 0 .. MaxBonds - 1
Key == Peer \X (1 .. MaxKeys)
Procedure == {"authenticating", "params", "stk", "distributed",  \* pairing
              "encrypting", "known", "unknown"}                  \* with a key

(* Configuration of a GATT server: as a peer set it, none, zeroed, off, or *)
(* read from erased flash.  A stored context always has a size.            *)
Attributes == Peer \cup {"missing", "zero", "off", Blank}
Context == [kept : {TRUE}, attrs : Attributes]

ASSUME BondsAssumption ==
    /\ Resolvable \subseteq Peer
    /\ MaxBonds \in Nat \ {0} /\ QueueSize \in Nat \ {0} /\ MaxKeys \in Nat
    /\ Faults \subseteq {"power", "flash"} /\ Prompt \in BOOLEAN
    /\ None \notin Peer \cup Slot \cup Key \cup Procedure
    /\ {Blank, Garbled} \cap (Key \cup {None}) = {} /\ Blank # Garbled
    /\ \A ids \in SUBSET {"addr", "irk"}, p \in Peer \cup {None}, key \in Key \cup {None} :
          [ids |-> ids, addr |-> p, ediv |-> key] \notin {Blank, Garbled}
    /\ {Blank, Garbled} \cap Context = {}

VARIABLES conn,   \* m_connection_table[0]: its state bits, peer and device
          table,  \* m_peer_table
          bond,   \* m_bond_table[0]: a key, or whatever was loaded
          queue,  \* pstorage: operations not yet carried out
          flash,  \* what the flash holds: per slot, the parts of its block
          link,   \* the SoftDevice: procedure, encryption, attributes
          peers   \* what the peers hold, what they may count on

Unassigned == [ids |-> {}, addr |-> None, ediv |-> None]
Idle == [state |-> {}, peer |-> None, dev |-> None]
Down == [proc |-> None, secured |-> FALSE, cccd |-> "missing", reply |-> None]
EmptyBlock == [peer |-> Blank, bond |-> Blank, gatts |-> Blank]

Has(bit) == bit \in conn.state
Least(S) == CHOOSE s \in S : \A t \in S : s <= t

(* Peers on a resolvable address are not recognised by it. *)
FoundByAddress(p) ==
    {s \in Slot : table[s].addr = p /\ p \notin Resolvable}

FreeSlots == {s \in Slot : table[s].ids = {}}

(* device_instance_allocate: the entry of a peer that begins to bond. *)
Allocated(p) ==
    IF p \in Resolvable THEN [Unassigned EXCEPT !.ids = {"irk"}]
    ELSE [ids |-> {"addr"}, addr |-> p, ediv |-> None]

(* pstorage takes what its queue has room for. *)
Queued(ops) ==
    LET room == QueueSize - Len(queue)
    IN  queue \o SubSeq(ops, 1, IF Len(ops) <= room THEN Len(ops) ELSE room)

HasRoom == Len(queue) < QueueSize
Op(op, s, part) == [op |-> op, slot |-> s, part |-> part]

(* device_instance_free, of the slots of S in turn: an entry is forgotten  *)
(* once its erasure is queued.                                             *)
QueueFreed(S) ==
    LET turn(i) == CHOOSE s \in S : Cardinality({t \in S : t < s}) = i - 1
    IN  Queued([i \in 1 .. Cardinality(S) |-> Op("clear", turn(i), "all")])
TableFreed(S) ==
    LET took == {QueueFreed(S)[i].slot : i \in Len(queue) + 1 .. Len(QueueFreed(S))}
    IN  [s \in Slot |-> IF s \in took THEN Unassigned ELSE table[s]]

(* connection_instance_allocate, for a peer known by its address or not.   *)
Attached(p) ==
    IF FoundByAddress(p) = {}
    THEN [state |-> {"connected"}, peer |-> p, dev |-> None]
    ELSE [state |-> {"connected", "bonded"}, peer |-> p,
          dev |-> Least(FoundByAddress(p))]

(* Mutant of StoreFn: a bond that is renewed is stored over the old one. *)
StoreFnOver(first) == IF Has("update") \/ first THEN "store" ELSE "dummy"

(* device_context_store: what it queues for the peer and bond parts. *)
StoreFn(first) ==
    IF Has("update") THEN "update" ELSE IF first THEN "store" ELSE "dummy"
ContextOps(s, first) ==
    IF StoreFn(first) = "dummy" THEN <<>>
    ELSE <<Op(StoreFn(first), s, "peer"), Op(StoreFn(first), s, "bond")>>

(* A flash operation carried out: the source is read only now.  Storing    *)
(* on a part that is not erased garbles it.                                *)
CarriedOut(o, source) ==
    IF o.op = "clear" THEN [flash EXCEPT ![o.slot] = EmptyBlock]
    ELSE [flash EXCEPT ![o.slot][o.part] =
             IF o.op = "store" /\ @ # Blank THEN Garbled ELSE source]

(* dm_init reads every entry; an erased one is unassigned. *)
Loaded(f) == [s \in Slot |-> IF f[s].peer \in {Blank, Garbled} THEN Unassigned
                             ELSE f[s].peer]

(* A peer may not count on a bond whose operations were still queued. *)
Pending(p) == \E i \in 1 .. Len(queue) : table[queue[i].slot].addr \in {p, None}

(* Power loss, or a failed error check: RAM and queue are gone, and the    *)
(* operation at the head may have been carried out.                        *)
StartsAgain(f, revoked) ==
    /\ flash' = f
    /\ table' = Loaded(f)
    /\ conn' = Idle /\ bond' = None /\ queue' = <<>> /\ link' = Down
    /\ peers' = [peers EXCEPT !.owed =
                    [p \in Peer |->
                        IF Pending(p) \/ p \in revoked THEN None ELSE @[p]]]

InitCommon ==
    /\ conn = Idle /\ bond = None /\ queue = <<>> /\ link = Down
    /\ table = [s \in Slot |-> Unassigned]
    /\ flash = [s \in Slot |-> EmptyBlock]
    /\ peers = [held |-> [p \in Peer |-> None],
                owed |-> [p \in Peer |-> None], keys |-> 0]

(* A peer may lose its side of a bond at any time. *)
Forgotten(p) ==
    /\ conn.peer # p /\ peers.held[p] # None
    /\ peers' = [peers EXCEPT !.held[p] = None, !.owed[p] = None]

Calm == Prompt => queue = <<>>

(* The entry of a peer that has bonded, as AUTH_STATUS leaves it. *)
Bonded(e, p, key, idKey) ==
    [ids |-> e.ids \cup (IF idKey THEN {"irk"} ELSE {})
                   \cup (IF p \in Resolvable THEN {} ELSE {"addr"}),
     addr |-> IF p \in Resolvable THEN e.addr ELSE p,
     ediv |-> key]

(* dm_device_delete and dm_device_delete_all, by the application between   *)
(* two links: whom it deletes can count on nothing any more.               *)
Deleted(S) ==
    /\ conn = Idle /\ Calm
    /\ table' = TableFreed(S) /\ queue' = QueueFreed(S)
    /\ peers' = [peers EXCEPT !.owed = [p \in Peer |->
                    IF \E s \in S : table[s].addr = p THEN None ELSE @[p]]]
    /\ UNCHANGED <<conn, bond, flash, link>>
Assigned == Slot \ FreeSlots

(* dm_whitelist_create: the first entries of devices not connected, as     *)
(* many as there is room for, by address and by key.                       *)
Listed(kind, room) ==
    LET all == {s \in Slot : kind \in table[s].ids /\ conn.dev # s}
    IN  {s \in all : Cardinality({t \in all : t < s}) < room}
Whitelist(addrs, irks) == Listed("addr", addrs) \cup Listed("irk", irks)

(* dm_security_status_req. *)
SecurityStatus ==
    IF Has("pairing") \/ Has("pending") THEN "in progress"
    ELSE IF Has("encrypted") THEN "encrypted" ELSE "not encrypted"

(* dm_distributed_keys_get reads the key of a slot from flash. *)
DistributedKey(s) == flash[s].bond

(***************************************************************************)
(* Properties.                                                             *)
(***************************************************************************)

(* Every field of the record the module keeps of its link, of its table    *)
(* and of the flash has the values the code can give it (m_connection_table,
   m_peer_table, m_bond_table).                                            *)
BondsTypeOK ==
    /\ conn.state \subseteq {"connected", "bonded", "encrypted", "pairing",
                             "pending", "update"}
    /\ conn.peer \in Peer \cup {None} /\ conn.dev \in Slot \cup {None}
    /\ \A s \in Slot : /\ table[s].ids \subseteq {"addr", "irk"}
                       /\ table[s].addr \in Peer \cup {None}
                       /\ table[s].ediv \in Key \cup {None}
    /\ bond \in Key \cup {None, Blank}
    /\ Len(queue) <= QueueSize
    /\ \A i \in 1 .. Len(queue) : queue[i].slot \in Slot
    /\ peers.keys \in 0 .. MaxKeys

(* A store is only ever queued for a part of a block that will be erased   *)
(* when its turn comes: programming twice would leave neither value        *)
(* (device_context_store and gatts_context_store choose store or update).  *)
StoresErased ==
    \A s \in Slot : \A part \in DOMAIN flash[s] : flash[s][part] # Garbled

(* A peer that can be recognised by its address has one entry at most, in  *)
(* RAM and in flash: a second one would be found never, or found stale.    *)
OnePerPeer ==
    \A s, t \in Slot : s # t =>
        /\ (table[s].addr \in Peer \ Resolvable => table[s].addr # table[t].addr)
        /\ LET e == Loaded(flash)
           IN  e[s].addr \in Peer \ Resolvable => e[s].addr # e[t].addr

(* With no link and nothing queued, the table in RAM is the one a restart  *)
(* would load: the module's view of who is bonded survives a power cycle   *)
(* (device_manager.h:35, "required to be retained").                       *)
FlashAgrees == (conn = Idle /\ queue = <<>>) => table = Loaded(flash)

(* A bond whose pairing was reported complete, and that nothing has        *)
(* revoked since, is in flash once the queue is empty: key and identity in *)
(* one block (device_manager.h:34: the information "is required to be      *)
(* retained on disconnection and power cycling").                          *)
BondsKept ==
    (conn = Idle /\ queue = <<>>) =>
        \A p \in Peer : peers.owed[p] # None =>
            \E s \in Slot : /\ DistributedKey(s) = peers.owed[p]
                            /\ table[s].addr = p

(* A peer that counts on its bond and is not connected is in a whitelist   *)
(* that has room for every bond (device_manager.h:546, the whitelist is    *)
(* made of the bonded devices).                                            *)
BondedListed ==
    \A p \in Peer : (peers.owed[p] # None /\ conn.peer # p) =>
        \E s \in Whitelist(MaxBonds, MaxBonds) : table[s].addr = p

(* Table, flash, queue and whitelist tell one story of who is bonded,      *)
(* whatever fails: the six properties above.                               *)
BondsSound ==
    BondsTypeOK /\ StoresErased /\ OnePerPeer /\ FlashAgrees /\ BondsKept
    /\ BondedListed
=============================================================================
