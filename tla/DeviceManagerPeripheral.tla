---------------------- MODULE DeviceManagerPeripheral ------------------------
(***************************************************************************)
(* device_manager_peripheral.c as the device build uses it: a phone        *)
(* connects, encrypts the link with the key of an earlier bond or pairs,   *)
(* and the table, the key and the GATT server context of the phone are     *)
(* kept in flash.  device_main.c's event handler resets the device on      *)
(* every event with an error.  Events come one at a time from the          *)
(* SoftDevice; between them pstorage carries its operations out.           *)
(***************************************************************************)
EXTENDS DeviceManager

VARIABLE gatts  \* m_gatts_table[0]: whether it has a size, and attributes

vars == <<conn, table, bond, queue, flash, link, peers, gatts>>

NoContext == [kept |-> FALSE, attrs |-> "zero"]
Zeroed(g) == [g EXCEPT !.attrs = "zero"]
Restart(f, revoked) == StartsAgain(f, revoked) /\ gatts' = NoContext

Init == InitCommon /\ gatts = NoContext

(* bond_data_load and gatts_context_load, for a slot. *)
BondLoaded(s) == flash[s].bond
GattsLoaded(s) ==
    IF flash[s].gatts \in {Blank, Garbled}
    THEN [kept |-> FALSE, attrs |-> Blank] ELSE flash[s].gatts
LoadBond(s) == bond' = BondLoaded(s) /\ gatts' = GattsLoaded(s)

(* gatts_context_store: attributes are the SoftDevice's, if it has some;   *)
(* equal ones are not stored again.                                        *)
SameAttributes == gatts.attrs = link.cccd
GattsOps(s) ==
    IF link.cccd = "missing" \/ SameAttributes THEN <<>>
    ELSE <<Op(IF gatts.kept THEN "update" ELSE "store", s, "gatts")>>
GattsStored(connected) ==
    IF link.cccd = "missing" THEN gatts
    ELSE IF ~SameAttributes THEN [kept |-> TRUE, attrs |-> link.cccd]
    ELSE IF connected THEN gatts ELSE NoContext

(* gatts_context_apply: the stored attributes on an encrypted link of a    *)
(* peer whose bond is not being renewed, else none.                        *)
Applied(state) ==
    IF gatts.kept /\ "encrypted" \in state /\ "update" \notin state
    THEN IF gatts.attrs = "zero" THEN link.cccd ELSE gatts.attrs
    ELSE "off"

Connected(p) ==
    /\ Calm /\ conn = Idle
    /\ conn' = Attached(p)
    /\ IF FoundByAddress(p) = {} THEN UNCHANGED <<bond, gatts>>
       ELSE LoadBond(conn'.dev)
    /\ link' = Down
    /\ UNCHANGED <<table, queue, flash, peers>>

Disconnected ==
    /\ Calm /\ Has("connected")
    /\ IF Has("bonded")
       THEN /\ IF Has("encrypted")
               THEN /\ queue' = Queued(ContextOps(conn.dev, FALSE)
                                       \o GattsOps(conn.dev))
                    /\ gatts' = GattsStored(FALSE)
               ELSE UNCHANGED <<queue, gatts>>
            /\ UNCHANGED table
       ELSE /\ table' = IF conn.dev = None THEN table
                        ELSE [table EXCEPT ![conn.dev] = Unassigned]
            /\ UNCHANGED <<queue, gatts>>
    /\ conn' = Idle
    /\ link' = Down
    /\ UNCHANGED <<bond, flash, peers>>

(* Mutant of SecInfoRequest: the bond found by its key is not loaded. *)
SecInfoRequestUnloaded ==
    /\ Has("connected") /\ ~link.secured /\ link.proc = None
    /\ LET k == peers.held[conn.peer]
           found == {s \in Slot : table[s].ediv = k}
           Replied(key) ==
               link' = [link EXCEPT !.proc = IF key = k THEN "known" ELSE "unknown",
                                    !.reply = key]
       IN  /\ k # None
           /\ IF conn.dev = None /\ found # {}
              THEN /\ conn' = [conn EXCEPT !.dev = Least(found),
                                           !.state = @ \cup {"bonded"}]
                   /\ Replied(bond) /\ UNCHANGED <<bond, gatts>>
              ELSE /\ Replied(IF conn.dev = None THEN None ELSE bond)
                   /\ UNCHANGED <<conn, bond, gatts>>
    /\ UNCHANGED <<table, queue, flash, peers>>

(* The phone encrypts with the key it holds; the entry is looked up by the *)
(* key's diversifier when the address did not tell.                        *)
SecInfoRequest ==
    /\ Has("connected") /\ ~link.secured /\ link.proc = None
    /\ LET k == peers.held[conn.peer]
           found == {s \in Slot : table[s].ediv = k}
           Replied(key) ==
               link' = [link EXCEPT !.proc = IF key = k THEN "known" ELSE "unknown",
                                    !.reply = key]
       IN  /\ k # None
           /\ IF conn.dev = None /\ found # {}
              THEN /\ conn' = [conn EXCEPT !.dev = Least(found),
                                           !.state = @ \cup {"bonded"}]
                   /\ LoadBond(Least(found))
                   /\ Replied(BondLoaded(Least(found)))
              ELSE /\ Replied(IF conn.dev = None THEN None ELSE bond)
                   /\ UNCHANGED <<conn, bond, gatts>>
    /\ UNCHANGED <<table, queue, flash, peers>>

(* The phone pairs.  With no free entry the event carries an error. *)
SecParamsRequest ==
    /\ Calm /\ Has("connected") /\ link.proc \in {None, "unknown"}
    /\ IF conn.dev = None /\ FreeSlots = {}
       THEN Restart(flash, {})
       ELSE /\ IF conn.dev = None
               THEN /\ conn' = [conn EXCEPT !.dev = Least(FreeSlots),
                                            !.state = @ \cup {"pairing"}]
                    /\ table' = [table EXCEPT
                                    ![Least(FreeSlots)] = Allocated(conn.peer)]
                    /\ UNCHANGED gatts
               ELSE /\ conn' = [conn EXCEPT !.state = @ \cup {"pairing", "update"}]
                    /\ gatts' = Zeroed(gatts)
                    /\ UNCHANGED table
            /\ link' = [link EXCEPT !.proc = "params"]
            /\ UNCHANGED <<bond, queue, flash, peers>>

(* The SoftDevice writes the keys of a bonding to the buffers it was given. *)
KeysDistributed ==
    /\ link.proc = "stk" /\ peers.keys < MaxKeys
    /\ LET key == <<conn.peer, peers.keys + 1>>
       IN  /\ bond' = key
           /\ peers' = [peers EXCEPT !.keys = @ + 1, !.held[conn.peer] = key,
                                    !.owed[conn.peer] = None]
    /\ table' = [table EXCEPT ![conn.dev].addr = conn.peer]
    /\ link' = [link EXCEPT !.proc = "distributed"]
    /\ UNCHANGED <<conn, queue, flash, gatts>>

(* A failed pairing gives the entry back, also that of an existing bond,   *)
(* and the error resets the device: the erasure may still have happened.   *)
AuthFails ==
    /\ Calm /\ link.proc \in {"params", "stk", "distributed"}
    /\ \E f \in {flash} \cup {CarriedOut(QueueFreed({conn.dev})[1], bond)} :
          Restart(f, {conn.peer})

AuthUnbonded ==
    /\ Calm /\ link.proc = "stk"
    /\ conn' = [conn EXCEPT !.state = @ \ {"pairing"}]
    /\ link' = [link EXCEPT !.proc = None]
    /\ UNCHANGED <<table, bond, queue, flash, peers, gatts>>

AuthBonded(idKey) ==
    /\ Calm /\ link.proc = "distributed"
    /\ LET s == conn.dev
           ops == ContextOps(s, TRUE)
       IN  /\ table' = [table EXCEPT ![s] =
                 Bonded(@, conn.peer,
                        IF conn.peer \in Resolvable THEN bond ELSE @.ediv, idKey)]
           /\ queue' = Queued(ops \o GattsOps(s))
           /\ gatts' = GattsStored(TRUE)
           /\ conn' = [conn EXCEPT !.state = {"bonded"} \cup
                          (@ \ {"pairing", IF HasRoom THEN "update" ELSE "pairing"})]
    /\ link' = [link EXCEPT !.proc = None]
    /\ peers' = [peers EXCEPT !.owed[conn.peer] = bond]
    /\ UNCHANGED <<bond, flash>>

(* The link is encrypted: with the agreed key, or with the pairing's. *)
SecUpdateEncrypted ==
    /\ link.proc \in {"known", "params"}
    /\ LET state == conn.state \cup {"encrypted"}
       IN  /\ conn' = [conn EXCEPT !.state = state]
           /\ link' = [link EXCEPT !.secured = TRUE, !.cccd = Applied(state),
                          !.proc = IF @ = "known" THEN None ELSE "stk"]
    /\ UNCHANGED <<table, bond, queue, flash, peers, gatts>>

(* It stays open: the key replied was not the phone's.  Without a key to   *)
(* reply the SoftDevice reports nothing.                                   *)
SecUpdateOpen ==
    /\ link.proc = "unknown" /\ Has("bonded")
    /\ conn' = [conn EXCEPT !.state = @ \cup {"pending", "update"}]
    /\ gatts' = Zeroed(gatts)
    /\ link' = [link EXCEPT !.proc = None, !.reply = None]
    /\ UNCHANGED <<table, bond, queue, flash, peers>>

(* The phone reads or writes a configuration descriptor. *)
SysAttrMissing ==
    /\ Has("connected") /\ link.cccd = "missing"
    /\ link' = [link EXCEPT !.cccd = Applied(conn.state)]
    /\ UNCHANGED <<conn, table, bond, queue, flash, peers, gatts>>

Subscribe ==
    /\ Has("connected") /\ link.cccd # "missing"
    /\ link' = [link EXCEPT !.cccd = conn.peer]
    /\ UNCHANGED <<conn, table, bond, queue, flash, peers, gatts>>

(* pstorage carries out the operation at the head, and the callback        *)
(* (dm_pstorage_cb_handler) resets the context it has stored when the link *)
(* is gone; device_manager_evt_handler resets the device on a failure.     *)
SourceOf(part) ==
    CASE part = "bond" -> bond [] part = "gatts" -> gatts [] OTHER -> None
FlashDone ==
    /\ queue # <<>>
    /\ LET o == Head(queue)
       IN  /\ flash' = CarriedOut(o, IF o.part = "peer" THEN table[o.slot]
                                     ELSE SourceOf(o.part))
           /\ gatts' = IF o.part = "gatts" /\ ~Has("connected") THEN NoContext
                       ELSE gatts
    /\ queue' = Tail(queue)
    /\ UNCHANGED <<conn, table, bond, link, peers>>

FlashFails == "flash" \in Faults /\ queue # <<>> /\ Restart(flash, {})

DeviceDelete(s) == table[s].ids # {} /\ Deleted({s}) /\ UNCHANGED gatts
DeviceDeleteAll == Deleted(Assigned) /\ UNCHANGED gatts

PowerLoss ==
    /\ "power" \in Faults
    /\ \E done \in BOOLEAN :
          IF done /\ queue # <<>>
          THEN LET o == Head(queue)
               IN  Restart(CarriedOut(o, IF o.part = "peer" THEN table[o.slot]
                                         ELSE SourceOf(o.part)), {})
          ELSE Restart(flash, {})

PeerForgets(p) ==
    Forgotten(p) /\ UNCHANGED <<conn, table, bond, queue, flash, link, gatts>>

Next ==
    \/ \E p \in Peer : Connected(p) \/ PeerForgets(p)
    \/ Disconnected \/ SecInfoRequest \/ SecParamsRequest \/ KeysDistributed
    \/ AuthFails \/ AuthUnbonded \/ \E idKey \in BOOLEAN : AuthBonded(idKey)
    \/ SecUpdateEncrypted \/ SecUpdateOpen \/ SysAttrMissing \/ Subscribe
    \/ FlashDone \/ FlashFails \/ PowerLoss
    \/ DeviceDeleteAll \/ \E s \in Slot : DeviceDelete(s)

Spec == Init /\ [][Next]_vars

(***************************************************************************)
(* Properties.                                                             *)
(***************************************************************************)

(* A phone that encrypts with a key it may count on gets that key; whoever *)
(* asks, it never gets another phone's key (SEC_INFO_REQUEST); and the     *)
(* application is not told of an encryption the link lacks                 *)
(* (dm_security_status_req).                                               *)
BondsHonoured ==
    /\ SecurityStatus = "encrypted" => link.secured
    /\ link.proc = "unknown" => peers.held[conn.peer] # peers.owed[conn.peer]
    /\ link.reply \in Key => link.reply[1] = conn.peer
=============================================================================
