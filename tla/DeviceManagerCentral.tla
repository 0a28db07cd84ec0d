----------------------- MODULE DeviceManagerCentral --------------------------
(***************************************************************************)
(* device_manager_central.c under host_main.c: the host build's side of a  *)
(* bond.  The peer asks for security, host_main.c's event handler calls    *)
(* dm_security_setup_req, and the module pairs or encrypts with the key in *)
(* its bond buffer.  Its service context (GATT client) is empty: storing,  *)
(* loading and applying it do nothing.  Who connects is external:          *)
(* host_main.c itself only scans.                                          *)
(***************************************************************************)
EXTENDS DeviceManager

VARIABLES app,     \* m_application_table[0].state: {"busy", "queued"}
          handle,  \* device_id of host_main.c's m_dm_device_handle
          scan     \* host_main.c: "scanning", or "waiting" for the flash

vars == <<conn, table, bond, queue, flash, link, peers, app, handle, scan>>
Host == <<app, handle, scan>>

(* host_main.c's handle is a zeroed static; scan_start waits for the flash. *)
(* Its whitelist is made and dropped: m_scan_mode never selects it.         *)
ScanStart(q) == IF q = <<>> THEN "scanning" ELSE "waiting"

Restart(f) ==
    /\ StartsAgain(f, {})
    /\ app' = {} /\ handle' = 0 /\ scan' = ScanStart(<<>>)

Init == InitCommon /\ app = {} /\ handle = 0 /\ scan = ScanStart(<<>>)

(* Mutant of Connected: the key of the peer is not loaded. *)
ConnectedUnloaded(p) ==
    /\ Calm /\ conn = Idle
    /\ conn' = Attached(p)
    /\ link' = Down
    /\ UNCHANGED <<bond, table, queue, flash, peers, Host>>

Connected(p) ==
    /\ Calm /\ conn = Idle
    /\ conn' = Attached(p)
    /\ bond' = IF FoundByAddress(p) = {} THEN bond ELSE flash[conn'.dev].bond
    /\ link' = Down
    /\ UNCHANGED <<table, queue, flash, peers, Host>>

(* initiate_security_request. *)
Initiated(c) == [c EXCEPT !.state = (@ \ {"pending"}) \cup {"pairing"}]

(* The end of an event that sets start_sec_procedure: a queued request is  *)
(* started on the connection that waits, or forgotten when none does.      *)
Started(c, a, l) ==
    IF "queued" \notin a THEN conn' = c /\ app' = a /\ link' = l
    ELSE IF "pending" \in c.state
    THEN /\ conn' = Initiated(c) /\ app' = a \cup {"busy"}
         /\ link' = [l EXCEPT !.proc = "authenticating"]
    ELSE conn' = c /\ app' = a \ {"queued"} /\ link' = l

(* Mutant of Disconnected: a pairing cut off is not ended. *)
DisconnectedBusy ==
    /\ Calm /\ Has("connected")
    /\ IF Has("bonded")
       THEN /\ queue' = IF Has("encrypted")
                        THEN Queued(ContextOps(conn.dev, FALSE)) ELSE queue
            /\ UNCHANGED table
       ELSE /\ table' = IF conn.dev = None THEN table
                        ELSE [table EXCEPT ![conn.dev] = Unassigned]
            /\ UNCHANGED queue
    /\ conn' = Idle /\ link' = Down
    /\ UNCHANGED <<app, bond, flash, peers, handle, scan>>

(* Mutant of Disconnected: the entry of a bonded peer is kept only when the *)
(* link was encrypted.                                                      *)
DisconnectedFrees ==
    /\ Calm /\ Has("connected")
    /\ IF Has("bonded") /\ Has("encrypted")
       THEN /\ queue' = Queued(ContextOps(conn.dev, FALSE))
            /\ UNCHANGED table
       ELSE /\ table' = IF conn.dev = None THEN table
                        ELSE [table EXCEPT ![conn.dev] = Unassigned]
            /\ UNCHANGED queue
    /\ IF Has("pairing") THEN Started(Idle, app \ {"busy"}, Down)
       ELSE conn' = Idle /\ link' = Down /\ UNCHANGED app
    /\ UNCHANGED <<bond, flash, peers, handle, scan>>

Disconnected ==
    /\ Calm /\ Has("connected")
    /\ IF Has("bonded")
       THEN /\ queue' = IF Has("encrypted")
                        THEN Queued(ContextOps(conn.dev, FALSE)) ELSE queue
            /\ UNCHANGED table
       ELSE /\ table' = IF conn.dev = None THEN table
                        ELSE [table EXCEPT ![conn.dev] = Unassigned]
            /\ UNCHANGED queue
    /\ IF Has("pairing") THEN Started(Idle, app \ {"busy"}, Down)
       ELSE conn' = Idle /\ link' = Down /\ UNCHANGED app
    /\ UNCHANGED <<bond, flash, peers, handle, scan>>

(* SEC_REQUEST: the peer asks, and the handler of host_main.c sets up      *)
(* security with its own handle.                                           *)
SecRequest ==
    /\ Calm /\ Has("connected") /\ link.proc = None /\ ~link.secured
    /\ IF handle # None \/ conn.dev # None
       THEN /\ handle' = conn.dev
            /\ link' = [link EXCEPT !.proc = "encrypting", !.reply = bond]
            /\ UNCHANGED <<conn, table, bond, queue, flash, peers, app, scan>>
       ELSE IF FreeSlots = {} THEN Restart(flash)
       ELSE LET s == Least(FreeSlots)
                c == [conn EXCEPT !.dev = s]
            IN  /\ table' = [table EXCEPT ![s] = Allocated(conn.peer)]
                /\ handle' = s
                /\ IF "busy" \in app
                   THEN /\ conn' = [c EXCEPT !.state = @ \cup {"pending"}]
                        /\ app' = app \cup {"queued"}
                        /\ UNCHANGED link
                   ELSE /\ conn' = Initiated(c) /\ app' = app \cup {"busy"}
                        /\ link' = [link EXCEPT !.proc = "authenticating"]
                /\ UNCHANGED <<bond, queue, flash, peers, scan>>

SecParamsRequest ==
    /\ link.proc = "authenticating"
    /\ conn' = [conn EXCEPT !.state = @ \cup {"pairing"}]
    /\ link' = [link EXCEPT !.proc = "params"]
    /\ UNCHANGED <<table, bond, queue, flash, peers, Host>>

(* CONN_SEC_UPDATE on an encrypted link; and on one the peer left open,    *)
(* having no such key: a bonded peer is paired again.                      *)
SecUpdate ==
    /\ \/ /\ link.proc = "params"
          /\ link' = [link EXCEPT !.proc = "stk", !.secured = TRUE]
       \/ /\ link.proc = "encrypting"
          /\ link.reply # None /\ link.reply = peers.held[conn.peer]
          /\ link' = [link EXCEPT !.proc = None, !.secured = TRUE]
    /\ conn' = [conn EXCEPT !.state = @ \cup {"encrypted"}]
    /\ UNCHANGED <<table, bond, queue, flash, peers, Host>>

SecUpdateOpen ==
    /\ link.proc = "encrypting"
    /\ link.reply = None \/ link.reply # peers.held[conn.peer]
    /\ LET ended == [link EXCEPT !.proc = None, !.reply = None]
       IN  IF Has("bonded")
           THEN Started([conn EXCEPT !.state = @ \cup {"pending", "update"}],
                        app \cup {"queued"}, ended)
           ELSE /\ conn' = [conn EXCEPT !.state = @ \cup {"encrypted"}]
                /\ link' = ended /\ UNCHANGED app
    /\ UNCHANGED <<table, bond, queue, flash, peers, handle, scan>>

KeysDistributed ==
    /\ link.proc = "stk" /\ peers.keys < MaxKeys
    /\ LET key == <<conn.peer, peers.keys + 1>>
       IN  /\ bond' = key
           /\ peers' = [peers EXCEPT !.keys = @ + 1, !.held[conn.peer] = key,
                                     !.owed[conn.peer] = None]
    /\ table' = [table EXCEPT ![conn.dev].addr = conn.peer]
    /\ link' = [link EXCEPT !.proc = "distributed"]
    /\ UNCHANGED <<conn, queue, flash, Host>>

(* AUTH_STATUS: a failed pairing keeps its entry until the link goes. *)
AuthEnds(c) == Started([c EXCEPT !.state = @ \ {"pairing"}], app \ {"busy"},
                       [link EXCEPT !.proc = None])

AuthUnbonded ==  \* failed, or without bonding
    /\ Calm /\ link.proc \in {"authenticating", "params", "stk", "distributed"}
    /\ AuthEnds(conn)
    /\ UNCHANGED <<table, bond, queue, flash, peers, handle, scan>>

AuthBonded(idKey) ==
    /\ Calm /\ link.proc = "distributed"
    /\ table' = [table EXCEPT ![conn.dev] = Bonded(@, conn.peer, @.ediv, idKey)]
    /\ queue' = Queued(ContextOps(conn.dev, TRUE))
    /\ AuthEnds([conn EXCEPT !.state = {"bonded"} \cup
                    (@ \ {IF HasRoom THEN "update" ELSE "pairing"})])
    /\ peers' = [peers EXCEPT !.owed[conn.peer] = bond]
    /\ UNCHANGED <<bond, flash, handle, scan>>

SourceOf(o) == IF o.part = "peer" THEN table[o.slot] ELSE bond

(* on_sys_evt: a scan that waited for the flash is started. *)
ScanResumed(q) == IF scan = "waiting" THEN ScanStart(q) ELSE scan

(* The flash operation at the head ends. *)
FlashDone ==
    /\ queue # <<>>
    /\ flash' = CarriedOut(Head(queue), SourceOf(Head(queue)))
    /\ queue' = Tail(queue)
    /\ scan' = ScanResumed(queue')
    /\ UNCHANGED <<conn, table, bond, link, peers, app, handle>>

FlashFails == "flash" \in Faults /\ queue # <<>> /\ Restart(flash)

DeviceDelete(s) == table[s].ids # {} /\ Deleted({s}) /\ UNCHANGED Host
DeviceDeleteAll == Deleted(Assigned) /\ UNCHANGED Host

PowerLoss ==
    /\ "power" \in Faults
    /\ \E f \in {flash} \cup
                {CarriedOut(queue[i], SourceOf(queue[i])) : i \in 1 .. 1 \cap DOMAIN queue} :
          Restart(f)

PeerForgets(p) ==
    Forgotten(p) /\ UNCHANGED <<conn, table, bond, queue, flash, link, Host>>

Next ==
    \/ \E p \in Peer : Connected(p) \/ PeerForgets(p)
    \/ Disconnected \/ SecRequest \/ SecParamsRequest \/ SecUpdate \/ SecUpdateOpen
    \/ KeysDistributed \/ AuthUnbonded \/ \E idKey \in BOOLEAN : AuthBonded(idKey)
    \/ FlashDone \/ FlashFails \/ PowerLoss
    \/ DeviceDeleteAll \/ \E s \in Slot : DeviceDelete(s)

Spec == Init /\ [][Next]_vars

(***************************************************************************)
(* Properties.                                                             *)
(***************************************************************************)

(* The one security procedure of the application is taken exactly while    *)
(* the connection pairs: one that outlives its link, lost at any point of  *)
(* the pairing, would keep every later request waiting.                    *)
BusyPairs == "busy" \in app <=> Has("pairing")

(* A peer recognised as bonded is offered the key it counts on, whatever   *)
(* other peers did with the one bond buffer in between.                    *)
BondedKey ==
    (link.proc = "encrypting" /\ Has("bonded")) =>
        LET p == conn.peer
        IN  peers.owed[p] # None => link.reply = peers.owed[p]
=============================================================================
