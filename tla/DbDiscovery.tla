----------------------------- MODULE DbDiscovery ------------------------------
(***************************************************************************)
(* ble_db_discovery.c, which host_main.c initialises and hands its events: *)
(* the services registered by users are looked up one after the other at   *)
(* the peer, then their characteristics, then the descriptors of each, and *)
(* the users are told when the last service is done.  The application that *)
(* registers and starts, and the peer, are external.                       *)
(*                                                                         *)
(* A peer's service is a sequence of attributes, its handles the indices:  *)
(* "service", then per characteristic "decl", "value" and descriptors:     *)
(* "cccd" the one that is looked for, "custom" one with a 128-bit UUID.    *)
(* Indices count from 1.                                                   *)
(***************************************************************************)
EXTENDS Naturals, Sequences, SequencesExt, FiniteSets

CONSTANTS Service,   \* services a user may register for
          Layouts,   \* what the peer may have for one; <<>> when it has none
          MaxUsers,  \* BLE_DB_DISCOVERY_MAX_SRV
          MaxChars,  \* BLE_DB_DISCOVERY_MAX_CHAR_PER_SRV
          Batch,     \* the most characteristics in one response
          DescBatch  \* the most descriptors with short UUIDs in one

\* The arrays have room, a response has an entry, and the peer is a GATT
\* server: the declaration of a characteristic is followed by its value.
ASSUME DiscoveryAssumption ==
    /\ MaxUsers \in Nat \ {0} /\ MaxChars \in Nat \ {0} /\ Batch \in Nat \ {0}
    /\ DescBatch \in Nat \ {0}
    /\ \A l \in Layouts :
          /\ l \in Seq({"service", "decl", "value", "cccd", "desc", "custom"})
          /\ \A h \in 1 .. Len(l) :
                l[h] = "decl" => h < Len(l) /\ l[h + 1] = "value"

VARIABLES ready,  \* m_initialized
          reg,    \* m_registered_handlers: the services in order
          pend,   \* m_pending_user_evts
          made,   \* m_num_of_discoveries_made
          db,     \* the ble_db_discovery_t
          req,    \* the request outstanding at the SoftDevice
          up,     \* a connection
          peer,   \* Service -> layout
          told    \* the events given to the users since the last start

discoveryVars == <<ready, reg, pend, made, db, req, up, peer, told>>

NoRequest == [kind |-> "none", from |-> 0, to |-> 0]
ZeroDb == [busy |-> FALSE, srv |-> 1, char |-> 1, end |-> 0,
           found |-> [i \in 1 .. MaxUsers |-> <<>>]]

Found == db.found[db.srv]

DiscoveryInit ==
    /\ ready = TRUE /\ reg = <<>> /\ pend = <<>> /\ made = 0
    /\ db = ZeroDb /\ req = NoRequest /\ up = FALSE
    /\ peer \in [Service -> Layouts]
    /\ told = <<>>

(***************************************************************************)
(* The peer.  To a request for characteristics it answers with some of the *)
(* first in the range, in the order of their handles, at least one if      *)
(* there is one; to a request for descriptors, with the first in the range *)
(* that fit one response, which holds UUIDs of one size only and a single  *)
(* long one.                                                               *)
(***************************************************************************)
Decls(l, from, to) == {h \in from .. to : h \in DOMAIN l /\ l[h] = "decl"}
Characteristic(h) == [decl |-> h, value |-> h + 1, cccd |-> 0]

InOrder(chars) ==
    \A i, j \in DOMAIN chars : i < j => chars[i].decl < chars[j].decl
DeclsOf(chars) == {chars[i].decl : i \in DOMAIN chars}

CharsIn(l, from, to) ==
    LET all == Decls(l, from, to)
    IN  {got \in SeqOf({Characteristic(h) : h \in all}, Batch) :
            /\ InOrder(got) /\ (all # {} => got # <<>>)
            /\ \A h \in all : \A g \in DeclsOf(got) : h <= g => h \in DeclsOf(got)}

DescsIn(l, from, to) ==
    {h \in from .. to :
        /\ h - from < IF l[from] = "custom" THEN 1 ELSE DescBatch
        /\ \A g \in from .. h : l[g] = "custom" <=> l[from] = "custom"}

CccdAmong(l, handles) ==
    LET S == {h \in handles : l[h] = "cccd"}
    IN  IF S = {} THEN 0 ELSE CHOOSE h \in S : \A g \in S : h <= g

(***************************************************************************)
(* The module.  Operators take and give the variables a handler changes as *)
(* one record.                                                             *)
(***************************************************************************)
Now == [pend |-> pend, made |-> made, db |-> db, req |-> NoRequest, told |-> told]
Becomes(m) ==
    /\ pend' = m.pend /\ made' = m.made /\ db' = m.db /\ req' = m.req
    /\ told' = m.told

(* pending_user_evts_send, once there is an event for every registration. *)
Sent(m) ==
    IF Len(m.pend) # Len(reg) THEN m
    ELSE [m EXCEPT !.pend = <<>>, !.told = @ \o m.pend]

(* registered_handler_get: the first that registered for the service. *)
Handler(handlers, s) ==
    CHOOSE i \in DOMAIN handlers :
       handlers[i] = s /\ \A j \in DOMAIN handlers : handlers[j] = s => i <= j

(* discovery_complete_evt_trigger and discovery_error_evt_trigger: an      *)
(* event for the user of the service being discovered.                     *)
Triggered(m, type) ==
    IF m.db.srv > Len(reg) \/ Len(m.pend) >= MaxUsers THEN m
    ELSE Sent([m EXCEPT !.pend = Append(@,
             [user |-> Handler(reg, reg[m.db.srv]), srv |-> reg[m.db.srv], type |-> type,
              chars |-> IF type = "complete" THEN m.db.found[m.db.srv] ELSE <<>>])])

(* A call into the SoftDevice: made, or refused with an error event. *)
Asked(m, request, ok) ==
    IF ok THEN [m EXCEPT !.req = request]
    ELSE Triggered([m EXCEPT !.db.busy = FALSE], "error")

ServiceRequest == [kind |-> "service", from |-> 1, to |-> 0]

(* on_srv_disc_completion. *)
NextService(m, ok) ==
    LET n == m.made + 1
    IN  IF n < Len(reg)
        THEN Asked([m EXCEPT !.made = n, !.db.char = 1, !.db.srv = @ + 1,
                             !.db.found[m.db.srv + 1] = <<>>], ServiceRequest, ok)
        ELSE [m EXCEPT !.made = n, !.db.busy = FALSE]

Completed(m, type, ok) == NextService(Triggered(m, type), ok)

(* characteristics_discover: from the last known one, or the start. *)
CharsRequest(m) ==
    [kind |-> "chars", to |-> m.db.end,
     from |-> IF m.db.char = 1 THEN 1
              ELSE m.db.found[m.db.srv][m.db.char - 1].value + 1]

(* Mutant of DescRange: the descriptors of all that follow. *)
DescRangeToEnd(m, i) ==
    [from |-> m.db.found[m.db.srv][i].value + 1, to |-> m.db.end]

(* is_desc_discovery_reqd: the handles between a value and what follows.   *)
DescRange(m, i) ==
    LET chars == m.db.found[m.db.srv]
    IN  [from |-> chars[i].value + 1,
         to |-> IF i = Len(chars) THEN m.db.end ELSE chars[i + 1].decl - 1]

(* descriptors_discover: the next characteristic with descriptors, if any. *)
WithDescs(m) ==
    {i \in m.db.char .. Len(m.db.found[m.db.srv]) :
        DescRange(m, i).from <= DescRange(m, i).to}
DescsDiscovered(m, ok) ==
    IF WithDescs(m) = {} THEN Completed(m, "complete", ok)
    ELSE LET i == CHOOSE i \in WithDescs(m) : \A j \in WithDescs(m) : i <= j
             r == DescRange(m, i)
         IN  Asked([m EXCEPT !.db.char = i],
                   [kind |-> "descs", from |-> r.from, to |-> r.to], ok)

(* on_primary_srv_discovery_rsp. *)
OnService(ok) ==
    /\ req.kind = "service"
    /\ LET l == peer[reg[db.srv]]
           m == [Now EXCEPT !.db.end = Len(l)]
       IN  Becomes(IF l = <<>> THEN Completed(Now, "not found", ok)
                   ELSE Asked(m, CharsRequest(m), ok))

(* on_characteristic_discovery_rsp. *)
OnChars(ok) ==
    /\ req.kind = "chars"
    /\ \E got \in CharsIn(peer[reg[db.srv]], req.from, req.to) :
       LET chars == LET both == Found \o got
                    IN  SubSeq(both, 1, IF Len(both) <= MaxChars THEN Len(both)
                                        ELSE MaxChars)
           m == [Now EXCEPT !.db.found[db.srv] = chars]
           more == /\ Last(chars).value < db.end
                   /\ Len(chars) # MaxChars
           next == [m EXCEPT !.db.char = Len(chars) + 1]
       IN  Becomes(IF got # <<>> /\ more THEN Asked(next, CharsRequest(next), ok)
                   ELSE DescsDiscovered([m EXCEPT !.db.char = 1], ok))

(* on_descriptor_discovery_rsp: what one response holds is all there is. *)
OnDescs(ok) ==
    /\ req.kind = "descs"
    /\ LET l == peer[reg[db.srv]]
           cccd == CccdAmong(l, DescsIn(l, req.from, req.to))
           m == [Now EXCEPT !.db.found[db.srv][db.char].cccd =
                               IF cccd = 0 THEN @ ELSE cccd]
       IN  Becomes(IF db.char = Len(Found) THEN Completed(m, "complete", ok)
                   ELSE DescsDiscovered([m EXCEPT !.db.char = @ + 1], ok))

(* ble_db_discovery_on_ble_evt: responses come while the link is up.       *)
OnResponse ==
    /\ up /\ ready
    /\ \E ok \in BOOLEAN : OnService(ok) \/ OnChars(ok) \/ OnDescs(ok)
    /\ UNCHANGED <<ready, reg, up, peer>>

OnConnected ==
    /\ ~up /\ up' = TRUE
    /\ UNCHANGED <<ready, reg, pend, made, db, req, peer, told>>

(* Nothing is cleared while the module is not initialised. *)
OnDisconnected ==
    /\ up /\ up' = FALSE
    /\ db' = (IF ready THEN ZeroDb ELSE db) /\ req' = NoRequest
    /\ UNCHANGED <<ready, reg, pend, made, peer, told>>

(* ble_db_discovery_evt_register. *)
Register(s) ==
    /\ ready /\ Len(reg) < MaxUsers
    /\ reg' = Append(reg, s)
    /\ UNCHANGED <<ready, pend, made, db, req, up, peer, told>>

(* Mutant of Start: events of an earlier discovery still wait. *)
StartKeepsPending(ok) ==
    /\ ready /\ up /\ reg # <<>> /\ db = ZeroDb
    /\ made' = 0
    /\ IF ok THEN db' = [db EXCEPT !.busy = TRUE] /\ req' = ServiceRequest
       ELSE UNCHANGED <<db, req>>
    /\ told' = <<>>
    /\ UNCHANGED <<ready, reg, pend, up, peer>>

(* ble_db_discovery_start; the structure must be zero                      *)
(* (ble_db_discovery.h:107), which a disconnection makes it.               *)
Start(ok) ==
    /\ ready /\ up /\ reg # <<>> /\ db = ZeroDb
    /\ made' = 0 /\ pend' = <<>>
    /\ IF ok THEN db' = [db EXCEPT !.busy = TRUE] /\ req' = ServiceRequest
       ELSE UNCHANGED <<db, req>>
    /\ told' = <<>>
    /\ UNCHANGED <<ready, reg, up, peer>>

(* ble_db_discovery_close and ble_db_discovery_init, between discoveries. *)
Close ==
    /\ ready /\ ~db.busy
    /\ ready' = FALSE /\ reg' = <<>> /\ made' = 0 /\ pend' = <<>>
    /\ UNCHANGED <<db, req, up, peer, told>>

Open ==
    /\ ~ready
    /\ ready' = TRUE /\ reg' = <<>> /\ made' = 0 /\ pend' = <<>>
    /\ UNCHANGED <<db, req, up, peer, told>>

DiscoveryNext ==
    \/ OnConnected \/ OnDisconnected \/ OnResponse \/ Close \/ Open
    \/ \E s \in Service : Register(s)
    \/ \E ok \in BOOLEAN : Start(ok)

DiscoverySpec == DiscoveryInit /\ [][DiscoveryNext]_discoveryVars

(***************************************************************************)
(* Properties.                                                             *)
(***************************************************************************)

(* No list grows past its array, and every index is one of its entries or   *)
(* the next (m_registered_handlers, m_pending_user_evts, ble_db_discovery_t). *)
DiscoveryTypeOK ==
    /\ reg \in SeqOf(Service, MaxUsers)
    /\ Len(pend) <= MaxUsers /\ made \in 0 .. MaxUsers
    /\ db.srv \in 1 .. MaxUsers /\ db.char \in 1 .. MaxChars + 1
    /\ \A i \in 1 .. MaxUsers : Len(db.found[i]) <= MaxChars
    /\ req.kind \in {"none", "service", "chars", "descs"}

(* The descriptors of a characteristic are the handles up to the next one; *)
(* they fit one response when they are short and few, or a single one.     *)
RangeEnd(chars, l, i) == IF i = Len(chars) THEN Len(l) ELSE chars[i + 1].decl - 1
OwnDescs(chars, l, i) == chars[i].value + 1 .. RangeEnd(chars, l, i)
OneResponse(chars, l, i) ==
    \/ RangeEnd(chars, l, i) <= chars[i].value + 1
    \/ /\ RangeEnd(chars, l, i) - chars[i].value <= DescBatch
       /\ \A h \in OwnDescs(chars, l, i) : l[h] # "custom"

(* What a user is told of a service is what the peer has: every            *)
(* characteristic, each with its own client configuration descriptor and   *)
(* never a neighbour's; it may be taken for absent only where the          *)
(* descriptors do not fit one response.                                    *)
Describes(chars, l) ==
    /\ InOrder(chars) /\ DeclsOf(chars) = Decls(l, 1, Len(l))
    /\ \A i \in DOMAIN chars :
          /\ chars[i].value = chars[i].decl + 1
          /\ \/ chars[i].cccd = CccdAmong(l, OwnDescs(chars, l, i))
             \/ chars[i].cccd = 0 /\ ~OneResponse(chars, l, i)

RightOf(e) ==
    /\ e.type = "complete" => Describes(e.chars, peer[e.srv])
    /\ e.type = "not found" => peer[e.srv] = <<>>

ToldRight == \A i \in DOMAIN told : RightOf(told[i])

(* What the structure promises (ble_db_discovery.h:88): the handle of the  *)
(* descriptor is invalid only "if a CCCD is not present at the server".    *)
CccdFound ==
    \A i \in DOMAIN told : told[i].type = "complete" =>
       LET chars == told[i].chars  l == peer[told[i].srv]
       IN  \A c \in DOMAIN chars :
              chars[c].cccd = 0 => CccdAmong(l, OwnDescs(chars, l, c)) = 0

(* When a discovery comes to its end with no call refused, every user has  *)
(* been told since the start as often as services lead to it: once, when   *)
(* nobody else registered for its service, and never when another did so   *)
(* before it; the events wait in a list until the last service is done.    *)
EveryUserTold ==
    [][(db.busy /\ ~db'.busy /\ up' /\ made' = Len(reg)) =>
          \A i \in DOMAIN reg :
             Cardinality({k \in DOMAIN told' : told'[k].user = i})
                = Cardinality({k \in DOMAIN reg : Handler(reg, reg[k]) = i})]_discoveryVars

(* A discovery goes on while and only while a request is outstanding at    *)
(* the peer: otherwise it would never end, or end under a late response.   *)
NeverStuck == ready => (db.busy <=> req # NoRequest)

(* The module's records stay in range, a discovery has its request, and     *)
(* what is told is right.                                                   *)
DiscoveryRight == DiscoveryTypeOK /\ NeverStuck /\ ToldRight
=============================================================================
