------------------------------ MODULE DeviceLink ------------------------------
(***************************************************************************)
(* The device role on the air: juma_data_service.c, the events of          *)
(* device_main.c, the messages sysmsg.c hands on (those of the update are  *)
(* in Ota), ble_device_send of loader.c and the advertising data, with a   *)
(* phone that may leave a message unfinished, repeat a write, or vanish.   *)
(*                                                                         *)
(* The phone puts a message into the first write of the command            *)
(* characteristic and what does not fit into writes of bulkout.  A byte is *)
(* <<id, i, v>>: the i-th of the id-th message on this link, and the value *)
(* v of the length byte.  The application echoes, as the echo example.     *)
(***************************************************************************)
EXTENDS Advertising

CONSTANTS Chunk,       \* bytes of one write or notification (20)
          MaxMessage,  \* MAX_MESSAGE_LENGTH (200)
          Kinds,       \* kinds of messages the phone sends
          Lengths,     \* their lengths, without the header
          MaxMsgs,     \* bound: messages on one link
          MaxAir,      \* bound: writes on the way
          TxBuffers,   \* notifications the SoftDevice can hold
          Names,       \* names the application uses
          Ads          \* other data and responses, <<ad, sr>>, for ble_advdata_set

Header == 2  \* HEADER_LENGTH

ASSUME LinkAssumption ==
    /\ Chunk \in Nat /\ Chunk > Header /\ MaxMessage \in Nat /\ MaxMessage >= Chunk
    /\ Lengths \subseteq Nat
    /\ MaxMsgs \in Nat /\ MaxAir \in Nat /\ TxBuffers \in Nat

VARIABLES
    app,    \* an application is loaded
    sd,     \* the SoftDevice: up, closing (disconnect was called), adv
    handle, \* p_data->conn_handle and m_conn_handle are valid
    rx,     \* the message buffer and offset, and whether a command longer
            \* than the buffer was taken since the reset (history)
    air,    \* writes the device has not handled: <<characteristic, bytes>>
    out,    \* notifications the phone has not got
    phone,  \* messages begun on this link, how much of each is written,
            \* and the notifications it got
    heard,  \* messages handed to juma_data_evt_handler on this link (history)
    ad      \* the name and the advertising data at the SoftDevice, what they
            \* were made of, and the length of the shortest name with which the
            \* encoders wrote behind their buffers, 0 for none (history)

linkVars == <<app, sd, handle, rx, air, out, phone, heard, ad>>

-----------------------------------------------------------------------------
\* The service: its characteristics and what they allow, in their order.

Command == {"write"}
Bulkout == {"write without response"}
Event   == {"notify"}
Bulkin  == {"notify"}
Service == [command |-> Command, bulkout |-> Bulkout,
            event |-> Event, bulkin |-> Bulkin]

-----------------------------------------------------------------------------
\* Messages.

Zero == <<0, 0, 0>>
Empty == [buffer |-> [i \in 1 .. MaxMessage |-> Zero], offset |-> 0, long |-> FALSE]
Silent == [msgs |-> <<>>, sent |-> <<>>, got |-> <<>>]

Size(m) == Header + m.len
Bytes(id, m) == [i \in 1 .. Size(m) |-> <<id, i, IF i = 2 THEN m.len ELSE 0>>]

(* The length of the message in a buffer, by its second byte. *)
Declared(buffer) == Header + buffer[2][3]

(* memcpy into the message buffer; what does not fit falls behind it. *)
Copied(buffer, at, d) ==
    [i \in 1 .. MaxMessage |-> IF i - at \in 1 .. Len(d) THEN d[i - at]
                               ELSE buffer[i]]

(* What the handler reads as the message; behind the buffer it is other data. *)
Handed(buffer) ==
    [i \in 1 .. Declared(buffer) |-> IF i <= MaxMessage THEN buffer[i] ELSE Zero]

-----------------------------------------------------------------------------
\* Advertising data and the name; start-up.

OwnAd == [NoAd EXCEPT !.name = "full", !.flags = TRUE, !.all = <<<<144, 254>>>>]

Shown(of, name, data, spilled) ==
    [name |-> name, of |-> of, made |-> name, data |-> data, spilled |-> spilled]

(* encoded_advdata and encoded_scan_rsp_data have been filled with these.    *)
Spilled(name, data) ==
    IF Len(data) <= MaxSize THEN ad.spilled
    ELSE IF ad.spilled = 0 \/ Len(name) < ad.spilled THEN Len(name)
    ELSE ad.spilled

(* main() from reset up to the main loop.  In update mode it sets the name   *)
(* and advertises; an application does so in on_ready.                       *)
Started(n, spilled) ==
    /\ Encoded(OwnAd, n).ok
    /\ sd' = [up |-> FALSE, closing |-> FALSE, adv |-> TRUE]
    /\ handle' = FALSE /\ rx' = Empty /\ air' = <<>> /\ out' = <<>>
    /\ phone' = Silent /\ heard' = <<>>
    /\ ad' = Shown(OwnAd, n, Encoded(OwnAd, n).data, spilled)

(* NVIC_SystemReset, by a message or by app_error_handler. *)
Reset == UNCHANGED app /\ \E n \in Names : Started(n, ad.spilled)

LinkInit ==
    /\ app \in BOOLEAN
    /\ sd = [up |-> FALSE, closing |-> FALSE, adv |-> TRUE]
    /\ handle = FALSE /\ rx = Empty /\ air = <<>> /\ out = <<>>
    /\ phone = Silent /\ heard = <<>>
    /\ \E n \in Names : /\ Encoded(OwnAd, n).ok
                        /\ ad = Shown(OwnAd, n, Encoded(OwnAd, n).data, 0)

(* Bound: names and data change between links, which do not look at them.    *)
Between == ~sd.up /\ ~handle

(* ble_device_set_name by the application: data that cannot be encoded is an *)
(* error, and an error resets, but what was encoded by then has been written. *)
SetName(n) ==
    LET e == Encoded(OwnAd, n)
    IN  /\ app /\ Between
        /\ \/ /\ ~e.ok /\ UNCHANGED app
              /\ \E m \in Names : Started(m, Spilled(n, e.data))
           \/ /\ e.ok
              /\ ad' = Shown(OwnAd, n, e.data, Spilled(n, e.data))
              /\ UNCHANGED <<app, sd, handle, rx, air, out, phone, heard>>

(* ble_advdata_set by a caller that looks at the error: nothing reaches the  *)
(* SoftDevice unless both the data and the response could be encoded.        *)
AdvdataSet(of, response) ==
    LET e == Encoded(of, ad.name)
        r == IF e.ok THEN Response(response, ad.name) ELSE e
        spilled == IF Len(e.data) > MaxSize THEN Spilled(ad.name, e.data)
                   ELSE Spilled(ad.name, r.data)
    IN  /\ Between
        /\ ad' = IF r.ok THEN Shown(of, ad.name, e.data, spilled)
                 ELSE [ad EXCEPT !.spilled = spilled]
        /\ UNCHANGED <<app, sd, handle, rx, air, out, phone, heard>>

(* What the SoftDevice refuses is an error. *)
StartAdvertising ==
    /\ app
    /\ \/ (sd.adv \/ sd.up) /\ Reset
       \/ /\ ~sd.adv /\ ~sd.up
          /\ sd' = [sd EXCEPT !.adv = TRUE]
          /\ UNCHANGED <<app, handle, rx, air, out, phone, heard, ad>>

StopAdvertising ==
    /\ app
    /\ \/ ~sd.adv /\ Reset
       \/ /\ sd.adv
          /\ sd' = [sd EXCEPT !.adv = FALSE]
          /\ UNCHANGED <<app, handle, rx, air, out, phone, heard, ad>>

-----------------------------------------------------------------------------
\* Answers.

(* juma_event_send; ble_device_send does not look at its error. *)
EventSend(packet) ==
    IF handle /\ sd.up /\ "notify" \in Service.event /\ Len(out) < TxBuffers
    THEN Append(out, packet) ELSE out

(* The packet of ble_device_send: what is longer is cut off. *)
Packet(type, len) ==
    <<type, IF len > Chunk - Header THEN Chunk - Header ELSE len>>

(* system_on_message and ble_device_on_message: what a message is answered.  *)
Answer(kind, len) ==
    IF kind = "user" /\ app THEN <<Packet("user", len)>>
    ELSE IF kind = "id" /\ len = 1 THEN <<Packet("id", 16)>>
    ELSE IF kind = "statue" THEN <<Packet("statue", 1)>>
    ELSE <<>>

(* device_option: what its first byte asks for, when it is there. *)
Option(kind, len) == IF len = 0 THEN "none" ELSE kind

(* ble_device_disconnect on a link that is closing, or gone already, is      *)
(* refused: an error.                                                        *)
DisconnectFails == handle /\ (sd.closing \/ ~sd.up)
Closing == [sd EXCEPT !.closing = handle]

(* juma_data_evt_handler, for the message in the buffer; a first byte that   *)
(* is not the first of a message may stand for any kind.                     *)
Deliver(buffer) ==
    \E kind \in IF buffer[1][2] = 1 THEN {phone.msgs[buffer[1][1]].kind} ELSE Kinds :
    LET len == Declared(buffer) - Header
        option == Option(kind, len)
    IN  IF option = "reset" \/ (option = "drop" /\ DisconnectFails) THEN Reset
        ELSE /\ heard' = Append(heard, Handed(buffer))
             /\ out' = IF Answer(kind, len) = <<>> THEN out
                       ELSE EventSend(Answer(kind, len)[1])
             /\ sd' = IF option = "drop" THEN Closing ELSE sd
             /\ rx' = [rx EXCEPT !.buffer = buffer, !.offset = Declared(buffer)]
             /\ air' = Tail(air)
             /\ UNCHANGED <<app, handle, phone, ad>>

Kept(state) == /\ rx' = state /\ air' = Tail(air)
               /\ UNCHANGED <<app, sd, handle, out, phone, heard, ad>>

-----------------------------------------------------------------------------
\* juma_data_on_ble_evt, after it on_ble_evt of device_main.c.

(* Mutant of CommandWrite: the offset is not set to what was received. *)
CommandWriteKeepsOffset ==
    /\ air # <<>> /\ Head(air)[1] = "command"
    /\ LET d == Head(air)[2]
           buffer == Copied(rx.buffer, 0, d)
       IN  IF Len(d) < 2 \/ Declared(rx.buffer) > MaxMessage THEN Kept(rx)
           ELSE IF d[2][3] + Header = Len(d) THEN Deliver(buffer)
           ELSE Kept([rx EXCEPT !.buffer = buffer])

(* on_command_value_write; the length checked is that of the message before. *)
CommandWrite ==
    /\ air # <<>> /\ Head(air)[1] = "command"
    /\ LET d == Head(air)[2]
           buffer == Copied(rx.buffer, 0, d)
       IN  IF Len(d) < 2 \/ Declared(rx.buffer) > MaxMessage THEN Kept(rx)
           ELSE IF d[2][3] + Header = Len(d) THEN Deliver(buffer)
           ELSE Kept([buffer |-> buffer, offset |-> Len(d),
                      long |-> rx.long \/ Declared(buffer) > MaxMessage])

(* Mutant of BulkWrite: what is behind the end of the message is counted. *)
BulkWriteUnchecked ==
    /\ air # <<>> /\ Head(air)[1] = "bulkout"
    /\ LET d == Head(air)[2]
           buffer == Copied(rx.buffer, rx.offset, d)
           end == rx.offset + Len(d)
       IN  IF end = Declared(buffer) THEN Deliver(buffer)
           ELSE Kept([rx EXCEPT !.buffer = buffer, !.offset = end])

(* Mutant of BulkWrite: a write that ends the message is refused. *)
BulkWriteShort ==
    /\ air # <<>> /\ Head(air)[1] = "bulkout"
    /\ LET d == Head(air)[2]
           end == rx.offset + Len(d)
       IN  IF end >= Declared(rx.buffer) THEN Kept(rx)
           ELSE Kept([rx EXCEPT !.buffer = Copied(rx.buffer, rx.offset, d),
                                !.offset = end])

(* on_bulk_value_write; the room in the buffer is not looked at. *)
BulkWrite ==
    /\ air # <<>> /\ Head(air)[1] = "bulkout"
    /\ LET d == Head(air)[2]
           buffer == Copied(rx.buffer, rx.offset, d)
           end == rx.offset + Len(d)
       IN  IF end > Declared(rx.buffer) THEN Kept(rx)
           ELSE IF end = Declared(buffer) THEN Deliver(buffer)
           ELSE Kept([rx EXCEPT !.buffer = buffer, !.offset = end])

OnConnect ==
    /\ sd.up /\ ~handle
    /\ handle' = TRUE /\ rx' = [rx EXCEPT !.offset = 0]
    /\ UNCHANGED <<app, sd, air, out, phone, heard, ad>>

(* Mutant of OnDisconnect: the device does not advertise again. *)
OnDisconnectSilent ==
    /\ handle /\ ~sd.up /\ air = <<>>
    /\ sd' = [sd EXCEPT !.closing = FALSE]
    /\ handle' = FALSE /\ phone' = Silent /\ heard' = <<>>
    /\ UNCHANGED <<app, rx, air, out, ad>>

(* Without an application the device advertises again itself; with one it    *)
(* does so, or does not, in ble_device_on_disconnect.                        *)
OnDisconnect ==
    /\ handle /\ ~sd.up /\ air = <<>>
    /\ \E again \in IF app THEN BOOLEAN ELSE {TRUE} :
          IF again /\ sd.adv THEN Reset
          ELSE /\ sd' = [up |-> FALSE, closing |-> FALSE, adv |-> again \/ sd.adv]
               /\ handle' = FALSE /\ phone' = Silent /\ heard' = <<>>
               /\ UNCHANGED <<app, rx, air, out, ad>>

-----------------------------------------------------------------------------
\* The phone and the air.

(* The radio takes longer than the event of the link before.  Bound: links   *)
(* are made under the device's own data, which they do not look at, and the  *)
(* history of the encoders ends there.                                       *)
Connect ==
    /\ sd.adv /\ ~handle
    /\ ad = Shown(OwnAd, ad.name, Encoded(OwnAd, ad.name).data, ad.spilled)
    /\ sd' = [up |-> TRUE, closing |-> FALSE, adv |-> FALSE]
    /\ ad' = [ad EXCEPT !.spilled = 0]
    /\ UNCHANGED <<app, handle, rx, air, out, phone, heard>>

(* A write to a characteristic that allows it, of bytes i to k of the last   *)
(* message of msgs; sent tells how much of each is written.                  *)
Send(char, how, msgs, i, k) ==
    /\ sd.up /\ handle /\ Len(air) < MaxAir /\ how \in Service[char]
    /\ air' = Append(air, <<char, SubSeq(Bytes(Len(msgs), Last(msgs)), i, k)>>)
    /\ phone' = [phone EXCEPT !.msgs = msgs,
                     !.sent = [j \in 1 .. Len(msgs) |->
                                  IF j = Len(msgs) THEN k ELSE @[j]]]
    /\ UNCHANGED <<app, sd, handle, rx, out, heard, ad>>

Lesser(a, b) == IF a < b THEN a ELSE b

(* A message is begun, perhaps while the one before is unfinished. *)
Begin(m) ==
    /\ Len(phone.msgs) < MaxMsgs
    /\ Send("command", "write", Append(phone.msgs, m), 1, Lesser(Size(m), Chunk))

Unfinished == phone.msgs # <<>> /\ Last(phone.sent) < Size(Last(phone.msgs))

Continue ==
    /\ Unfinished
    /\ LET done == Last(phone.sent)
       IN  Send("bulkout", "write without response", phone.msgs, done + 1,
                Lesser(Size(Last(phone.msgs)), done + Chunk))

(* The last byte once more: a write without response is not confirmed. *)
Repeat ==
    /\ phone.msgs # <<>> /\ ~Unfinished /\ Last(phone.sent) > Chunk
    /\ LET n == Last(phone.sent)
       IN  Send("bulkout", "write without response", phone.msgs, n, n)

Notified ==
    /\ out # <<>> /\ sd.up
    /\ out' = Tail(out)
    /\ phone' = [phone EXCEPT !.got = Append(@, Head(out))]
    /\ UNCHANGED <<app, sd, handle, rx, air, heard, ad>>

(* The link ends, by the phone, the device or the distance.  Some of the     *)
(* writes on the way have not reached the device.                            *)
LinkLost ==
    /\ sd.up /\ handle
    /\ sd' = [sd EXCEPT !.up = FALSE] /\ out' = <<>>
    /\ \E n \in 0 .. Len(air) : air' = SubSeq(air, 1, n)
    /\ UNCHANGED <<app, handle, rx, phone, heard, ad>>

LinkNext ==
    \/ \E n \in Names : SetName(n)
    \/ \E a \in Ads : AdvdataSet(a[1], a[2])
    \/ StartAdvertising \/ StopAdvertising
    \/ CommandWrite \/ BulkWrite \/ OnConnect \/ OnDisconnect
    \/ Connect \/ Continue \/ Repeat \/ Notified \/ LinkLost
    \/ \E m \in [kind : Kinds, len : Lengths] : Begin(m)

LinkSpec == LinkInit /\ [][LinkNext]_linkVars

(***************************************************************************)
(* Properties.                                                             *)
(***************************************************************************)

(* The state the service and the SoftDevice keep stays in range, and no     *)
(* byte is counted or written behind the end of the message buffer          *)
(* (juma_data_service.c:18-19), until the device has taken a command that   *)
(* declared more than fits: the check of the length lets it through         *)
(* because it looks at the message before (juma_data_service.c:42), and     *)
(* nothing is claimed of the memory after that.                             *)
LinkTypeOK ==
    /\ rx.long \in BOOLEAN
    /\ ~rx.long =>
        /\ app \in BOOLEAN /\ handle \in BOOLEAN
        /\ sd \in [up : BOOLEAN, closing : BOOLEAN, adv : BOOLEAN]
        /\ rx.offset \in 0 .. MaxMessage /\ DOMAIN rx.buffer = 1 .. MaxMessage
        /\ Len(air) <= MaxAir /\ Len(out) <= TxBuffers
        /\ Len(phone.msgs) = Len(phone.sent)
        /\ ad.name \in Names

(* Every message the handler is given is, byte for byte, one the phone sent *)
(* on this link, and each is given once, in the order sent: also when the   *)
(* phone gave one up, repeated a write, or an earlier link ended in the     *)
(* middle of one (on_command_value_write, on_bulk_value_write).             *)
HeardWhole ==
    /\ \A i \in 1 .. Len(heard) :
          LET id == heard[i][1][1]
          IN  id \in 1 .. Len(phone.msgs) /\ heard[i] = Bytes(id, phone.msgs[id])
    /\ \A i, j \in 1 .. Len(heard) : i < j => heard[i][1][1] < heard[j][1][1]

(* On a live link no message the phone wrote to its end is left out once    *)
(* the device has handled what it received, until it has taken a command    *)
(* that declared more than its buffer holds.                                *)
AllHeard ==
    (sd.up /\ handle /\ air = <<>> /\ ~rx.long) =>
        \A id \in 1 .. Len(phone.msgs) :
            phone.sent[id] = Size(phone.msgs[id]) =>
                \E i \in 1 .. Len(heard) : heard[i][1][1] = id

(* The answers in told are among those in due, in their order. *)
AnswersOf(told, due) ==
    \E f \in [DOMAIN told -> DOMAIN due] :
        /\ \A i, j \in DOMAIN told : i < j => f[i] < f[j]
        /\ \A i \in DOMAIN told : due[f[i]] = <<told[i]>>

(* What the phone was told answers what the device heard: the answers, with *)
(* some lost perhaps, in the order of the messages (system_on_message,      *)
(* ble_device_send).                                                        *)
Due(message) == Answer(phone.msgs[message[1][1]].kind, Declared(message) - Header)
RepliesTrue ==
    sd.up => AnswersOf(phone.got \o out,
                       [i \in 1 .. Len(heard) |-> Due(heard[i])])

(* A device without an application can always be reached for an update:     *)
(* it advertises, or has a link, or has yet to hear that it ended           *)
(* (device_main.c:505-507).                                                 *)
Reachable == ~app => sd.adv \/ sd.up \/ handle

(* What is on the air fits and can be read back by a scanner as what it was *)
(* made of (adv_data_encode against adv_report_parse).  The encoders write  *)
(* behind their buffers on the stack (ble_advdata.c:539) only for a name    *)
(* that leaves less room than the three bytes of the flags, which are       *)
(* written unmeasured: also when they refuse the data.                      *)
AdShown == /\ Len(ad.data) <= MaxSize /\ Shows(ad.of, ad.made, ad.data)
           /\ ad.spilled # 0 => 2 + ad.spilled + 3 > MaxSize

(* The talk is true in both directions, until the device has taken a        *)
(* command that declared more than its buffer holds.                        *)
SaidIsHeard == ~rx.long => HeardWhole /\ RepliesTrue
=============================================================================
