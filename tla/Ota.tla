-------------------------------- MODULE Ota --------------------------------
(***************************************************************************)
(* The over-the-air update: the device side of ota.c, the start-up of      *)
(* loader.c and device_main.c that chooses between the application and the *)
(* update mode, and a phone that follows the protocol of                   *)
(* Document/private_document/ble_master/ota.md and may vanish at any time. *)
(*                                                                         *)
(* The first word of the application decides what is booted, so it is held *)
(* back in RAM and programmed last.  Flash operations are asynchronous: a  *)
(* store reads its source when it is carried out, and one completion       *)
(* handler, whichever was set last, gets every completion.                 *)
(***************************************************************************)
EXTENDS Integers, Sequences

CONSTANTS
  File,         \* images the phone can install
  Blocks,       \* data blocks in an image
  FirstPage,    \* how many of them are erased together with the first word
  Tries,        \* OTA_FLASH_OPTION_TIME (15)
  QueueSize,    \* operations pstorage can queue
  Faults,       \* TRUE: programmed data may be wrong although reported good
  FaultyPages,  \* pages, 1 or 2, whose erasure may fail, likewise
  None, Blank, Wrong

Index == 1..Blocks
Data  == File \X Index

ASSUME OtaAssumption ==
  /\ Blocks \in Nat \ {0}
  /\ FirstPage \in 0..Blocks
  /\ Tries \in Nat \ {0}
  /\ QueueSize \in Nat \ {0}
  /\ Faults \in BOOLEAN
  /\ FaultyPages \subseteq {1, 2}
  /\ None \notin File \cup {"begin", "data", "error"}

VARIABLES
  first,     \* flash: the first word of the application
  blocks,    \* flash: the blocks, without that word
  ops,       \* operations queued in pstorage
  progress,  \* of the first of them: pages erased, blocks programmed
  mode,      \* device_current_statue: "app" or "ota"
  entering,  \* enter_ota_mode_statue
  handler,   \* flash_callback_function_point
  statue,    \* ota_statue
  step,      \* ota_statue_step
  header,    \* the file ota_check_count and ota_file_count describe
  start,     \* start_byte: the file whose first word is held back
  held,      \* ota_data: index and data of the block being programmed
  rx,        \* what the message buffer of the data service holds
  dying,     \* ota_sys_reset is registered with the dispatcher
  link,      \* connected
  reply,     \* notification sent on this connection and not yet read
  phase,     \* what the phone is doing
  file,      \* the file it sends
  sent,      \* the last block it sent
  kept       \* an application outlived the entry into update mode (history)

zone   == <<first, blocks>>
pstore == <<ops, progress>>
mine   == <<statue, step, header, start, held>>
device == <<mode, entering, handler, rx, dying>>
phone  == <<phase, file, sent>>
vars   == <<zone, pstore, mine, device, link, reply, phone, kept>>

-----------------------------------------------------------------------------
\* Images and checksums.

Image(f) == [i \in Index |-> <<f, i>>]

\* ota_OE32_check_count_caculate over the flash and the word held back, against
\* the sum in the header.  No two contents are taken to have the same sum.
SumMatches == header # None /\ start = header /\ blocks = Image(header)

-----------------------------------------------------------------------------
\* Flash operations and their execution.

Clear          == [kind |-> "clear", at |-> 0, src |-> "none"]
StoreAt(i, src) == [kind |-> "store", at |-> i, src |-> src]
StoreFirst     == StoreAt(0, "start")
StoreForApp    == StoreAt(0, "app")

Steps(op) == IF op.kind = "clear" THEN 2 ELSE 1

\* What programming makes of a cell: bits only clear.
Outcome(old, new) ==
  CASE old = Blank -> {new} \cup (IF Faults THEN {Wrong} ELSE {})
    [] old = new   -> {new}
    [] old = Wrong -> {new, Wrong}
    [] OTHER       -> {Wrong}

\* Mutant of Program: the first word is programmed with its block.
ProgramAll ==
  /\ ops # <<>> /\ progress = 0 /\ Head(ops).kind = "store"
  /\ LET op  == Head(ops)
         new == IF op.src = "rx" THEN rx ELSE held.data
     IN \/ op.src = "app" /\ UNCHANGED zone
        \/ op.src = "start" /\ first' \in Outcome(first, start) /\ UNCHANGED blocks
        \/ /\ op.src \in {"rx", "held"}
           /\ \E cell \in Outcome(blocks[op.at], new) :
                blocks' = [blocks EXCEPT ![op.at] = cell]
           /\ first' = IF op.at = 1 THEN start ELSE first
  /\ progress' = 1
  /\ UNCHANGED <<ops, mine, device, link, reply, phone, kept>>

Program ==
  /\ ops # <<>> /\ progress = 0 /\ Head(ops).kind = "store"
  /\ LET op  == Head(ops)
         new == IF op.src = "rx" THEN rx ELSE held.data
     IN \/ op.src = "app" /\ UNCHANGED zone
        \/ op.src = "start" /\ first' \in Outcome(first, start) /\ UNCHANGED blocks
        \/ /\ op.src \in {"rx", "held"}
           /\ \E cell \in Outcome(blocks[op.at], new) :
                blocks' = [blocks EXCEPT ![op.at] = cell]
           /\ UNCHANGED first
  /\ progress' = 1
  /\ UNCHANGED <<ops, mine, device, link, reply, phone, kept>>

Page(i) == IF i <= FirstPage THEN 1 ELSE 2

Erase ==
  /\ ops # <<>> /\ Head(ops).kind = "clear" /\ progress < 2
  /\ progress' = progress + 1
  /\ \/ /\ first' = IF progress' = 1 THEN Blank ELSE first
        /\ blocks' = [i \in Index |-> IF Page(i) = progress' THEN Blank
                                                          ELSE blocks[i]]
     \/ progress' \in FaultyPages /\ UNCHANGED zone
  /\ UNCHANGED <<ops, mine, device, link, reply, phone, kept>>

Completed(kind) ==
  /\ ops # <<>> /\ Head(ops).kind = kind /\ progress = Steps(Head(ops))
  /\ progress' = 0
  /\ UNCHANGED zone

-----------------------------------------------------------------------------
\* Reset: load_app, main() and the initialisation of either mode.

Boot ==
  /\ mode' = IF first = Blank THEN "ota" ELSE "app"
  /\ handler' = IF first = Blank THEN "ota" ELSE "storage"
  /\ statue' = IF first = Blank THEN "init" ELSE "none"
  /\ step' = 0
  /\ header' = None
  /\ start' = None
  /\ held' = [at |-> 1, data |-> Wrong]
  /\ rx' = Wrong
  /\ entering' = FALSE
  /\ dying' = FALSE
  /\ link' = FALSE
  /\ reply' = None
  /\ phase' = "away"
  /\ file' = None
  /\ sent' = 0
  /\ ops' = <<>>
  /\ progress' = 0
  /\ UNCHANGED zone

\* Power loss, the watchdog, or a flash operation that reports an error, which
\* APP_ERROR_CHECK answers with a reset.
Restart == Boot /\ UNCHANGED kept

\* Mutant of ResetSoon: the reset is not registered.
ResetForgotten == UNCHANGED dying

\* run_after_delay(ota_sys_reset, NULL, 50)
ResetSoon == dying' = TRUE

DelayedReset == dying /\ Boot /\ UNCHANGED kept

-----------------------------------------------------------------------------
\* Leaving the application: message 0x82 and the main loop.

Notify(value) == reply' = IF link THEN value ELSE reply

EnterOtaMode ==
  /\ link /\ mode = "app"
  /\ entering' = TRUE
  /\ rx' = Wrong
  /\ UNCHANGED <<zone, pstore, mine, mode, handler, dying, link, reply, phone, kept>>

\* The reset that ends the entry; the application should be gone by then.
LeaveApp == Boot /\ kept' = (kept \/ first # Blank)

\* enter_ota_process, in every round of the main loop once it is asked for.
EnterOtaProcess ==
  /\ entering
  /\ \/ /\ Len(ops) < QueueSize
        /\ handler' = "enter"
        /\ ops' = Append(ops, Clear)
        /\ UNCHANGED <<zone, progress, mine, mode, entering, rx, dying, link, reply,
                       phone, kept>>
     \/ Len(ops) = QueueSize /\ LeaveApp

\* enter_ota_mode_callback: any completion ends the entry.
EnterDone ==
  /\ handler = "enter"
  /\ Completed("clear") \/ Completed("store")
  /\ LeaveApp

\* The application stores data through data_storage.c.
AppStore ==
  /\ handler = "storage" /\ Len(ops) < QueueSize
  /\ ops' = Append(ops, StoreForApp)
  /\ UNCHANGED <<zone, progress, mine, device, link, reply, phone, kept>>

AppStored ==
  /\ handler = "storage"
  /\ Completed("store")
  /\ ops' = Tail(ops)
  /\ UNCHANGED <<mine, device, link, reply, phone, kept>>

-----------------------------------------------------------------------------
\* ota_on_message.

Message(data) == link /\ rx' = data
  /\ UNCHANGED <<zone, progress, mode, entering, handler, link, kept>>

\* Mutant of OtaBegin: accepted in any state of the update.
OtaBeginAnytime ==
  /\ statue' = "begin"
  /\ step' = 0
  /\ ops' = Append(ops, Clear)
  /\ UNCHANGED <<header, start, held, dying>>

OtaBegin ==
  IF statue = "init"
  THEN /\ statue' = "begin"
       /\ step' = 0
       /\ ops' = Append(ops, Clear)
       /\ UNCHANGED <<header, start, held, dying>>
  ELSE UNCHANGED <<ops, mine, dying>>

\* Block 0: the sum and the length of the file.
OtaHeader(f) ==
  IF statue = "program"
  THEN /\ step' = 0
       /\ header' = f
       /\ Notify("data")
       /\ UNCHANGED <<statue, start, held, ops, dying>>
  ELSE UNCHANGED <<mine, ops, dying, reply>>

\* Mutant of OtaData: the block is not copied for the comparison.
OtaDataNotHeld(f, i) ==
  IF statue = "program"
  THEN /\ step' = 0
       /\ start' = IF i = 1 THEN f ELSE start
       /\ ops' = Append(ops, StoreAt(i, "rx"))
       /\ UNCHANGED <<statue, header, held, dying>>
  ELSE UNCHANGED <<mine, ops, dying>>

\* Any other block; the first word of the first one is held back.
OtaData(f, i) ==
  IF statue = "program"
  THEN /\ step' = 0
       /\ start' = IF i = 1 THEN f ELSE start
       /\ held' = [at |-> i, data |-> <<f, i>>]
       /\ ops' = Append(ops, StoreAt(i, "rx"))
       /\ UNCHANGED <<statue, header, dying>>
  ELSE UNCHANGED <<mine, ops, dying>>

OtaEnd ==
  IF statue = "program"
  THEN /\ statue' = "end"
       /\ step' = 0
       /\ IF SumMatches THEN ops' = Append(ops, StoreFirst) /\ UNCHANGED dying
                        ELSE ResetSoon /\ UNCHANGED ops
       /\ UNCHANGED <<header, start, held>>
  ELSE UNCHANGED <<mine, ops, dying>>

-----------------------------------------------------------------------------
\* ota_storage_callback_handler.

\* Mutant of Retry: one try too many.
RetryOnceMore(op, rest) ==
  /\ step' = step + 1
  /\ IF step' > Tries THEN Notify("error") /\ ops' = rest
                      ELSE ops' = Append(rest, op) /\ UNCHANGED reply

\* Another try with `op`, or an error message when the tries are used up.
Retry(op, rest) ==
  /\ step' = step + 1
  /\ IF step' >= Tries THEN Notify("error") /\ ops' = rest
                       ELSE ops' = Append(rest, op) /\ UNCHANGED reply

\* ble_device_disconnect, and the phone notices.
HangUp == link' = FALSE /\ reply' = None /\ phase' = "away"

ClearedInOta ==
  /\ handler = "ota"
  /\ Completed("clear")
  /\ \/ /\ statue = "begin" /\ first = Blank /\ \A i \in Index : blocks[i] = Blank
        /\ statue' = "program"
        /\ Notify("begin")
        /\ ops' = Tail(ops)
        /\ UNCHANGED <<step, dying>>
     \/ /\ statue = "begin" /\ ~(first = Blank /\ \A i \in Index : blocks[i] = Blank)
        /\ Retry(Clear, Tail(ops))
        /\ UNCHANGED <<statue, dying>>
     \/ /\ statue = "end"
        /\ ResetSoon
        /\ ops' = Tail(ops)
        /\ UNCHANGED <<statue, step, reply>>
  /\ UNCHANGED <<header, start, held, mode, entering, handler, rx, link, phone, kept>>

\* Stores are only queued in the states program and end; the handler's branch
\* for the others is never taken.
ProgrammedInOta ==
  /\ handler = "ota"
  /\ Completed("store")
  /\ \/ /\ statue = "program" /\ blocks[held.at] = held.data
        /\ Notify("data")
        /\ ops' = Tail(ops)
        /\ UNCHANGED <<step, dying, link, phase>>
     \/ /\ statue = "program" /\ blocks[held.at] # held.data
        /\ Retry(StoreAt(held.at, "held"), Tail(ops))
        /\ UNCHANGED <<dying, link, phase>>
     \/ /\ statue = "end" /\ first = start
        /\ HangUp
        /\ ResetSoon
        /\ ops' = Tail(ops)
        /\ UNCHANGED step
     \/ /\ statue = "end" /\ first # start
        /\ HangUp
        /\ ops' = Append(Tail(ops), Clear)
        /\ UNCHANGED <<step, dying>>
  /\ UNCHANGED <<statue, header, start, held, mode, entering, handler, rx, file, sent,
                 kept>>

-----------------------------------------------------------------------------
\* The phone.  It waits for the answer to each message before the next.

Connect ==
  /\ ~link
  /\ link' = TRUE
  /\ phase' = "linked"
  /\ UNCHANGED <<zone, pstore, mine, device, reply, file, sent, kept>>

Disconnect ==
  /\ link
  /\ HangUp
  /\ UNCHANGED <<zone, pstore, mine, device, file, sent, kept>>

\* A message of another type, which passes through the same buffer.
SendOther ==
  /\ Message(Wrong)
  /\ UNCHANGED <<ops, mine, dying, reply, phone>>

SendBegin ==
  /\ phase = "linked" /\ mode = "ota"
  /\ Message(Wrong)
  /\ OtaBegin
  /\ phase' = "begin"
  /\ \E f \in File : file' = f
  /\ sent' = 0
  /\ reply' = None

SendHeader ==
  /\ phase = "begin" /\ reply = "begin"
  /\ Message(Wrong)
  /\ OtaHeader(file)
  /\ phase' = "data"
  /\ UNCHANGED <<file, sent>>

SendData ==
  /\ phase = "data" /\ reply = "data" /\ sent < Blocks
  /\ Message(<<file, sent + 1>>)
  /\ OtaData(file, sent + 1)
  /\ sent' = sent + 1
  /\ reply' = None
  /\ UNCHANGED <<phase, file>>

SendEnd ==
  /\ phase = "data" /\ reply = "data" /\ sent = Blocks
  /\ Message(Wrong)
  /\ OtaEnd
  /\ phase' = "end"
  /\ reply' = None
  /\ UNCHANGED <<file, sent>>

\* OTA_ERROR: the phone reports it and may start again.
GiveUp ==
  /\ reply = "error"
  /\ phase' = "linked"
  /\ reply' = None
  /\ UNCHANGED <<zone, pstore, mine, device, link, file, sent, kept>>

Phone == Connect \/ Disconnect \/ SendOther \/ EnterOtaMode \/ SendBegin
           \/ SendHeader \/ SendData \/ SendEnd \/ GiveUp

-----------------------------------------------------------------------------

\* A device that runs an application, or a fresh one.
Init ==
  /\ \/ /\ first = Blank
        /\ blocks = [i \in Index |-> Blank]
        /\ mode = "ota" /\ handler = "ota" /\ statue = "init"
     \/ /\ first \in File
        /\ blocks = Image(first)
        /\ mode = "app" /\ handler = "storage" /\ statue = "none"
  /\ ops = <<>> /\ progress = 0
  /\ entering = FALSE /\ dying = FALSE
  /\ step = 0 /\ header = None /\ start = None
  /\ held = [at |-> 1, data |-> Wrong]
  /\ rx = Wrong
  /\ link = FALSE /\ reply = None
  /\ phase = "away" /\ file = None /\ sent = 0
  /\ kept = FALSE

Flash == Program \/ Erase \/ EnterDone \/ AppStored \/ ClearedInOta
           \/ ProgrammedInOta

Next == Flash \/ EnterOtaProcess \/ AppStore \/ DelayedReset \/ Restart \/ Phone

\* The flash works, and the dispatcher and the main loop run.  Nothing is
\* assumed of the phone.
Spec ==
  /\ Init
  /\ [][Next]_vars
  /\ WF_vars(Flash) /\ WF_vars(DelayedReset) /\ WF_vars(EnterOtaProcess)

-----------------------------------------------------------------------------
\* Properties.

\* Every cell of the flash and every message holds what the protocol puts there,
\* and the mode agrees with the handler and the state of the update.
TypeOK ==
  /\ first \in File \cup {Blank, Wrong}
  /\ blocks \in [Index -> Data \cup {Blank, Wrong}]
  /\ \A i \in DOMAIN ops :
       /\ ops[i].kind \in {"clear", "store"}
       /\ ops[i].at \in 0..Blocks
  /\ Len(ops) <= QueueSize
  /\ progress \in 0..2
  /\ mode = "app" <=> statue = "none"
  /\ mode = "ota" <=> handler = "ota"
  /\ statue \in {"none", "init", "begin", "program", "end"}
  /\ step \in 0..Tries
  /\ {header, start, file} \subseteq File \cup {None}
  /\ held.at \in Index /\ held.data \in Data \cup {Wrong}
  /\ rx \in Data \cup {Wrong}
  /\ {dying, entering, link, kept} \subseteq BOOLEAN
  /\ reply \in {None, "begin", "data", "error"}
  /\ phase \in {"away", "linked", "begin", "data", "end"}
  /\ sent \in 0..Blocks

\* Whenever the device would boot the application, at a power loss at any
\* moment, all its blocks belong to one image: no update that was interrupted,
\* mixed or misprogrammed is ever started.
BootsWhole == first # Blank => \E f \in File : blocks = Image(f)

\* What the phone was told is in the flash is there and stays there while it
\* goes on, although other messages pass through the buffer the flash is
\* programmed from.
AckedStored ==
  /\ phase = "data" =>
       \A i \in Index : i < sent \/ (i = sent /\ reply = "data") =>
         blocks[i] = <<file, i>>
  /\ phase = "end" => blocks = Image(file)

\* In update mode at most one flash operation is outstanding, so the handler
\* knows whose completion it gets, and the block held for another try is that of
\* the store being carried out.
OneFlashOp ==
  mode = "ota" =>
    /\ Len(ops) <= 1
    /\ \A i \in DOMAIN ops : ops[i].src \in {"rx", "held"} => held.at = ops[i].at

\* Every end of an update restarts the device, whether the phone is still there
\* or not.
EndRestarts == statue = "end" ~> statue # "end"

\* Entering update mode erases the application before the device restarts.
EntryErases == ~kept

=============================================================================
