----------------------------- MODULE OtaProofs -----------------------------
(***************************************************************************)
(* Proofs about Ota, for any set of images, any number of blocks and       *)
(* tries, any queue of pstorage and any number of updates, power losses    *)
(* and disconnections.                                                     *)
(***************************************************************************)
EXTENDS Ota, SequenceTheorems, TLAPS

\* The application queues entries into update mode and its own stores, and gets
\* no notification; update mode has its handler and at most one operation, of
\* the kind its state calls for.
AppQueue ==
  mode = "app" => /\ statue = "none" /\ handler \in {"storage", "enter"}
                  /\ reply = None
                  /\ ops \in Seq({Clear, StoreForApp})

OtaQueue ==
  mode = "ota" =>
    /\ handler = "ota" /\ ~entering
    /\ \/ statue = "init" /\ ops = <<>>
       \/ statue = "begin" /\ ops \in {<<>>, <<Clear>>}
       \/ /\ statue = "program"
          /\ ops \in {<<>>, <<StoreAt(held.at, "rx")>>, <<StoreAt(held.at, "held")>>}
       \/ statue = "end" /\ ops \in {<<>>, <<StoreFirst>>, <<Clear>>}

\* A notification the phone has not read was sent when the queue ran empty.
Answered == reply # None => mode = "ota" /\ ops = <<>>

Names ==
  /\ mode \in {"app", "ota"}
  /\ header \in File \cup {None}
  /\ phase \in {"begin", "data", "end"} => file \in File
  /\ progress \in 0..2 /\ (ops = <<>> => progress = 0)
  /\ Len(ops) <= QueueSize

\* What makes one operation at a time inductive.
QInv == Names /\ AppQueue /\ OtaQueue /\ Answered

\* The first word is absent until the update ends, it is erased before anything
\* else, and programmed only when all the blocks are there.
Unbootable == mode = "ota" /\ statue # "end" => first = Blank
Erasing    == ops # <<>> /\ Head(ops) = Clear /\ progress >= 1 => first = Blank
Committing ==
  mode = "ota" /\ ops = <<StoreFirst>> => start \in File /\ blocks = Image(start)

BInv == Unbootable /\ Erasing /\ Committing /\ BootsWhole
-----------------------------------------------------------------------------
\* The kinds and sources of operations.
LEMMA Kinds ==
  /\ Clear.kind = "clear" /\ Clear.src = "none"
  /\ \A i, src : /\ StoreAt(i, src).kind = "store"
                 /\ StoreAt(i, src).src = src
                 /\ StoreAt(i, src).at = i
BY DEF Clear, StoreAt

LEMMA Differ ==
  /\ \A i, src : StoreAt(i, src) # Clear
  /\ \A i : StoreFirst # StoreAt(i, "rx") /\ StoreFirst # StoreAt(i, "held")
  /\ StoreFirst # StoreForApp
BY Kinds DEF StoreFirst, StoreForApp

\* A queue of one operation.
LEMMA Singles ==
  ASSUME NEW x
  PROVE  /\ Append(<<>>, x) = <<x>>
         /\ Tail(<<x>>) = <<>>
         /\ Head(<<x>>) = x
         /\ Len(<<x>>) = 1
         /\ <<x>> # <<>>
OBVIOUS

\* The queue of the application.
LEMMA Queues ==
  ASSUME NEW S, NEW q \in Seq(S), NEW x \in S
  PROVE  /\ Append(q, x) \in Seq(S) /\ Len(Append(q, x)) = Len(q) + 1
         /\ q # <<>> => /\ Tail(q) \in Seq(S) /\ Len(Tail(q)) = Len(q) - 1
                        /\ Head(q) \in S
OBVIOUS

LEMMA QInit == Init => QInv
<1> SUFFICES ASSUME Init PROVE QInv
  OBVIOUS
<1>1. Names
  BY OtaAssumption DEF Init, Names
<1>2. AppQueue /\ OtaQueue /\ Answered
  BY DEF Init, AppQueue, OtaQueue, Answered
<1> QED
  BY <1>1, <1>2 DEF QInv

\* Every reset, from any state, restores the invariant.
LEMMA QBoot == Boot => QInv'
<1> SUFFICES ASSUME Boot PROVE QInv'
  OBVIOUS
<1>1. Names'
  BY OtaAssumption DEF Boot, Names
<1>2. (AppQueue /\ OtaQueue /\ Answered)'
  BY DEF Boot, AppQueue, OtaQueue, Answered
<1> QED
  BY <1>1, <1>2 DEF QInv

\* Programming and erasing touch neither the queue nor the protocol.
LEMMA QFlash == QInv /\ (Program \/ Erase) => QInv'
<1> SUFFICES ASSUME QInv, Program \/ Erase PROVE QInv'
  OBVIOUS
<1>1. progress' \in 0..2 /\ ops # <<>>
  BY DEF QInv, Names, Program, Erase
<1>2. UNCHANGED <<ops, mine, device, reply, phase, file>>
  BY DEF Program, Erase, phone
<1>3. Names'
  BY <1>1, <1>2 DEF QInv, Names, mine, device
<1>4. (AppQueue /\ OtaQueue /\ Answered)'
  BY <1>2 DEF QInv, AppQueue, OtaQueue, Answered, mine, device
<1> QED
  BY <1>3, <1>4 DEF QInv

\* Leaving the application, and its own stores.
LEMMA QApp ==
  QInv /\ (EnterOtaMode \/ EnterOtaProcess \/ EnterDone \/ AppStore \/ AppStored)
    => QInv'
<1> SUFFICES ASSUME QInv,
                    EnterOtaMode \/ EnterOtaProcess \/ EnterDone \/ AppStore \/ AppStored
             PROVE  QInv'
  OBVIOUS
<1> USE DEF QInv
<1>1. CASE EnterOtaMode
  <2>1. Names' /\ AppQueue'
    BY <1>1 DEF EnterOtaMode, Names, AppQueue, pstore, mine, phone
  <2>2. OtaQueue' /\ Answered'
    BY <1>1 DEF EnterOtaMode, OtaQueue, Answered, pstore
  <2> QED
    BY <2>1, <2>2
<1>2. CASE EnterOtaProcess
  <2>1. mode = "app"
    BY <1>2 DEF EnterOtaProcess, OtaQueue, Names
  <2>2. CASE LeaveApp
    BY <2>2, QBoot DEF LeaveApp
  <2>3. CASE ~LeaveApp
    <3>1. /\ Len(ops) < QueueSize /\ handler' = "enter" /\ ops' = Append(ops, Clear)
          /\ UNCHANGED <<progress, mine, mode, entering, reply, phone>>
      BY <1>2, <2>3 DEF EnterOtaProcess
    <3>2. Names'
      BY <2>1, <3>1, Queues, OtaAssumption DEF Names, AppQueue, mine, phone
    <3>3. AppQueue'
      BY <2>1, <3>1, Queues DEF AppQueue, mine
    <3>4. OtaQueue' /\ Answered'
      BY <2>1, <3>1 DEF OtaQueue, Answered, AppQueue
    <3> QED
      BY <3>2, <3>3, <3>4
  <2> QED
    BY <2>2, <2>3
<1>3. CASE EnterDone
  BY <1>3, QBoot DEF EnterDone, LeaveApp
<1>4. CASE AppStore
  <2>1. mode = "app"
    BY <1>4 DEF AppStore, OtaQueue, Names
  <2>2. /\ Len(ops) < QueueSize /\ ops' = Append(ops, StoreForApp)
        /\ UNCHANGED <<progress, mine, device, reply, phone>>
    BY <1>4 DEF AppStore
  <2>3. Names'
    BY <2>1, <2>2, Queues, OtaAssumption DEF Names, AppQueue, mine, device, phone
  <2>4. AppQueue'
    BY <2>1, <2>2, Queues DEF AppQueue, mine, device
  <2>5. OtaQueue' /\ Answered'
    BY <2>1, <2>2 DEF OtaQueue, Answered, AppQueue, device
  <2> QED
    BY <2>3, <2>4, <2>5
<1>5. CASE AppStored
  <2>1. mode = "app"
    BY <1>5 DEF AppStored, OtaQueue, Names
  <2>2. /\ ops # <<>> /\ ops' = Tail(ops) /\ progress' = 0
        /\ UNCHANGED <<mine, device, reply, phone>>
    BY <1>5 DEF AppStored, Completed
  <2>3. Names'
    BY <2>1, <2>2, Queues, OtaAssumption DEF Names, AppQueue, mine, device, phone
  <2>4. AppQueue'
    BY <2>1, <2>2, Queues DEF AppQueue, mine, device
  <2>5. OtaQueue' /\ Answered'
    BY <2>1, <2>2 DEF OtaQueue, Answered, AppQueue, device
  <2> QED
    BY <2>3, <2>4, <2>5
<1> QED
  BY <1>1, <1>2, <1>3, <1>4, <1>5

\* A completion in update mode empties the queue, or queues the one next operation.
LEMMA QCompleted == QInv /\ (ClearedInOta \/ ProgrammedInOta) => QInv'
<1> SUFFICES ASSUME QInv, ClearedInOta \/ ProgrammedInOta PROVE QInv'
  OBVIOUS
<1> USE DEF QInv
<1>1. mode = "ota" /\ mode' = "ota" /\ UNCHANGED <<header, held, handler, entering, file>>
  BY DEF ClearedInOta, ProgrammedInOta, AppQueue, Names, phone
<1>2. /\ progress' = 0 /\ ops # <<>>
      /\ phase' \in {phase, "away"}
  BY DEF ClearedInOta, ProgrammedInOta, Completed, HangUp, phone
<1>3. PICK op : ops = <<op>>
  BY <1>1, <1>2 DEF OtaQueue
<1>4. Tail(ops) = <<>> /\ \A x : Append(Tail(ops), x) = <<x>>
  BY <1>3, Singles
<1>5. CASE ClearedInOta
  <2>1. ops = <<Clear>> /\ statue \in {"begin", "end"}
    BY <1>1, <1>5, Kinds, Singles DEF ClearedInOta, Completed, OtaQueue, StoreFirst
  <2>2. reply = None
    BY <1>2 DEF Answered
  <2>3. \/ statue' = "program" /\ ops' = <<>>
        \/ statue' = "begin" /\ ops' = <<>>
        \/ statue' = "begin" /\ ops' = <<Clear>> /\ reply' = None
        \/ statue' = "end" /\ ops' = <<>>
    <3>1. Tail(ops) = <<>> /\ Append(Tail(ops), Clear) = <<Clear>>
      BY <1>4
    <3>2. CASE statue = "begin"
      BY <1>5, <2>2, <3>1, <3>2 DEF ClearedInOta, Retry
    <3>3. CASE statue = "end"
      BY <1>5, <3>1, <3>3 DEF ClearedInOta
    <3> QED
      BY <2>1, <3>2, <3>3
  <2> QED
    BY <1>1, <1>2, <2>3, Singles, OtaAssumption
      DEF Names, AppQueue, OtaQueue, Answered
<1>6. CASE ProgrammedInOta
  <2>1. statue' = statue
    BY <1>6 DEF ProgrammedInOta
  <2>2. reply = None
    BY <1>2 DEF Answered
  <2>3. \/ statue = "program" /\ ops' = <<>>
        \/ statue = "program" /\ ops' = <<StoreAt(held.at, "held")>> /\ reply' = None
        \/ statue = "end" /\ ops' = <<>>
        \/ statue = "end" /\ ops' = <<Clear>> /\ reply' = None
    BY <1>4, <1>6, <2>2 DEF ProgrammedInOta, Retry, HangUp
  <2> QED
    BY <1>1, <1>2, <2>1, <2>3, Singles, OtaAssumption
      DEF Names, AppQueue, OtaQueue, Answered
<1> QED
  BY <1>5, <1>6

\* The phone only sends when its last message has been answered, and then
\* nothing is queued.
LEMMA QPhone ==
  QInv /\ (Connect \/ Disconnect \/ SendOther \/ SendBegin \/ SendHeader
             \/ SendData \/ SendEnd \/ GiveUp) => QInv'
<1> SUFFICES ASSUME QInv,
                    Connect \/ Disconnect \/ SendOther \/ SendBegin \/ SendHeader
                      \/ SendData \/ SendEnd \/ GiveUp
             PROVE  QInv'
  OBVIOUS
<1> USE DEF QInv
<1>1. CASE Connect \/ Disconnect \/ SendOther \/ GiveUp
  <2>1. /\ UNCHANGED <<ops, progress, mine, mode, entering, handler, file>>
        /\ reply' \in {reply, None} /\ phase' \in {phase, "linked", "away"}
    BY <1>1 DEF Connect, Disconnect, SendOther, GiveUp, HangUp, Message, pstore,
                device, phone
  <2> QED
    BY <2>1 DEF Names, AppQueue, OtaQueue, Answered, mine
<1>2. CASE SendBegin
  <2>1. /\ mode = "ota" /\ reply' = None /\ phase' = "begin" /\ file' \in File
        /\ UNCHANGED <<progress, mode, entering, handler>>
    BY <1>2 DEF SendBegin, Message
  <2>2. CASE statue = "init"
    <3>1. statue' = "begin" /\ ops' = <<Clear>> /\ UNCHANGED header
      BY <1>2, <2>1, <2>2, Singles DEF SendBegin, OtaBegin, OtaQueue
    <3> QED
      BY <2>1, <3>1, Singles, OtaAssumption
        DEF Names, AppQueue, OtaQueue, Answered
  <2>3. CASE statue # "init"
    <3>1. UNCHANGED <<ops, mine>>
      BY <1>2, <2>3 DEF SendBegin, OtaBegin
    <3> QED
      BY <2>1, <3>1 DEF Names, AppQueue, OtaQueue, Answered, mine
  <2> QED
    BY <2>2, <2>3
<1>3. CASE SendHeader \/ SendData \/ SendEnd
  <2>1. reply # None
    BY <1>3, OtaAssumption DEF SendHeader, SendData, SendEnd
  <2>2. mode = "ota" /\ ops = <<>>
    BY <2>1 DEF Answered
  <2>3. /\ file \in File /\ phase' \in {"data", "end"}
        /\ UNCHANGED <<progress, mode, entering, handler, file>>
    BY <1>3 DEF SendHeader, SendData, SendEnd, Message, Names
  <2>4. /\ header' \in {header, file}
        /\ \/ statue' = statue /\ ops' = <<>>
           \/ statue' = "program" /\ ops' = <<StoreAt(held'.at, "rx")>> /\ reply' = None
           \/ statue' = "end" /\ ops' \in {<<>>, <<StoreFirst>>} /\ reply' = None
    <3>1. CASE SendHeader
      BY <2>2, <3>1 DEF SendHeader, OtaHeader, mine
    <3>2. CASE SendData
      BY <2>2, <3>2, Singles DEF SendData, OtaData, mine
    <3>3. CASE SendEnd
      BY <2>2, <3>3, Singles DEF SendEnd, OtaEnd, mine
    <3> QED
      BY <1>3, <3>1, <3>2, <3>3
  <2>5. Names'
    <3>1. Len(ops') \in {0, 1}
      BY <2>4, Singles
    <3>2. progress' = 0
      BY <2>2, <2>3 DEF Names
    <3>3. header' \in File \cup {None} /\ mode' \in {"app", "ota"}
      BY <2>3, <2>4 DEF Names
    <3>4. Len(ops') <= QueueSize
      <4>1. 0 <= QueueSize /\ 1 <= QueueSize
        BY OtaAssumption
      <4> QED
        BY <3>1, <4>1
    <3> QED
      BY <2>3, <3>2, <3>3, <3>4 DEF Names
  <2>6. (AppQueue /\ OtaQueue /\ Answered)'
    BY <2>2, <2>3, <2>4, Singles DEF AppQueue, OtaQueue, Answered
  <2> QED
    BY <2>5, <2>6
<1> QED
  BY <1>1, <1>2, <1>3

LEMMA QStep == QInv /\ [Next]_vars => QInv'
<1> SUFFICES ASSUME QInv, [Next]_vars PROVE QInv'
  OBVIOUS
<1>1. CASE Flash
  BY <1>1, QFlash, QApp, QCompleted DEF Flash
<1>2. CASE EnterOtaProcess \/ AppStore
  BY <1>2, QApp
<1>3. CASE DelayedReset \/ Restart
  BY <1>3, QBoot DEF DelayedReset, Restart
<1>4. CASE Phone
  BY <1>4, QApp, QPhone DEF Phone
<1>5. CASE UNCHANGED vars
  BY <1>5 DEF QInv, Names, AppQueue, OtaQueue, Answered, vars, pstore, mine,
              device, phone
<1> QED
  BY <1>1, <1>2, <1>3, <1>4, <1>5 DEF Next

\* In update mode at most one flash operation is outstanding, and the block held
\* for another try is that of the store being carried out: the completion handler
\* (ota.c:204-291) never mistakes one completion for another.
THEOREM OneOperation == Spec => []OneFlashOp
<1>1. QInv => OneFlashOp
  <2> SUFFICES ASSUME QInv, mode = "ota"
               PROVE  /\ Len(ops) <= 1
                      /\ \A i \in DOMAIN ops :
                           ops[i].src \in {"rx", "held"} => held.at = ops[i].at
    BY DEF OneFlashOp
  <2>1. CASE ops = <<>>
    BY <2>1
  <2>2. CASE ops # <<>>
    <3>1. PICK op : ops = <<op>> /\ (op.src \in {"rx", "held"} => held.at = op.at)
      BY <2>2, Kinds DEF QInv, OtaQueue, StoreFirst
    <3>2. Len(ops) = 1 /\ DOMAIN ops = {1} /\ ops[1] = op
      BY <3>1
    <3> QED
      BY <3>1, <3>2
  <2> QED
    BY <2>1, <2>2
<1> QED
  BY <1>1, QInit, QStep, PTL DEF Spec
-----------------------------------------------------------------------------

LEMMA BInit == Init => BInv
BY Singles DEF Init, BInv, Unbootable, Erasing, Committing, BootsWhole

LEMMA BBoot == BInv /\ Boot => BInv'
BY Singles DEF Boot, zone, BInv, Unbootable, Erasing, Committing, BootsWhole

\* A page erased is the first one first; a block programmed, that of an update
\* whose first word is still held back; and the first word, when the blocks are
\* complete.
LEMMA BFlash ==
  1 \notin FaultyPages /\ QInv /\ BInv /\ (Program \/ Erase) => BInv'
<1> SUFFICES ASSUME 1 \notin FaultyPages, QInv, BInv, Program \/ Erase PROVE BInv'
  OBVIOUS
<1> USE DEF QInv, BInv
<1>1. /\ UNCHANGED <<ops, mode, statue, start, held>>
      /\ ops # <<>> /\ progress \in 0..2
  BY DEF Program, Erase, mine, device, Names
<1>2. CASE Erase
  <2>1. Head(ops) = Clear
    <3>1. CASE mode = "app"
      BY <1>1, <1>2, <3>1, Queues, Kinds DEF Erase, AppQueue, StoreForApp
    <3>2. CASE mode = "ota"
      BY <1>1, <1>2, <3>2, Kinds, Singles DEF Erase, OtaQueue, StoreFirst
    <3> QED
      BY <3>1, <3>2 DEF Names
  <2>2. first' = Blank
    <3>1. CASE progress = 0
      BY <1>2, <3>1 DEF Erase, zone
    <3>2. CASE progress >= 1
      BY <1>1, <1>2, <2>1, <3>2 DEF Erase, Erasing, zone
    <3> QED
      BY <1>1, <3>1, <3>2
  <2>3. ~(ops = <<StoreFirst>>)
    BY <2>1, Kinds, Singles DEF StoreFirst
  <2> QED
    BY <1>1, <2>2, <2>3 DEF Unbootable, Erasing, Committing, BootsWhole
<1>3. CASE Program
  <2>1. Head(ops) # Clear
    BY <1>3, Kinds DEF Program
  <2>2. CASE mode = "app"
    <3>1. Head(ops) = StoreForApp
      BY <1>1, <2>1, <2>2, Queues DEF AppQueue
    <3>2. UNCHANGED zone
      BY <1>3, <3>1, Kinds DEF Program, StoreForApp
    <3> QED
      BY <1>1, <2>1, <2>2, <3>2
        DEF Unbootable, Erasing, Committing, BootsWhole, zone
  <2>3. CASE mode = "ota" /\ statue = "end"
    <3>1. ops = <<StoreFirst>>
      BY <1>1, <2>1, <2>3, Singles DEF OtaQueue
    <3>2. UNCHANGED blocks
      BY <1>3, <3>1, Kinds, Singles DEF Program, StoreFirst, zone
    <3> QED
      BY <1>1, <2>1, <2>3, <3>1, <3>2
        DEF Unbootable, Erasing, Committing, BootsWhole
  <2>4. CASE mode = "ota" /\ statue # "end"
    <3>1. \/ ops = <<StoreAt(held.at, "rx")>>
          \/ ops = <<StoreAt(held.at, "held")>>
      BY <1>1, <2>1, <2>4, Singles DEF OtaQueue
    <3>2. Head(ops).src \in {"rx", "held"} /\ ops # <<StoreFirst>>
      BY <3>1, Kinds, Differ, Singles
    <3>3. UNCHANGED first
      BY <1>3, <3>2 DEF Program
    <3> QED
      BY <1>1, <2>1, <2>4, <3>2, <3>3
        DEF Unbootable, Erasing, Committing, BootsWhole
  <2> QED
    BY <2>2, <2>3, <2>4 DEF Names
<1> QED
  BY <1>2, <1>3

\* Steps that leave the flash alone: what they queue keeps the order.
LEMMA BQuiet ==
  ASSUME QInv, QInv', BInv, UNCHANGED zone, UNCHANGED mode,
         ops' # <<>> /\ progress' # 0 =>
           ops # <<>> /\ Head(ops') = Head(ops) /\ progress' = progress,
         mode = "ota" /\ statue' # "end" => statue # "end",
         ops' = <<StoreFirst>> /\ mode = "ota" =>
           start' \in File /\ blocks = Image(start')
  PROVE  BInv'
<1>1. Unbootable' /\ BootsWhole'
  BY DEF BInv, Unbootable, BootsWhole, zone
<1>2. Erasing'
  BY DEF BInv, Erasing, zone, QInv, Names
<1>3. Committing'
  BY DEF Committing, zone
<1> QED
  BY <1>1, <1>2, <1>3 DEF BInv

LEMMA BStep ==
  1 \notin FaultyPages /\ QInv /\ BInv /\ [Next]_vars => BInv'
<1> SUFFICES ASSUME 1 \notin FaultyPages, QInv, BInv, [Next]_vars PROVE BInv'
  OBVIOUS
<1> USE DEF QInv
<1>0. QInv'
  BY QStep
<1>1. CASE Program \/ Erase
  BY <1>1, BFlash
<1>2. CASE DelayedReset \/ Restart \/ EnterDone
  BY <1>2, BBoot DEF DelayedReset, Restart, EnterDone, LeaveApp
<1>3. CASE AppStored \/ ClearedInOta \/ ProgrammedInOta
  <2>1. progress' = 0 /\ UNCHANGED zone /\ UNCHANGED mode
    BY <1>3 DEF AppStored, ClearedInOta, ProgrammedInOta, Completed, device
  <2>2. mode = "ota" /\ statue' # "end" => statue # "end"
    BY <1>3 DEF AppStored, ClearedInOta, ProgrammedInOta, mine, Retry
  <2>3. mode = "ota" => ops' # <<StoreFirst>>
    <3>1. CASE AppStored
      BY <3>1 DEF AppStored, OtaQueue
    <3>2. SUFFICES ASSUME mode = "ota", ClearedInOta \/ ProgrammedInOta
                   PROVE  ops' # <<StoreFirst>>
      BY <1>3, <3>1
    <3>3. PICK op : ops = <<op>>
      BY <3>2 DEF OtaQueue, ClearedInOta, ProgrammedInOta, Completed
    <3>4. /\ Tail(ops) = <<>> /\ Append(Tail(ops), Clear) = <<Clear>>
          /\ Append(Tail(ops), StoreAt(held.at, "held")) = <<StoreAt(held.at, "held")>>
      BY <3>3, Singles
    <3>5. ops' \in {<<>>, <<Clear>>, <<StoreAt(held.at, "held")>>}
      BY <3>2, <3>4 DEF ClearedInOta, ProgrammedInOta, Retry
    <3> QED
      BY <3>5, Differ, Singles DEF StoreFirst
  <2> QED
    BY <1>0, <2>1, <2>2, <2>3, BQuiet
<1>4. CASE EnterOtaProcess \/ AppStore
  <2>1. CASE LeaveApp
    BY <2>1, BBoot DEF LeaveApp
  <2>2. CASE ~LeaveApp
    <3>1. mode = "app" /\ UNCHANGED <<zone, mode, progress, statue>>
      BY <1>4, <2>2 DEF EnterOtaProcess, AppStore, OtaQueue, Names, device, mine
    <3>2. ops # <<>> => ops' # <<>> /\ Head(ops') = Head(ops)
      BY <1>4, <2>2, <3>1 DEF EnterOtaProcess, AppStore, AppQueue
    <3> QED
      BY <1>0, <3>1, <3>2, BQuiet DEF Names
  <2> QED
    BY <2>1, <2>2
<1>5. CASE Connect \/ Disconnect \/ SendOther \/ GiveUp \/ EnterOtaMode
  <2>1. UNCHANGED <<zone, mode, ops, progress, statue, start>>
    BY <1>5 DEF Connect, Disconnect, SendOther, GiveUp, EnterOtaMode, Message,
                pstore, device, mine
  <2> QED
    BY <1>0, <2>1, BQuiet DEF BInv, Committing
<1>6. CASE SendBegin
  <2>1. UNCHANGED <<zone, mode, progress, start>>
    BY <1>6 DEF SendBegin, Message, OtaBegin, mine
  <2>2. CASE UNCHANGED <<ops, statue>>
    BY <1>0, <2>1, <2>2, BQuiet DEF BInv, Committing
  <2>3. CASE ~ UNCHANGED <<ops, statue>>
    <3>1. mode = "ota" /\ statue = "init" /\ ops' = Append(ops, Clear)
      BY <1>6, <2>3 DEF SendBegin, OtaBegin, mine
    <3>2. ops = <<>> /\ ops' = <<Clear>>
      BY <3>1, Singles DEF OtaQueue
    <3> QED
      BY <1>0, <2>1, <3>1, <3>2, Differ, Singles, BQuiet DEF Names, StoreFirst
  <2> QED
    BY <2>2, <2>3
<1>7. CASE SendHeader \/ SendData \/ SendEnd
  <2>1. reply # None
    BY <1>7, OtaAssumption DEF SendHeader, SendData, SendEnd
  <2>2. mode = "ota" /\ ops = <<>> /\ progress = 0
    BY <2>1 DEF Answered, Names
  <2>3. UNCHANGED <<zone, mode, progress>>
    BY <1>7 DEF SendHeader, SendData, SendEnd, Message
  <2>4. statue' # "end" => statue # "end"
    BY <1>7 DEF SendHeader, SendData, SendEnd, OtaHeader, OtaData, OtaEnd, mine
  <2>5. ops' = <<StoreFirst>> => start' \in File /\ blocks = Image(start')
    <3>1. CASE SendHeader
      BY <2>2, <3>1, Singles DEF SendHeader, OtaHeader
    <3>2. CASE SendData
      BY <2>2, <3>2, Differ, Singles DEF SendData, OtaData
    <3>3. CASE SendEnd
      BY <2>2, <3>3, Singles DEF SendEnd, OtaEnd, SumMatches, mine, Names
    <3> QED
      BY <1>7, <3>1, <3>2, <3>3
  <2> QED
    BY <1>0, <2>2, <2>3, <2>4, <2>5, BQuiet
<1>8. CASE UNCHANGED vars
  BY <1>8 DEF BInv, Unbootable, Erasing, Committing, BootsWhole, vars, zone,
              pstore, mine, device
<1> QED
  BY <1>1, <1>2, <1>3, <1>4, <1>5, <1>6, <1>7, <1>8 DEF Next, Flash, Phone

\* Whenever the device would boot the application, its blocks are those of one
\* image, however many updates were begun, interrupted or misprogrammed, as long
\* as an erasure of the first page that is reported done was done.
THEOREM WholeBoot ==
  ASSUME 1 \notin FaultyPages
  PROVE  Spec => []BootsWhole
<1>1. Init => QInv /\ BInv
  BY QInit, BInit
<1>2. QInv /\ BInv /\ [Next]_vars => (QInv /\ BInv)'
  BY QStep, BStep
<1>3. BInv => BootsWhole
  BY DEF BInv
<1> QED
  BY <1>1, <1>2, <1>3, PTL DEF Spec
-----------------------------------------------------------------------------
\* Types.  Those of the queue and of the protocol follow from QInv.

Contents ==
  /\ first \in File \cup {Blank, Wrong}
  /\ blocks \in [Index -> Data \cup {Blank, Wrong}]
  /\ start \in File \cup {None} /\ file \in File \cup {None}
  /\ mode = "ota" /\ ops = <<StoreFirst>> => start \in File
  /\ held.at \in Index /\ held.data \in Data \cup {Wrong}
  /\ rx \in Data \cup {Wrong}

\* The tries are not used up while an operation is outstanding.
Controls ==
  /\ step \in 0..Tries
  /\ mode = "ota" /\ statue \in {"begin", "program"} /\ ops # <<>> => step < Tries
  /\ dying \in BOOLEAN /\ entering \in BOOLEAN /\ link \in BOOLEAN /\ kept \in BOOLEAN
  /\ reply \in {None, "begin", "data", "error"}
  /\ phase \in {"away", "linked", "begin", "data", "end"}
  /\ sent \in 0..Blocks

TInv == Contents /\ Controls

LEMMA TypesFollow == QInv /\ TInv => TypeOK
<1> SUFFICES ASSUME QInv, TInv PROVE TypeOK
  OBVIOUS
<1>1. \A i \in DOMAIN ops : ops[i].kind \in {"clear", "store"} /\ ops[i].at \in 0..Blocks
  <2>0. /\ Clear.at \in 0..Blocks
        /\ \A src, i : i \in 0..Blocks => StoreAt(i, src).at \in 0..Blocks
        /\ 0 \in 0..Blocks /\ held.at \in 0..Blocks
    BY OtaAssumption DEF Clear, StoreAt, TInv, Contents, Index
  <2>1. CASE mode = "app"
    <3>1. \A i \in DOMAIN ops : ops[i] \in {Clear, StoreForApp}
      BY <2>1 DEF QInv, AppQueue
    <3> QED
      BY <2>0, <3>1, Kinds DEF StoreForApp
  <2>2. CASE mode = "ota" /\ ops # <<>>
    <3>1. PICK op : ops = <<op>> /\ op.kind \in {"clear", "store"} /\ op.at \in 0..Blocks
      BY <2>0, <2>2, Kinds DEF QInv, OtaQueue, StoreFirst
    <3>2. DOMAIN ops = {1} /\ ops[1] = op
      BY <3>1
    <3> QED
      BY <3>1, <3>2
  <2>3. CASE ops = <<>>
    BY <2>3
  <2> QED
    BY <2>1, <2>2, <2>3 DEF QInv, Names
<1>2. /\ Len(ops) <= QueueSize
      /\ progress \in 0..2
      /\ mode = "app" <=> statue = "none"
      /\ mode = "ota" <=> handler = "ota"
      /\ statue \in {"none", "init", "begin", "program", "end"}
      /\ header \in File \cup {None}
  BY DEF QInv, Names, AppQueue, OtaQueue
<1> QED
  BY <1>1, <1>2 DEF TypeOK, TInv, Contents, Controls

LEMMA Bounds ==
  /\ 0 \in 0..Tries /\ 0 < Tries /\ Tries \in Nat
  /\ 0 \in 0..Blocks /\ Blocks \in Nat /\ 1 \in Index
BY OtaAssumption DEF Index

LEMMA TInit == Init => TInv
<1> SUFFICES ASSUME Init PROVE TInv
  OBVIOUS
<1>1. Contents
  <2>1. first \in File => Image(first) \in [Index -> Data]
    BY DEF Image, Data
  <2> QED
    BY <2>1, OtaAssumption DEF Init, Contents, Index, StoreFirst
<1>2. Controls
  BY Bounds DEF Init, Controls
<1> QED
  BY <1>1, <1>2 DEF TInv

LEMMA TBoot == TInv /\ Boot /\ kept' \in BOOLEAN => TInv'
<1> SUFFICES ASSUME TInv, Boot, kept' \in BOOLEAN PROVE TInv'
  OBVIOUS
<1>1. Contents'
  BY OtaAssumption, Singles DEF TInv, Contents, Boot, Index, zone
<1>2. Controls'
  BY Bounds DEF Boot, Controls
<1> QED
  BY <1>1, <1>2 DEF TInv

LEMMA TStep == QInv /\ TInv /\ [Next]_vars => TInv'
<1> SUFFICES ASSUME QInv, TInv, [Next]_vars PROVE TInv'
  OBVIOUS
<1> USE DEF TInv
<1>0. QInv'
  BY QStep
<1>1. CASE Program \/ Erase
  <2>1. UNCHANGED <<ops, mine, device, link, reply, phone, kept>> /\ ops # <<>>
    BY <1>1 DEF Program, Erase
  <2>2. Controls'
    BY <2>1 DEF Controls, mine, device, phone
  <2>3. first' \in File \cup {Blank, Wrong} /\
        blocks' \in [Index -> Data \cup {Blank, Wrong}]
    <3>1. CASE Erase
      BY <3>1 DEF Contents, Erase, zone
    <3>2. CASE Program
      <4> DEFINE op  == Head(ops)
                 new == IF op.src = "rx" THEN rx ELSE held.data
      <4>1. new \in Data \cup {Wrong}
        BY DEF Contents
      <4>2. CASE op.src = "app"
        BY <3>2, <4>2 DEF Program, Contents, zone
      <4>3. CASE op.src = "start"
        <5>1. ops = <<StoreFirst>> /\ mode = "ota"
          <6>1. mode = "ota"
            BY <2>1, <4>3, Queues, Kinds DEF QInv, Names, AppQueue, StoreForApp
          <6> QED
            BY <2>1, <4>3, <6>1, Singles, Kinds DEF QInv, OtaQueue
        <5>2. first' \in Outcome(first, start) /\ UNCHANGED blocks
          BY <3>2, <4>3 DEF Program
        <5> QED
          BY <5>1, <5>2 DEF Contents, Outcome
      <4>4. CASE op.src \in {"rx", "held"}
        <5>1. UNCHANGED first
          BY <3>2, <4>4 DEF Program
        <5>2. PICK cell \in Outcome(blocks[op.at], new) :
                blocks' = [blocks EXCEPT ![op.at] = cell]
          BY <3>2, <4>4 DEF Program
        <5>3. cell \in Data \cup {Wrong}
          BY <4>1, <5>2 DEF Outcome
        <5> QED
          BY <5>1, <5>2, <5>3 DEF Contents
      <4> QED
        BY <3>2, <4>2, <4>3, <4>4 DEF Program
    <3> QED
      BY <1>1, <3>1, <3>2
  <2> QED
    BY <2>1, <2>2, <2>3 DEF Contents, mine, device, phone
<1>2. CASE DelayedReset \/ Restart
  BY <1>2, TBoot DEF DelayedReset, Restart, Controls
<1>3. CASE EnterDone
  BY <1>3, TBoot DEF EnterDone, LeaveApp, Controls
<1>4. CASE AppStored
  <2>1. mode = "app" /\ UNCHANGED <<zone, mine, device, link, reply, phone, kept>>
    BY <1>4 DEF AppStored, Completed, QInv, OtaQueue, Names
  <2> QED
    BY <2>1 DEF Contents, Controls, zone, mine, device, phone
<1>5. CASE EnterOtaProcess \/ AppStore
  <2>1. CASE LeaveApp
    BY <2>1, TBoot DEF LeaveApp, Controls
  <2>2. CASE ~LeaveApp
    <3>1. /\ mode = "app"
          /\ UNCHANGED <<zone, mine, mode, entering, rx, dying, link, reply, phone, kept>>
      BY <1>5, <2>2 DEF EnterOtaProcess, AppStore, QInv, OtaQueue, Names, device
    <3> QED
      BY <3>1 DEF Contents, Controls, zone, mine, phone
  <2> QED
    BY <2>1, <2>2
<1>6. CASE ClearedInOta \/ ProgrammedInOta
  <2>1. /\ UNCHANGED <<zone, start, held, mode, entering, rx, file, sent, kept>>
        /\ mode = "ota" /\ ops # <<>>
    BY <1>6 DEF ClearedInOta, ProgrammedInOta, Completed, phone, QInv, AppQueue, Names
  <2>2. PICK op : ops = <<op>> /\ Tail(ops) = <<>> /\ \A x : Append(Tail(ops), x) = <<x>>
    BY <2>1, Singles DEF QInv, OtaQueue
  <2>3. ops' \in {<<>>, <<Clear>>, <<StoreAt(held.at, "held")>>}
    BY <1>6, <2>2 DEF ClearedInOta, ProgrammedInOta, Retry
  <2>4. Contents'
    BY <2>1, <2>3, Differ, Singles DEF Contents, zone, StoreFirst
  <2>5. /\ dying' \in BOOLEAN /\ link' \in BOOLEAN
        /\ phase' \in {"away", "linked", "begin", "data", "end"}
        /\ reply' \in {None, "begin", "data", "error"}
    BY <1>6 DEF ClearedInOta, ProgrammedInOta, Retry, Notify, HangUp, ResetSoon,
                Controls, phone
  <2>6. /\ step' \in 0..Tries
        /\ statue' \in {"begin", "program"} /\ ops' # <<>> => step' < Tries
    <3>1. CASE UNCHANGED step /\ (ops' = <<>> \/ statue' = "end")
      BY <3>1 DEF Controls
    <3>2. CASE step' = step + 1 /\ statue \in {"begin", "program"}
               /\ (step' >= Tries => ops' = <<>>)
      BY <2>1, <3>2, OtaAssumption DEF Controls
    <3>3. CASE ClearedInOta
      <4>1. Tail(ops) = <<>>
        BY <2>2
      <4> QED
        BY <3>1, <3>2, <3>3, <4>1 DEF ClearedInOta, Retry
    <3>4. CASE ProgrammedInOta
      <4>1. Tail(ops) = <<>>
        BY <2>2
      <4> QED
        BY <3>1, <3>2, <3>4, <4>1 DEF ProgrammedInOta, Retry
    <3> QED
      BY <1>6, <3>3, <3>4
  <2> QED
    BY <2>1, <2>4, <2>5, <2>6 DEF Controls
<1>7. CASE Connect \/ Disconnect \/ SendOther \/ GiveUp \/ EnterOtaMode
  <2>1. /\ UNCHANGED <<zone, ops, mine, mode, file, sent, kept, dying>>
        /\ rx' \in {rx, Wrong} /\ reply' \in {reply, None} /\ link' \in {link, TRUE, FALSE}
        /\ phase' \in {phase, "linked", "away"} /\ entering' \in {entering, TRUE}
    BY <1>7 DEF Connect, Disconnect, SendOther, GiveUp, EnterOtaMode, Message,
                HangUp, pstore, device, phone
  <2>2. Contents'
    BY <2>1 DEF Contents, zone, mine
  <2>3. Controls'
    BY <2>1 DEF Controls, mine
  <2> QED
    BY <2>2, <2>3
<1>8. CASE SendBegin
  <2>1. /\ UNCHANGED <<zone, mode, entering, link, start, held, dying, kept>>
        /\ file' \in File /\ sent' = 0 /\ reply' = None /\ phase' = "begin" /\ rx' = Wrong
    BY <1>8 DEF SendBegin, Message, OtaBegin, mine
  <2>2. CASE UNCHANGED <<ops, statue, step>>
    BY <2>1, <2>2, OtaAssumption DEF Contents, Controls, zone
  <2>3. CASE ~ UNCHANGED <<ops, statue, step>>
    <3>1. mode = "ota" /\ statue = "init" /\ step' = 0 /\ ops' = Append(ops, Clear)
      BY <1>8, <2>3 DEF SendBegin, OtaBegin, mine
    <3>2. ops' = <<Clear>>
      BY <3>1, Singles DEF QInv, OtaQueue
    <3>3. ops' # <<StoreFirst>>
      BY <3>2, Differ, Singles DEF StoreFirst
    <3>4. step' < Tries /\ step' \in 0..Tries
      BY <3>1, OtaAssumption
    <3> QED
      BY <2>1, <3>3, <3>4, OtaAssumption DEF Contents, Controls, zone
  <2> QED
    BY <2>2, <2>3
<1>9. CASE SendHeader \/ SendData \/ SendEnd
  <2>1. ops = <<>> /\ file \in File /\ mode = "ota"
    BY <1>9, OtaAssumption DEF SendHeader, SendData, SendEnd, QInv, Answered, Names
  <2>2. UNCHANGED <<zone, mode, entering, link, file, kept>>
    BY <1>9 DEF SendHeader, SendData, SendEnd, Message
  <2>3. step' \in {step, 0} /\ (ops' = <<>> \/ step' = 0)
    BY <1>9, <2>1 DEF SendHeader, SendData, SendEnd, OtaHeader, OtaData, OtaEnd, mine
  <2>4. reply' \in {None, reply, "data"} /\ phase' \in {"data", "end"}
    BY <1>9 DEF SendHeader, SendData, SendEnd, OtaHeader, Notify
  <2>5. dying' = dying \/ dying' = TRUE
    BY <1>9 DEF SendHeader, SendData, SendEnd, OtaHeader, OtaData, OtaEnd, ResetSoon
  <2>6. sent' \in 0..Blocks
    BY <1>9, Bounds DEF SendHeader, SendData, SendEnd, Controls
  <2>7. Controls'
    <3>1. /\ step' \in 0..Tries
          /\ ops' # <<>> => step' < Tries
      BY <2>3, Bounds DEF Controls
    <3> QED
      BY <2>2, <2>4, <2>5, <2>6, <3>1 DEF Controls
  <2>8. Contents'
    <3>1. CASE SendHeader
      BY <2>1, <2>2, <3>1, Singles
        DEF SendHeader, Message, OtaHeader, Contents, zone, mine
    <3>2. CASE SendData
      <4>1. sent + 1 \in Index /\ <<file, sent + 1>> \in Data
        BY <2>1, <3>2, OtaAssumption DEF SendData, Controls, Index, Data
      <4>2. ops' # <<StoreFirst>>
        BY <2>1, <3>2, Singles, Differ DEF SendData, OtaData
      <4> QED
        BY <2>1, <2>2, <3>2, <4>1, <4>2
          DEF SendData, Message, OtaData, Contents, zone, mine
    <3>3. CASE SendEnd
      BY <2>1, <2>2, <3>3, Singles
        DEF SendEnd, Message, OtaEnd, SumMatches, Contents, zone, mine, QInv, Names
    <3> QED
      BY <1>9, <3>1, <3>2, <3>3
  <2> QED
    BY <2>7, <2>8
<1>10. CASE UNCHANGED vars
  BY <1>10 DEF Contents, Controls, vars, zone, pstore, mine, device, phone
<1> QED
  BY <1>1, <1>2, <1>3, <1>4, <1>5, <1>6, <1>7, <1>8, <1>9, <1>10
    DEF Next, Flash, Phone

\* Type correctness: the flash, the message buffer and the block held back only
\* ever hold what the phone sent, and no more tries are made than ota.c allows.
THEOREM TypeCorrect == Spec => []TypeOK
<1>1. Init => QInv /\ TInv
  BY QInit, TInit
<1>2. QInv /\ TInv /\ [Next]_vars => (QInv /\ TInv)'
  BY QStep, TStep
<1>3. QInv /\ TInv => TypeOK
  BY TypesFollow
<1> QED
  BY <1>1, <1>2, <1>3, PTL DEF Spec
-----------------------------------------------------------------------------
\* What the phone was told is stored.

Sending ==
  phase = "data" =>
    /\ mode = "ota" /\ statue = "program" /\ header = file
    /\ sent = 0 => ops = <<>>
    /\ sent > 0 => start = file /\ held.at = sent /\ held.data = <<file, sent>>
    /\ \A i \in Index : i < sent \/ (i = sent /\ reply = "data") =>
         blocks[i] = <<file, i>>

Ended ==
  phase = "end" => /\ mode = "ota" /\ statue = "end"
                   /\ ops \in {<<>>, <<StoreFirst>>}
                   /\ blocks = Image(file)

Begun == (reply = "begin" => statue = "program") /\ (phase = "begin" => sent = 0)

AInv == Begun /\ Sending /\ Ended

LEMMA AInit == Init => AInv
BY OtaAssumption DEF Init, AInv, Begun, Sending, Ended

LEMMA ABoot == Boot => AInv'
BY OtaAssumption DEF Boot, AInv, Begun, Sending, Ended

\* A block programmed is the last one sent, which is not acknowledged yet.
LEMMA AProgram == QInv /\ TInv /\ AInv /\ (Program \/ Erase) => AInv'
<1> SUFFICES ASSUME QInv, TInv, AInv, Program \/ Erase PROVE AInv'
  OBVIOUS
<1> USE DEF AInv, Begun
<1>1. UNCHANGED <<ops, mode, statue, header, start, held, reply, phase, file, sent>>
      /\ ops # <<>>
  BY DEF Program, Erase, mine, device, phone
<1>2. reply = None
  BY <1>1 DEF QInv, Answered
<1>3. CASE phase = "data"
  <2>1. sent > 0 /\ sent \in Nat /\ mode = "ota" /\ statue = "program"
    BY <1>1, <1>3 DEF Sending, TInv, Controls
  <2>2. Head(ops) \in {StoreAt(held.at, "rx"), StoreAt(held.at, "held")}
    BY <1>1, <2>1, Singles DEF QInv, OtaQueue
  <2>3. Head(ops).kind = "store" /\ Head(ops).src \in {"rx", "held"} /\ Head(ops).at = sent
    BY <1>3, <2>1, <2>2, Kinds DEF Sending
  <2>4. \A i \in Index : i < sent => blocks'[i] = blocks[i]
    BY <2>1, <2>3 DEF Program, Erase, TInv, Contents
  <2>5. reply' # "data"
    BY <1>1, <1>2, OtaAssumption
  <2>6. Sending'
    BY <1>1, <1>3, <2>4, <2>5 DEF Sending
  <2> QED
    BY <1>1, <1>3, <2>6 DEF Ended
<1>4. CASE phase = "end"
  <2>1. ops = <<StoreFirst>>
    BY <1>1, <1>4 DEF Ended
  <2>2. Head(ops).kind = "store" /\ Head(ops).src = "start"
    BY <2>1, Kinds, Singles DEF StoreFirst
  <2>3. UNCHANGED blocks
    BY <2>2 DEF Program, Erase, zone
  <2> QED
    BY <1>1, <1>4, <2>3 DEF Sending, Ended
<1>5. CASE phase \notin {"data", "end"}
  BY <1>1, <1>5 DEF Sending, Ended
<1> QED
  BY <1>3, <1>4, <1>5

\* A completion acknowledges the block that was found in the flash.
LEMMA ACompleted ==
  QInv /\ QInv' /\ TInv /\ AInv /\ (ClearedInOta \/ ProgrammedInOta) => AInv'
<1> SUFFICES ASSUME QInv, QInv', TInv, AInv, ClearedInOta \/ ProgrammedInOta
             PROVE  AInv'
  OBVIOUS
<1> USE DEF AInv, Begun
<1>1. /\ UNCHANGED <<zone, mode, header, start, held, file, sent>>
      /\ mode = "ota" /\ ops # <<>> /\ phase' \in {phase, "away"}
  BY DEF ClearedInOta, ProgrammedInOta, Completed, HangUp, phone, QInv, AppQueue, Names
<1>2. reply = None
  BY <1>1 DEF QInv, Answered
<1>3. reply' = "begin" => statue' = "program"
  BY <1>2, OtaAssumption DEF ClearedInOta, ProgrammedInOta, Retry, Notify, HangUp
<1>4. CASE phase' = "data"
  <2>1. phase = "data" /\ statue = "program" /\ sent > 0
    BY <1>1, <1>4, Bounds DEF Sending, TInv, Controls
  <2>2. ops \in {<<StoreAt(held.at, "rx")>>, <<StoreAt(held.at, "held")>>}
    BY <1>1, <2>1 DEF QInv, OtaQueue
  <2>3. Head(ops).kind = "store"
    BY <2>2, Kinds, Singles
  <2>4. ProgrammedInOta /\ statue' = "program"
    BY <2>1, <2>3 DEF ClearedInOta, ProgrammedInOta, Completed
  <2>5. reply' = "data" => blocks[held.at] = held.data
    BY <1>2, <2>1, <2>4, OtaAssumption DEF ProgrammedInOta, Retry, Notify
  <2>6. Sending'
    BY <1>1, <1>4, <2>1, <2>4, <2>5 DEF Sending, zone
  <2> QED
    BY <1>3, <1>4, <2>6 DEF Ended
<1>5. phase' # "end"
  <2> SUFFICES ASSUME phase' = "end" PROVE FALSE
    OBVIOUS
  <2>1. phase = "end" /\ statue = "end" /\ ops = <<StoreFirst>>
    BY <1>1 DEF Ended
  <2>2. Head(ops).kind = "store"
    BY <2>1, Kinds, Singles DEF StoreFirst
  <2> QED
    BY <2>1, <2>2 DEF ClearedInOta, ProgrammedInOta, Completed, HangUp
<1> QED
  BY <1>1, <1>3, <1>4, <1>5 DEF Sending, Ended

\* The phone sends the next block when the last one is acknowledged, and the end
\* when all are.
LEMMA ASend == QInv /\ TInv /\ AInv /\ (SendHeader \/ SendData \/ SendEnd) => AInv'
<1> SUFFICES ASSUME QInv, TInv, AInv, SendHeader \/ SendData \/ SendEnd PROVE AInv'
  OBVIOUS
<1> USE DEF AInv, Begun
<1>1. mode = "ota" /\ ops = <<>> /\ file \in File
  BY OtaAssumption DEF SendHeader, SendData, SendEnd, QInv, Answered, Names
<1>2. link /\ UNCHANGED <<zone, mode, file>>
  BY DEF SendHeader, SendData, SendEnd, Message
<1>3. sent \in Nat /\ 0 \in Nat
  BY Bounds DEF TInv, Controls
<1>4. CASE SendHeader
  <2>1. statue = "program" /\ sent' = 0 /\ sent = 0 /\ phase = "begin" /\ reply = "begin"
    BY <1>4 DEF SendHeader
  <2>2. /\ header' = file /\ reply' = "data" /\ UNCHANGED <<statue, start, held, ops>>
        /\ phase' = "data"
    BY <1>2, <1>4, <2>1 DEF SendHeader, OtaHeader, Notify
  <2>3. \A i \in Index : ~(i < sent' \/ i = sent')
    BY <2>1, Bounds DEF Index
  <2> QED
    BY <1>1, <1>2, <2>1, <2>2, <2>3 DEF Sending, Ended
<1>5. CASE SendData
  <2>1. phase = "data" /\ statue = "program" /\ reply = "data"
    BY <1>5 DEF SendData, Sending
  <2>2. /\ start' = IF sent + 1 = 1 THEN file ELSE start
        /\ held' = [at |-> sent + 1, data |-> <<file, sent + 1>>]
        /\ sent' = sent + 1 /\ reply' = None /\ phase' = "data"
        /\ UNCHANGED <<statue, header>>
    BY <1>5, <2>1 DEF SendData, OtaData
  <2>3. start' = file
    BY <1>3, <2>1, <2>2 DEF Sending
  <2>4. \A i \in Index : i < sent' => blocks'[i] = <<file, i>>
    BY <1>2, <1>3, <2>1, <2>2 DEF Sending, zone, Index
  <2>5. reply' # "data" /\ reply' # "begin" /\ sent' # 0
    BY <1>3, <2>2, OtaAssumption
  <2>6. Sending'
    BY <1>1, <1>2, <2>1, <2>2, <2>3, <2>4, <2>5 DEF Sending
  <2> QED
    BY <2>2, <2>5, <2>6 DEF Ended
<1>6. CASE SendEnd
  <2>1. phase = "data" /\ statue = "program" /\ reply = "data" /\ sent = Blocks
    BY <1>6 DEF SendEnd, Sending
  <2>2. blocks = Image(file)
    <3>1. \A i \in Index : blocks[i] = <<file, i>>
      <4>1. \A i \in Index : i < sent \/ i = sent
        BY <1>3, <2>1 DEF Index
      <4> QED
        BY <2>1, <4>1 DEF Sending
    <3>2. blocks = [i \in Index |-> blocks[i]]
      BY DEF TInv, Contents
    <3> QED
      BY <3>1, <3>2 DEF Image
  <2>3. header = file /\ start = file /\ file # None
    BY <1>1, <2>1, OtaAssumption DEF Sending
  <2>4. SumMatches
    BY <2>2, <2>3 DEF SumMatches
  <2>5. statue' = "end" /\ ops' = <<StoreFirst>> /\ reply' = None /\ phase' = "end"
    BY <1>1, <1>6, <2>1, <2>4, Singles DEF SendEnd, OtaEnd
  <2> QED
    BY <1>1, <1>2, <2>2, <2>5, OtaAssumption DEF Sending, Ended, zone
<1> QED
  BY <1>4, <1>5, <1>6

LEMMA AStep == QInv /\ TInv /\ AInv /\ [Next]_vars => AInv'
<1> SUFFICES ASSUME QInv, TInv, AInv, [Next]_vars PROVE AInv'
  OBVIOUS
<1>1. CASE Program \/ Erase
  BY <1>1, AProgram
<1>2. CASE DelayedReset \/ Restart \/ EnterDone
  BY <1>2, ABoot DEF DelayedReset, Restart, EnterDone, LeaveApp
<1>3. CASE ClearedInOta \/ ProgrammedInOta
  BY <1>3, ACompleted, QStep
<1>4. CASE SendHeader \/ SendData \/ SendEnd
  BY <1>4, ASend
<1>5. CASE AppStored \/ EnterOtaProcess \/ AppStore
  <2>1. CASE LeaveApp
    BY <2>1, ABoot DEF LeaveApp
  <2>2. CASE ~LeaveApp
    <3>1. mode = "app" /\ UNCHANGED <<zone, mode, statue, reply, phase, sent>>
      BY <1>5, <2>2
        DEF AppStored, Completed, EnterOtaProcess, AppStore, mine, device, phone,
            QInv, OtaQueue, Names
    <3> QED
      BY <3>1 DEF AInv, Begun, Sending, Ended
  <2> QED
    BY <2>1, <2>2
<1>6. CASE Connect \/ Disconnect \/ GiveUp \/ SendBegin
  <2>1. phase' \notin {"data", "end"}
    BY <1>6 DEF Connect, Disconnect, GiveUp, SendBegin, HangUp
  <2>2. reply' = "begin" => reply = "begin"
    BY <1>6, OtaAssumption DEF Connect, Disconnect, GiveUp, SendBegin, HangUp
  <2>3. statue = "program" => statue' = "program"
    BY <1>6 DEF Connect, Disconnect, GiveUp, SendBegin, OtaBegin, mine
  <2>4. phase' = "begin" => sent' = 0
    BY <1>6 DEF Connect, Disconnect, GiveUp, SendBegin, HangUp
  <2> QED
    BY <2>1, <2>2, <2>3, <2>4 DEF AInv, Begun, Sending, Ended
<1>7. CASE SendOther \/ EnterOtaMode \/ UNCHANGED vars
  <2>1. UNCHANGED <<zone, ops, mine, mode, reply, phone>>
    BY <1>7 DEF SendOther, EnterOtaMode, Message, vars, pstore, device
  <2> QED
    BY <2>1 DEF AInv, Begun, Sending, Ended, zone, mine, phone
<1> QED
  BY <1>1, <1>2, <1>3, <1>4, <1>5, <1>6, <1>7 DEF Next, Flash, Phone

\* What the phone was told is in the flash is there while the update goes on, and
\* when the end is accepted the whole image is.
THEOREM AcksAreKept == Spec => []AckedStored
<1>1. Init => QInv /\ TInv /\ AInv
  BY QInit, TInit, AInit
<1>2. QInv /\ TInv /\ AInv /\ [Next]_vars => (QInv /\ TInv /\ AInv)'
  BY QStep, TStep, AStep
<1>3. AInv => AckedStored
  BY DEF AInv, Sending, Ended, AckedStored
<1> QED
  BY <1>1, <1>2, <1>3, PTL DEF Spec
=============================================================================
