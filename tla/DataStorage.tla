---------------------------- MODULE DataStorage ----------------------------
(***************************************************************************)
(* The data warehouse of the firmware (src/Platform/Juma/data_storage.c)   *)
(* on the flash layer below it (flash_operation.c).  A write appends a     *)
(* block to the data area; when the area is full the newest block of every *)
(* id is saved in the cache, the area is erased and the saved blocks are   *)
(* programmed back.  Each step is started by the end of the one before: an *)
(* operation of the dispatcher, in the order of registration, or a flash   *)
(* operation, whose completion data_storage_callback tells from another's  *)
(* by data_storage_statue alone.                                           *)
(*                                                                         *)
(* A store is programmed a block at a time and read from its source when   *)
(* it is programmed, an erase proceeds a page at a time, and the power may *)
(* fail in between.                                                        *)
(***************************************************************************)
EXTENDS Integers, Sequences, FiniteSets

CONSTANTS
  Id,           \* 0..STORAGE_ID_MAX-1
  Value,        \* what callers store: length and data
  None,         \* of an erased block; the answer when an id is not found
  Garbled,      \* data programmed over other data
  AreaBlocks,   \* DATA_AREA_SIZE / DATA_BLOCK_SIZE (224)
  PageBlocks,   \* DATA_PAGE_SIZE / DATA_BLOCK_SIZE (32), also the cache
  Overlap,      \* TRUE: callers write before the last write has finished
  StackHolds,   \* TRUE: a dead stack frame stays intact until programmed
  FlashFails,   \* TRUE: the flash may give an operation up
  Losses        \* values of data_storage_statue at which the power may fail

Area  == 1..AreaBlocks
Cache == 1..PageBlocks
Block == [id : Id, value : Value \cup {Garbled}]
Blank == [id |-> None, value |-> None]

ASSUME LayoutAssumption ==
  /\ Id \subseteq Nat
  /\ IsFiniteSet(Id)
  /\ None \notin Id \cup Value \cup {Garbled}
  /\ PageBlocks \in Nat \ {0}
  /\ AreaBlocks \in Nat \ {0}
  /\ AreaBlocks % PageBlocks = 0
  /\ Cardinality(Id) < PageBlocks
ASSUME CallerAssumption ==
  /\ Overlap \in BOOLEAN
  /\ StackHolds \in BOOLEAN
  /\ FlashFails \in BOOLEAN

VARIABLES
  area, cache,  \* the two zones of the flash
  statue,       \* data_storage_statue
  buffer,       \* data_storage_data
  frame,        \* flash_data, a local array of settle_data_flash_clear_cache_ok
  idle,         \* operations registered with run_when_idle
  flash,        \* operations accepted by pstorage
  progress,     \* blocks or pages done of the first of them
  writing,      \* writes accepted and not yet finished (history)
  saved,        \* last value finished, per id (history)
  outages       \* parity of the power outages (history)

zones == <<area, cache>>
ram   == <<statue, buffer, frame, idle>>
queue == <<flash, progress>>
past  == <<writing, saved, outages>>
vars  == <<zones, ram, queue, past>>

-----------------------------------------------------------------------------
\* Reading.

Used(zone, b) == zone[b].id # None

\* Mutant of Newest: the lowest address, the oldest block.
Oldest(zone, id) ==
  CHOOSE b \in DOMAIN zone :
    zone[b].id = id /\ \A c \in DOMAIN zone : zone[c].id = id => b <= c

\* The block with the highest address of those that hold an id.
Newest(zone, id) ==
  CHOOSE b \in DOMAIN zone :
    zone[b].id = id /\ \A c \in DOMAIN zone : zone[c].id = id => c <= b

Holds(zone, id) == \E b \in DOMAIN zone : zone[b].id = id

\* Mutant of Read: the cache is not read.
ReadArea(id) ==
  IF Holds(area, id) THEN area[Newest(area, id)].value ELSE None

\* data_storage_read: from the top of the area down, then the cache.
Read(id) == IF Holds(area, id) THEN area[Newest(area, id)].value
            ELSE IF Holds(cache, id) THEN cache[Newest(cache, id)].value
            ELSE None

-----------------------------------------------------------------------------
\* The queues.

Todo(func, at) == [func |-> func, at |-> at]

\* flash_program and flash_clear append to the queue of pstorage.
Store(zone, src, at, size) ==
  [kind |-> "store", zone |-> zone, src |-> src, at |-> at, size |-> size]
Clear(zone, size) ==
  [kind |-> "clear", zone |-> zone, src |-> "none", at |-> 1, size |-> size]

Zone(z) == IF z = "area" THEN area ELSE cache

-----------------------------------------------------------------------------
\* Steps 1 to 3 of a write.

\* data_storage_write, for an id and a length in range.
Write(id, v) ==
  /\ Overlap \/ writing = <<>>
  /\ buffer' = [id |-> id, value |-> v]
  /\ statue' = 1
  /\ idle' = Append(idle, Todo("find_space", 0))
  /\ writing' = Append(writing, [id |-> id, value |-> v])
  /\ UNCHANGED <<zones, frame, queue, saved, outages>>

IsFirstFree(b) == ~Used(area, b) /\ \A c \in Area : ~Used(area, c) => b <= c

\* data_storage_write_find_sapce, called at step `at` with the operations
\* `others` still registered.
FindSpace(at, others) ==
  \/ /\ \A b \in Area : Used(area, b)
     /\ statue' = at
     /\ idle' = Append(others, Todo("clear_cache", 0))
  \/ \E b \in Area :
       /\ IsFirstFree(b)
       /\ statue' = 0
       /\ idle' = Append(others, Todo("write_to_flash", b))

Starts(func) == idle # <<>> /\ Head(idle).func = func

StartFindSpace ==
  /\ Starts("find_space")
  /\ FindSpace(statue, Tail(idle))
  /\ UNCHANGED <<zones, buffer, frame, queue, past>>

\* Mutant of WriteToFlash: the address found is not passed on.
WriteToStart ==
  /\ Starts("write_to_flash")
  /\ statue' = 0
  /\ flash' = Append(flash, Store("area", "buffer", 1, 1))
  /\ idle' = Tail(idle)
  /\ UNCHANGED <<zones, buffer, frame, progress, past>>

\* data_storage_write_to_flash
WriteToFlash ==
  /\ Starts("write_to_flash")
  /\ statue' = 0
  /\ flash' = Append(flash, Store("area", "buffer", Head(idle).at, 1))
  /\ idle' = Tail(idle)
  /\ UNCHANGED <<zones, buffer, frame, progress, past>>

\* Mutant of ClearCache: the step is not recorded.
ClearCacheUnmarked ==
  /\ Starts("clear_cache")
  /\ flash' = Append(flash, Clear("cache", 1))
  /\ idle' = Tail(idle)
  /\ UNCHANGED <<zones, statue, buffer, frame, progress, past>>

\* settle_data_flash_clear_cache
ClearCache ==
  /\ Starts("clear_cache")
  /\ statue' = 21
  /\ flash' = Append(flash, Clear("cache", 1))
  /\ idle' = Tail(idle)
  /\ UNCHANGED <<zones, buffer, frame, progress, past>>

\* data_storage_on_finish_ok: the caller learns that its write is done.
OnFinishOk ==
  /\ Starts("on_finish_ok")
  /\ idle' = Tail(idle)
  /\ writing' = Tail(writing)
  /\ saved' = [saved EXCEPT ![Head(writing).id] = Head(writing).value]
  /\ UNCHANGED <<zones, statue, buffer, frame, queue, outages>>

DispatchIdle == StartFindSpace \/ WriteToFlash \/ ClearCache \/ OnFinishOk

-----------------------------------------------------------------------------
\* The flash.

\* What a cell holds when `new` is programmed over `old`: bits only clear.
Programmed(old, new) ==
  IF old = Blank THEN {new}
  ELSE IF new \in {old, Blank} THEN {old}
  ELSE {[id |-> i, value |-> Garbled] :
          i \in IF old.id = new.id THEN {old.id} ELSE Id}

\* What the source of a store holds by the time a block is programmed.
Content(src, i) ==
  CASE src = "buffer" -> {buffer}
    [] src = "cache"  -> {cache[i]}
    [] src = "frame"  -> IF StackHolds THEN {frame[i]} ELSE Block \cup {Blank}

Busy(kind) == /\ flash # <<>>
              /\ Head(flash).kind = kind
              /\ progress < Head(flash).size

Program ==
  /\ Busy("store")
  /\ LET op == Head(flash)
         b  == op.at + progress
     IN \E new \in Content(op.src, progress + 1) :
        \E cell \in Programmed(Zone(op.zone)[b], new) :
          /\ area' = IF op.zone = "area" THEN [area EXCEPT ![b] = cell] ELSE area
          /\ cache' = IF op.zone = "cache" THEN [cache EXCEPT ![b] = cell]
                                           ELSE cache
  /\ progress' = progress + 1
  /\ UNCHANGED <<ram, flash, past>>

Page(b) == (b - 1) \div PageBlocks

Erase ==
  /\ Busy("clear")
  /\ LET erased(zone) == [b \in DOMAIN zone |->
                            IF Page(b) = progress THEN Blank ELSE zone[b]]
     IN IF Head(flash).zone = "area"
        THEN area' = erased(area) /\ UNCHANGED cache
        ELSE cache' = erased(cache) /\ UNCHANGED area
  /\ progress' = progress + 1
  /\ UNCHANGED <<ram, flash, past>>

-----------------------------------------------------------------------------
\* The completion of a flash operation: steps 2.1 to 2.5 of the settlement.

\* settle_data_flash_clear_cache_ok: the newest block of every id, by id.
CollectValid(rest) ==
  LET ids == {id \in Id : Holds(area, id)} IN
  \E order \in [1..Cardinality(ids) -> ids] :
    /\ \A i, j \in DOMAIN order : i < j => order[i] < order[j]
    /\ frame' = [i \in DOMAIN order |-> area[Newest(area, order[i])]]
    /\ statue' = 22
    /\ flash' = Append(rest, Store("cache", "frame", 1, Cardinality(ids)))
    /\ UNCHANGED <<buffer, idle>>

\* Mutant of ClearArea: the length in blocks where pages are erased.
ClearAreaBlocks(rest) ==
  /\ statue' = 23
  /\ flash' = Append(rest, Clear("area", AreaBlocks))
  /\ frame' = <<>>
  /\ UNCHANGED <<buffer, idle>>

\* settle_data_flash_write_cache_ok; nothing reads the stack frame any more.
ClearArea(rest) ==
  /\ statue' = 23
  /\ flash' = Append(rest, Clear("area", AreaBlocks \div PageBlocks))
  /\ frame' = <<>>
  /\ UNCHANGED <<buffer, idle>>

\* settle_data_flash_clear_data_flash_ok: the blocks up to the first unused one.
WriteBack(rest) ==
  \E count \in 0..PageBlocks :
    /\ \A b \in 1..count : Used(cache, b)
    /\ count < PageBlocks => ~Used(cache, count + 1)
    /\ statue' = 24
    /\ flash' = Append(rest, Store("area", "cache", 1, count))
    /\ UNCHANGED <<buffer, frame, idle>>

\* data_storage_callback; it looks at the kind of operation and at statue only.
Callback(kind, rest) ==
  \/ /\ kind = "store" /\ statue = 0
     /\ idle' = Append(idle, Todo("on_finish_ok", 0))
     /\ flash' = rest
     /\ UNCHANGED <<statue, buffer, frame>>
  \/ kind = "clear" /\ statue = 21 /\ CollectValid(rest)
  \/ kind = "store" /\ statue = 22 /\ ClearArea(rest)
  \/ kind = "clear" /\ statue = 23 /\ WriteBack(rest)
  \/ /\ kind = "store" /\ statue = 24
     /\ FindSpace(25, idle)
     /\ flash' = rest
     /\ UNCHANGED <<buffer, frame>>

\* Mutant of Expected: the end of the settlement is not acted on.
ExpectedButLast ==
  {<<"store", 0>>, <<"clear", 21>>, <<"store", 22>>, <<"clear", 23>>}

Expected == {<<"store", 0>>, <<"clear", 21>>, <<"store", 22>>, <<"clear", 23>>,
             <<"store", 24>>}

FlashDone ==
  /\ flash # <<>>
  /\ progress = Head(flash).size \/ FlashFails
  /\ progress' = 0
  /\ IF <<Head(flash).kind, statue>> \in Expected
     THEN Callback(Head(flash).kind, Tail(flash))
     ELSE flash' = Tail(flash) /\ UNCHANGED ram
  /\ UNCHANGED <<zones, past>>

Flash == Program \/ Erase \/ FlashDone

-----------------------------------------------------------------------------
\* Power loss and restart: data_storage_init.  A write that had not finished
\* has either reached the flash or not, and stays so.

PowerLoss ==
  /\ statue \in Losses
  /\ statue' = 0
  /\ buffer' = Blank
  /\ frame' = <<>>
  /\ idle' = <<>>
  /\ flash' = <<>>
  /\ progress' = 0
  /\ writing' = <<>>
  /\ saved' = [id \in Id |->
                 IF \E i \in DOMAIN writing :
                      writing[i] = [id |-> id, value |-> Read(id)]
                 THEN Read(id) ELSE saved[id]]
  /\ outages' = 1 - outages
  /\ UNCHANGED zones

Init ==
  /\ statue = 0
  /\ buffer = Blank
  /\ frame = <<>>
  /\ idle = <<>>
  /\ flash = <<>>
  /\ progress = 0
  /\ writing = <<>>
  /\ area = [b \in Area |-> Blank]
  /\ cache = [b \in Cache |-> Blank]
  /\ saved = [id \in Id |-> None]
  /\ outages = 0

Next ==
  \/ \E id \in Id, v \in Value : Write(id, v)
  \/ DispatchIdle
  \/ Flash
  \/ PowerLoss

\* The dispatcher runs its idle operations and the flash works.
Spec == Init /\ [][Next]_vars /\ WF_vars(DispatchIdle) /\ WF_vars(Flash)

-----------------------------------------------------------------------------
\* Properties.

\* The zones hold blocks, and the queues hold operations that stay inside them:
\* no store or erase of the settlement leaves the data area or the cache.
TypeOK ==
  /\ area \in [Area -> Block \cup {Blank}]
  /\ cache \in [Cache -> Block \cup {Blank}]
  /\ statue \in {0, 1} \cup 21..25
  /\ buffer \in Block \cup {Blank}
  /\ \A i \in DOMAIN frame : frame[i] \in Block
  /\ \A i \in DOMAIN idle :
       \/ idle[i].func \in {"find_space", "clear_cache", "on_finish_ok"}
       \/ idle[i].func = "write_to_flash" /\ idle[i].at \in Area
  /\ \A i \in DOMAIN flash :
       LET op == flash[i] IN
       op.size = 0 \/ IF op.kind = "clear" THEN op.size * PageBlocks <= AreaBlocks
                      ELSE op.at + op.size - 1 \in DOMAIN Zone(op.zone)
  /\ progress \in 0..AreaBlocks
  /\ \A i \in DOMAIN writing : writing[i] \in Block
  /\ saved \in [Id -> Value \cup {None}]
  /\ outages \in {0, 1}

\* What data_storage_read answers for an id, at any moment, in particular in
\* the middle of a settlement and after a power loss: the last value whose
\* write finished, or that of a write under way.
ReadsBack ==
  \A id \in Id :
    \/ Read(id) = saved[id]
    \/ \E i \in DOMAIN writing : writing[i] = [id |-> id, value |-> Read(id)]

\* The flash is never programmed over data: the blocks a store has still to
\* program are erased, whatever happened since the store was planned.
ProgramsErased ==
  \A i \in DOMAIN flash :
    LET op == flash[i]
        done == IF i = 1 THEN progress ELSE 0
    IN op.kind = "store" =>
         \A b \in (op.at + done)..(op.at + op.size - 1) : ~Used(Zone(op.zone), b)

\* The chain of steps is never forked or broken: a write under way has exactly
\* one operation registered or at the flash, and data_storage_statue names the
\* one the flash will complete.
OneStep ==
  /\ Len(idle) + Len(flash) = Len(writing)
  /\ flash # <<>> => <<Head(flash).kind, statue>> \in Expected

\* data_storage_on_finish is called for every write, unless the power fails.
EventuallyFinished == writing # <<>> ~> writing = <<>>

=============================================================================
