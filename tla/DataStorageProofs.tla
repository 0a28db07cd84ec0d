------------------------- MODULE DataStorageProofs -------------------------
(***************************************************************************)
(* Theorems about DataStorage, for any layout of the flash, any ids and    *)
(* values, and any number of writes and power losses.                      *)
(*                                                                         *)
(* A write is a chain of steps, each started by the end of the one before. *)
(* Chain names the step a write is at; on it rest that the flash is never  *)
(* programmed over data (Ahead) and, when the power holds during the       *)
(* rewriting of the area, that the value of every id stays readable from   *)
(* the area or from the cache (Kept).                                      *)
(***************************************************************************)
EXTENDS MCDataStorage, FiniteSetTheorems, WellFoundedInduction, TLAPS

Cell == Block \cup {Blank}

\* The operations the dispatcher may hold for the write under way.
Registered(t) ==
  \/ t = Todo("find_space", 0) /\ statue = 1
  \/ t = Todo("clear_cache", 0) /\ statue \in {1, 25}
  \/ t = Todo("on_finish_ok", 0) /\ statue = 0
  \/ statue = 0 /\ \E b \in Area : t = Todo("write_to_flash", b)

\* The operations the flash may hold for it.
Planned(op) ==
  \/ statue = 0 /\ \E b \in Area : op = Store("area", "buffer", b, 1)
  \/ statue = 21 /\ op = Clear("cache", 1)
  \/ /\ statue = 22
     /\ \E n \in 0..PageBlocks :
          frame \in [1..n -> Block] /\ op = Store("cache", "frame", 1, n)
  \/ statue = 23 /\ op = Clear("area", AreaBlocks \div PageBlocks)
  \/ statue = 24 /\ \E n \in 0..PageBlocks : op = Store("area", "cache", 1, n)

Resting == idle = <<>> /\ flash = <<>> /\ writing = <<>> /\ progress = 0

Waiting ==
  /\ idle # <<>> /\ idle = <<Head(idle)>> /\ Registered(Head(idle))
  /\ flash = <<>> /\ progress = 0

Working ==
  /\ idle = <<>>
  /\ flash # <<>> /\ flash = <<Head(flash)>> /\ Planned(Head(flash))
  /\ progress \in 0..Head(flash).size

Chain == Resting \/ /\ writing = <<buffer>>
                    /\ buffer \in [id : Id, value : Value]
                    /\ Waiting \/ Working

Fields ==
  /\ area \in [Area -> Cell]
  /\ cache \in [Cache -> Cell]
  /\ statue \in {0, 1} \cup 21..25
  /\ buffer \in Cell
  /\ \A i \in DOMAIN frame : frame[i] \in Block
  /\ saved \in [Id -> Value \cup {None}]
  /\ outages \in {0, 1}

\* What makes one operation at a time inductive.
CInv == Fields /\ Chain

\* What the step under way is going to program is erased, or being erased.
Ahead ==
  /\ idle # <<>> /\ Head(idle).func = "write_to_flash" =>
       ~Used(area, Head(idle).at)
  /\ flash # <<>> /\ statue = 21 /\ progress = 1 =>
       \A b \in Cache : ~Used(cache, b)
  /\ flash # <<>> /\ statue = 23 =>
       \A b \in Area : Page(b) < progress => ~Used(area, b)
  /\ ProgramsErased

\* The blocks in use come first.
Prefix(n) == \A b \in Area : Used(area, b) <=> b <= n

\* The first n cells of the cache hold a block each, of different ids.
Distinct(zone, n) ==
  /\ \A i \in 1..n : zone[i] \in Block
  /\ \A i, j \in 1..n : zone[i].id = zone[j].id => i = j

\* The cache tells nothing that the area does not.
Shadowed == \A id \in Id : Holds(cache, id) => Holds(area, id)

\* The frame is the newest block of every id, and the cache its first blocks.
Collected(n) ==
  /\ frame \in [1..n -> Block]
  /\ Distinct(frame, n)
  /\ \A i \in 1..n : /\ Holds(area, frame[i].id)
                     /\ frame[i] = area[Newest(area, frame[i].id)]
  /\ \A id \in Id : Holds(area, id) => \E i \in 1..n : frame[i].id = id
  /\ \A i \in Cache : cache[i] = IF i <= progress THEN frame[i] ELSE Blank

\* The cache holds the value of every id; the area may be going.
Safe ==
  /\ \E n \in 0..PageBlocks :
       /\ Distinct(cache, n)
       /\ \A i \in Cache : i > n => cache[i] = Blank
  /\ \A id \in Id :
       Holds(area, id) =>
         /\ Holds(cache, id)
         /\ area[Newest(area, id)].value = cache[Newest(cache, id)].value

\* The area is being rewritten from the cache.
Restored(n) ==
  /\ Distinct(cache, n)
  /\ \A i \in Cache : i > n => cache[i] = Blank
  /\ \A b \in Area : area[b] = IF b <= progress THEN cache[b] ELSE Blank

\* A read finds the block being written.
Stored == \A id \in Id : id = buffer.id => Read(id) = buffer.value

Kept ==
  /\ statue \notin {23, 24} =>
       Shadowed /\ \E n \in 0..AreaBlocks : Prefix(n)
  /\ flash # <<>> /\ statue = 22 => Collected(Head(flash).size)
  /\ flash # <<>> /\ statue = 23 => Safe
  /\ flash # <<>> /\ statue = 24 => Restored(Head(flash).size)
  /\ statue \in {23, 24} => flash # <<>>
  /\ idle # <<>> /\ Head(idle).func = "on_finish_ok" => Stored
  /\ flash # <<>> /\ statue = 0 /\ progress = 1 => Stored
  /\ idle # <<>> /\ Head(idle).func = "write_to_flash" =>
       IsFirstFree(Head(idle).at)
  /\ flash # <<>> /\ statue = 0 /\ progress = 0 => IsFirstFree(Head(flash).at)
  /\ ReadsBack

-----------------------------------------------------------------------------
\* Queues of one operation, and what the operations are.

LEMMA Singles ==
  ASSUME NEW x
  PROVE  /\ Append(<<>>, x) = <<x>>
         /\ Tail(<<x>>) = <<>>
         /\ Head(<<x>>) = x
         /\ Len(<<x>>) = 1
         /\ Len(<<>>) = 0
         /\ <<x>>[1] = x
         /\ DOMAIN <<x>> = {1}
         /\ DOMAIN <<>> = {}
         /\ <<x>> # <<>>
OBVIOUS

LEMMA Fits ==
  /\ PageBlocks \in Nat /\ PageBlocks >= 1
  /\ AreaBlocks \in Nat /\ AreaBlocks >= PageBlocks
  /\ AreaBlocks \div PageBlocks \in Nat
  /\ (AreaBlocks \div PageBlocks) * PageBlocks = AreaBlocks
  /\ AreaBlocks \div PageBlocks <= AreaBlocks
  <1> DEFINE q == AreaBlocks \div PageBlocks
  <1>1. PageBlocks \in Nat /\ PageBlocks >= 1 /\ AreaBlocks \in Nat /\ AreaBlocks >= 1
    BY LayoutAssumption
  <1>2. q \in Int /\ AreaBlocks = PageBlocks * q + (AreaBlocks % PageBlocks)
    BY <1>1
  <1>3. AreaBlocks % PageBlocks = 0
    BY LayoutAssumption
  <1> HIDE DEF q
  <1>4. AreaBlocks = PageBlocks * q
    BY <1>1, <1>2, <1>3
  <1>5. q >= 1
    BY <1>1, <1>2, <1>4
  <1>6. PageBlocks * q >= PageBlocks /\ PageBlocks * q >= q
    BY <1>1, <1>2, <1>5
  <1>7. QED
    BY <1>1, <1>2, <1>4, <1>5, <1>6 DEF q

\* The pages of the area are those an erase of the area goes through, and the
\* cache is one page.
LEMMA Pages ==
  /\ \A b \in Area : Page(b) \in Nat /\ Page(b) < AreaBlocks \div PageBlocks
  /\ \A b \in Cache : Page(b) = 0
  /\ \A b, c \in Area : b <= c => Page(b) <= Page(c)
  <1> DEFINE q == AreaBlocks \div PageBlocks
  <1>1. ASSUME NEW n \in Nat
        PROVE  /\ n \div PageBlocks \in Nat
               /\ (n \div PageBlocks) * PageBlocks <= n
               /\ n < (n \div PageBlocks + 1) * PageBlocks
    BY Fits
  <1>2. ASSUME NEW b \in Area PROVE Page(b) \in Nat /\ Page(b) < q
    <2>1. b - 1 \in Nat /\ b - 1 < AreaBlocks
      BY Fits DEF Area
    <2>2. Page(b) \in Nat /\ Page(b) * PageBlocks <= b - 1
      BY <2>1, <1>1 DEF Page
    <2>3. Page(b) * PageBlocks < q * PageBlocks
      BY <2>1, <2>2, Fits
    <2>4. QED
      BY <2>2, <2>3, Fits
  <1>3. ASSUME NEW b \in Cache PROVE Page(b) = 0
    <2>1. b - 1 \in Nat /\ b - 1 < PageBlocks
      BY Fits DEF Cache
    <2>2. Page(b) \in Nat /\ Page(b) * PageBlocks <= b - 1
      BY <2>1, <1>1 DEF Page
    <2>3. Page(b) * PageBlocks < 1 * PageBlocks
      BY <2>1, <2>2, Fits
    <2>4. QED
      BY <2>2, <2>3, Fits
  <1>4. ASSUME NEW b \in Area, NEW c \in Area, b <= c PROVE Page(b) <= Page(c)
    <2>1. b - 1 \in Nat /\ c - 1 \in Nat
      BY Fits DEF Area
    <2>2. /\ Page(b) \in Nat /\ Page(b) * PageBlocks <= b - 1
          /\ Page(c) \in Nat /\ c - 1 < (Page(c) + 1) * PageBlocks
      BY <2>1, <1>1 DEF Page
    <2>3. Page(b) * PageBlocks < (Page(c) + 1) * PageBlocks
      BY <2>1, <2>2, <1>4, Fits DEF Area
    <2>4. QED
      BY <2>2, <2>3, Fits
  <1>5. QED
    BY <1>2, <1>3, <1>4
\* Todos and flash operations are told apart by their fields.
LEMMA Fielded ==
  /\ \A f, b : Todo(f, b).func = f /\ Todo(f, b).at = b
  /\ \A z, r, b, n : LET op == Store(z, r, b, n) IN
       op.kind = "store" /\ op.zone = z /\ op.src = r /\ op.at = b /\ op.size = n
  /\ \A z, n : LET op == Clear(z, n) IN
       op.kind = "clear" /\ op.zone = z /\ op.size = n
BY DEF Todo, Store, Clear

-----------------------------------------------------------------------------
\* What a step of each kind finds and leaves.

LEMMA AtWrite ==
  ASSUME CInv, ~Overlap, NEW id \in Id, NEW v \in Value, Write(id, v)
  PROVE  /\ Resting
         /\ writing' = <<buffer'>> /\ buffer' = [id |-> id, value |-> v]
         /\ idle' = <<Todo("find_space", 0)>> /\ statue' = 1
  <1>1. Resting
    BY Singles DEF CInv, Chain, Write
  <1>2. QED
    BY <1>1, Singles DEF Resting, Write

\* The write under way waits for the dispatcher.
LEMMA AtIdle ==
  ASSUME CInv, NEW f, Starts(f)
  PROVE  /\ writing = <<buffer>> /\ buffer \in [id : Id, value : Value]
         /\ flash = <<>> /\ progress = 0
         /\ Head(idle).func = f /\ idle = <<Head(idle)>> /\ Tail(idle) = <<>>
         /\ Registered(Head(idle))
  <1>1. idle # <<>> /\ Head(idle).func = f
    BY DEF Starts
  <1>2. writing = <<buffer>> /\ buffer \in [id : Id, value : Value] /\ Waiting
    BY <1>1 DEF CInv, Chain, Resting, Working
  <1>3. idle = <<Head(idle)>> /\ Tail(<<Head(idle)>>) = <<>>
    BY <1>2, Singles DEF Waiting
  <1>4. Tail(idle) = <<>>
    BY <1>3
  <1>5. QED
    BY <1>1, <1>2, <1>3, <1>4 DEF Waiting

LEMMA AtFindSpace ==
  ASSUME CInv, StartFindSpace
  PROVE  /\ statue = 1 /\ Head(idle) = Todo("find_space", 0)
         /\ \/ /\ \A b \in Area : Used(area, b)
               /\ statue' = 1 /\ idle' = <<Todo("clear_cache", 0)>>
            \/ /\ statue' = 0
               /\ \E b \in Area : IsFirstFree(b) /\ idle' = <<Todo("write_to_flash", b)>>
  <1>1. /\ Head(idle).func = "find_space" /\ Registered(Head(idle))
        /\ Tail(idle) = <<>>
    BY AtIdle DEF StartFindSpace
  <1>2. statue = 1 /\ Head(idle) = Todo("find_space", 0)
    BY <1>1, Fielded DEF Registered
  <1>3. FindSpace(1, <<>>)
    BY <1>1, <1>2 DEF StartFindSpace
  <1>4. QED
    BY <1>2, <1>3, Singles DEF FindSpace

LEMMA AtWriteToFlash ==
  ASSUME CInv, WriteToFlash
  PROVE  \E b \in Area : /\ Head(idle) = Todo("write_to_flash", b)
                         /\ flash' = <<Store("area", "buffer", b, 1)>>
                         /\ idle' = <<>> /\ statue = 0 /\ statue' = 0
  <1>1. /\ Head(idle).func = "write_to_flash" /\ Registered(Head(idle))
        /\ Tail(idle) = <<>> /\ flash = <<>>
    BY AtIdle DEF WriteToFlash
  <1>2. statue = 0 /\ \E b \in Area : Head(idle) = Todo("write_to_flash", b)
    BY <1>1, Fielded DEF Registered
  <1>3. PICK b \in Area : Head(idle) = Todo("write_to_flash", b)
    BY <1>2
  <1>4. Head(idle).at = b
    BY <1>3, Fielded
  <1>5. flash' = <<Store("area", "buffer", b, 1)>> /\ idle' = <<>> /\ statue' = 0
    BY <1>1, <1>4, Singles DEF WriteToFlash
  <1>6. QED
    BY <1>2, <1>3, <1>5

LEMMA AtClearCache ==
  ASSUME CInv, ClearCache
  PROVE  /\ statue \in {1, 25} /\ statue' = 21
         /\ flash' = <<Clear("cache", 1)>> /\ idle' = <<>>
  <1>1. /\ Head(idle).func = "clear_cache" /\ Registered(Head(idle))
        /\ Tail(idle) = <<>> /\ flash = <<>>
    BY AtIdle DEF ClearCache
  <1>2. statue \in {1, 25}
    BY <1>1, Fielded DEF Registered
  <1>3. QED
    BY <1>1, <1>2, Singles DEF ClearCache

LEMMA AtFinish ==
  ASSUME CInv, OnFinishOk
  PROVE  /\ writing = <<buffer>> /\ buffer \in [id : Id, value : Value]
         /\ Head(idle).func = "on_finish_ok" /\ statue = 0
         /\ idle' = <<>> /\ writing' = <<>> /\ flash = <<>> /\ progress = 0
         /\ saved' = [saved EXCEPT ![buffer.id] = buffer.value]
  <1>1. /\ Head(idle).func = "on_finish_ok" /\ Registered(Head(idle))
        /\ Tail(idle) = <<>> /\ flash = <<>> /\ progress = 0
        /\ writing = <<buffer>> /\ buffer \in [id : Id, value : Value]
    BY AtIdle DEF OnFinishOk
  <1>2. statue = 0
    BY <1>1, Fielded DEF Registered
  <1>3. Head(writing) = buffer /\ Tail(writing) = <<>>
    BY <1>1, Singles
  <1>4. QED
    BY <1>1, <1>2, <1>3 DEF OnFinishOk

\* The write under way is at the flash.
LEMMA AtFlash ==
  ASSUME CInv, flash # <<>>
  PROVE  /\ writing = <<buffer>> /\ buffer \in [id : Id, value : Value]
         /\ idle = <<>> /\ flash = <<Head(flash)>> /\ Tail(flash) = <<>>
         /\ Planned(Head(flash)) /\ progress \in 0..Head(flash).size
  <1>1. writing = <<buffer>> /\ buffer \in [id : Id, value : Value] /\ Working
    BY DEF CInv, Chain, Resting, Waiting
  <1>2. flash = <<Head(flash)>> /\ Tail(<<Head(flash)>>) = <<>>
    BY <1>1, Singles DEF Working
  <1>3. Tail(flash) = <<>>
    BY <1>2
  <1>4. QED
    BY <1>1, <1>2, <1>3 DEF Working

\* The three stores of a write: of its block, of the frame, and of the cache.
LEMMA AtProgram ==
  ASSUME CInv, Program
  PROVE  LET op == Head(flash)  i == progress + 1 IN
         /\ flash # <<>> /\ progress < op.size /\ progress' = i
         /\ i \in 1..op.size
         /\ \/ /\ statue = 0 /\ op.size = 1 /\ progress = 0 /\ op.at \in Area
               /\ \E cell \in Programmed(area[op.at], buffer) :
                    area' = [area EXCEPT ![op.at] = cell]
               /\ cache' = cache
            \/ /\ statue = 22 /\ op.size \in 0..PageBlocks
               /\ frame \in [1..op.size -> Block] /\ i \in Cache
               /\ \E new \in Cell : \E cell \in Programmed(cache[i], new) :
                    /\ StackHolds => new = frame[i]
                    /\ cache' = [cache EXCEPT ![i] = cell]
               /\ area' = area
            \/ /\ statue = 24 /\ op.size \in 0..PageBlocks
               /\ i \in Area /\ i \in Cache
               /\ \E cell \in Programmed(area[i], cache[i]) :
                    area' = [area EXCEPT ![i] = cell]
               /\ cache' = cache
  <1> DEFINE op == Head(flash)
             i == progress + 1
  <1>1. flash # <<>> /\ op.kind = "store" /\ progress < op.size /\ progress' = i
    BY DEF Program, Busy
  <1>2. Planned(op) /\ progress \in 0..op.size
    BY <1>1, AtFlash
  <1>3. /\ op.src = "buffer" => Content(op.src, i) = {buffer}
        /\ op.src = "cache" => Content(op.src, i) = {cache[i]}
        /\ op.src = "frame" =>
             Content(op.src, i) = IF StackHolds THEN {frame[i]} ELSE Block \cup {Blank}
    BY DEF Content
  <1>4. PICK new \in Content(op.src, i) :
          \E cell \in Programmed(Zone(op.zone)[op.at + progress], new) :
            /\ area' = IF op.zone = "area"
                       THEN [area EXCEPT ![op.at + progress] = cell] ELSE area
            /\ cache' = IF op.zone = "cache"
                        THEN [cache EXCEPT ![op.at + progress] = cell] ELSE cache
    BY DEF Program
  <1>5. CASE statue = 0
    <2>1. PICK b \in Area : op = Store("area", "buffer", b, 1)
      BY <1>2, <1>5 DEF Planned
    <2>2. op.size = 1 /\ op.at = b /\ op.src = "buffer" /\ op.zone = "area"
      BY <2>1, Fielded
    <2>3. progress = 0 /\ i = 1 /\ b + progress = b
      BY <1>1, <1>2, <2>2 DEF Area
    <2>4. new = buffer /\ Zone("area") = area
      BY <1>3, <2>2 DEF Zone
    <2>5. /\ \E cell \in Programmed(area[op.at], buffer) :
               area' = [area EXCEPT ![op.at] = cell]
          /\ cache' = cache
      BY <1>4, <2>2, <2>3, <2>4
    <2>6. i \in 1..op.size /\ op.at \in Area
      BY <2>2, <2>3
    <2> HIDE DEF op, i
    <2>7. QED
      BY <1>1, <1>5, <2>2, <2>3, <2>5, <2>6 DEF op, i
  <1>6. CASE statue = 22
    <2>1. PICK n \in 0..PageBlocks : /\ frame \in [1..n -> Block]
                                     /\ op = Store("cache", "frame", 1, n)
      BY <1>2, <1>6 DEF Planned
    <2>2. op.size = n /\ op.at = 1 /\ op.src = "frame" /\ op.zone = "cache"
      BY <2>1, Fielded
    <2>3. i \in 1..n /\ i \in Cache /\ op.at + progress = i
      BY <1>1, <1>2, <2>2, Fits DEF Cache
    <2>4. new \in Cell /\ (StackHolds => new = frame[i])
      BY <1>3, <2>1, <2>2, <2>3 DEF Cell
    <2>5. Zone("cache") = cache
      BY DEF Zone
    <2>6. QED
      BY <1>1, <1>4, <1>6, <2>1, <2>2, <2>3, <2>4, <2>5
  <1>7. CASE statue = 24
    <2>1. PICK n \in 0..PageBlocks : op = Store("area", "cache", 1, n)
      BY <1>2, <1>7 DEF Planned
    <2>2. op.size = n /\ op.at = 1 /\ op.src = "cache" /\ op.zone = "area"
      BY <2>1, Fielded
    <2>3. i \in 1..n /\ i \in Cache /\ i \in Area /\ op.at + progress = i
      BY <1>1, <1>2, <2>2, Fits DEF Cache, Area
    <2>4. new = cache[i] /\ Zone("area") = area
      BY <1>3, <2>2 DEF Zone
    <2>5. QED
      BY <1>1, <1>4, <1>7, <2>1, <2>2, <2>3, <2>4
  <1>8. statue \in {0, 22, 24}
    BY <1>1, <1>2, Fielded DEF Planned
  <1>9. QED
    BY <1>5, <1>6, <1>7, <1>8

Without(zone, page) ==
  [b \in DOMAIN zone |-> IF Page(b) = page THEN Blank ELSE zone[b]]

\* The two erases, of the cache and of the area.
LEMMA AtErase ==
  ASSUME CInv, Erase
  PROVE  LET op == Head(flash) IN
         /\ flash # <<>> /\ progress < op.size /\ progress' = progress + 1
         /\ progress \in Nat
         /\ \/ /\ statue = 21 /\ op.size = 1 /\ progress = 0
               /\ cache' = Without(cache, 0) /\ area' = area
            \/ /\ statue = 23 /\ op.size = AreaBlocks \div PageBlocks
               /\ area' = Without(area, progress) /\ cache' = cache
  <1> DEFINE op == Head(flash)
  <1>1. flash # <<>> /\ op.kind = "clear" /\ progress < op.size
        /\ progress' = progress + 1
    BY DEF Erase, Busy
  <1>2. Planned(op) /\ progress \in 0..op.size
    BY <1>1, AtFlash
  <1>3. IF op.zone = "area"
        THEN area' = Without(area, progress) /\ cache' = cache
        ELSE cache' = Without(cache, progress) /\ area' = area
    BY DEF Erase, Without
  <1>4. \/ statue = 21 /\ op = Clear("cache", 1)
        \/ statue = 23 /\ op = Clear("area", AreaBlocks \div PageBlocks)
    BY <1>1, <1>2, Fielded DEF Planned
  <1> HIDE DEF op
  <1>5. CASE statue = 21 /\ op = Clear("cache", 1)
    <2>1. op.size = 1 /\ op.zone = "cache"
      BY <1>5, Fielded
    <2>2. progress = 0
      BY <1>1, <1>2, <2>1
    <2>3. QED
      BY <1>1, <1>3, <1>5, <2>1, <2>2 DEF op
  <1>6. CASE statue = 23 /\ op = Clear("area", AreaBlocks \div PageBlocks)
    <2>1. op.size = AreaBlocks \div PageBlocks /\ op.zone = "area"
      BY <1>6, Fielded
    <2>2. progress \in Nat
      BY <1>2, <2>1, Fits
    <2>3. QED
      BY <1>1, <1>3, <1>6, <2>1, <2>2 DEF op
  <1>7. QED
    BY <1>4, <1>5, <1>6

\* The completions, one per operation planned: none is ignored.
LEMMA AtFlashDone ==
  ASSUME CInv, FlashDone
  PROVE  /\ flash # <<>> /\ progress' = 0
         /\ progress = Head(flash).size \/ FlashFails
         /\ UNCHANGED <<zones, buffer, past>>
         /\ \/ /\ statue = 0 /\ statue' = 0 /\ flash' = <<>> /\ frame' = frame
               /\ idle' = <<Todo("on_finish_ok", 0)>>
            \/ statue = 21 /\ CollectValid(<<>>) /\ idle' = <<>>
            \/ statue = 22 /\ ClearArea(<<>>) /\ idle' = <<>>
            \/ statue = 23 /\ WriteBack(<<>>) /\ idle' = <<>>
            \/ /\ statue = 24 /\ FindSpace(25, <<>>)
               /\ flash' = <<>> /\ frame' = frame
  <1> DEFINE kind == Head(flash).kind
  <1>1. /\ idle = <<>> /\ Tail(flash) = <<>> /\ Planned(Head(flash))
        /\ flash # <<>>
    BY AtFlash DEF FlashDone
  <1>2. <<kind, statue>> \in Expected
    BY <1>1, Fielded DEF Planned, Expected
  <1>3. Callback(kind, <<>>)
    BY <1>1, <1>2 DEF FlashDone
  <1>4. CASE kind = "store" /\ statue = 0
    BY <1>1, <1>3, <1>4, Singles DEF Callback, FlashDone
  <1>5. CASE kind = "clear" /\ statue = 21
    <2>1. CollectValid(<<>>)
      BY <1>3, <1>5 DEF Callback
    <2>2. idle' = <<>>
      BY <1>1, <2>1 DEF CollectValid
    <2>3. UNCHANGED buffer
      BY <2>1 DEF CollectValid
    <2>4. QED
      BY <1>1, <1>5, <2>1, <2>2, <2>3 DEF FlashDone
  <1>6. CASE kind = "store" /\ statue = 22
    BY <1>1, <1>3, <1>6 DEF Callback, ClearArea, FlashDone
  <1>7. CASE kind = "clear" /\ statue = 23
    <2>1. WriteBack(<<>>)
      BY <1>3, <1>7 DEF Callback
    <2>2. idle' = <<>> /\ UNCHANGED buffer
      BY <1>1, <2>1 DEF WriteBack
    <2>3. QED
      BY <1>1, <1>7, <2>1, <2>2 DEF FlashDone
  <1>8. CASE kind = "store" /\ statue = 24
    <2>1. FindSpace(25, <<>>) /\ flash' = <<>> /\ UNCHANGED <<buffer, frame>>
      BY <1>1, <1>3, <1>8 DEF Callback
    <2>2. QED
      BY <1>1, <1>8, <2>1 DEF FlashDone
  <1>9. \/ kind = "store" /\ statue \in {0, 22, 24}
        \/ kind = "clear" /\ statue \in {21, 23}
    BY <1>2 DEF Expected
  <1>10. QED
    BY <1>4, <1>5, <1>6, <1>7, <1>8, <1>9

-----------------------------------------------------------------------------
\* The chain of steps is inductive.

LEMMA ProgrammedType ==
  ASSUME NEW old \in Cell, NEW new \in Cell, NEW cell \in Programmed(old, new)
  PROVE  cell \in Cell
  <1>1. CASE old = Blank
    BY <1>1 DEF Programmed
  <1>2. CASE old # Blank
    <2>1. old \in Block
      BY <1>2 DEF Cell
    <2>2. CASE new \in {old, Blank}
      BY <1>2, <2>2 DEF Programmed
    <2>3. CASE new \notin {old, Blank}
      <3>1. PICK i \in IF old.id = new.id THEN {old.id} ELSE Id :
              cell = [id |-> i, value |-> Garbled]
        BY <1>2, <2>3 DEF Programmed
      <3>2. i \in Id
        BY <2>1, <3>1 DEF Block
      <3>3. QED
        BY <3>1, <3>2 DEF Cell, Block
    <2>4. QED
      BY <2>2, <2>3
  <1>3. QED
    BY <1>1, <1>2

LEMMA InitChain == Init => CInv
  <1> SUFFICES ASSUME Init PROVE CInv
    OBVIOUS
  <1>1. Resting
    BY DEF Init, Resting
  <1>2. Fields
    BY DEF Init, Fields, Cell
  <1>3. QED
    BY <1>1, <1>2 DEF CInv, Chain

LEMMA WriteChain ==
  ASSUME CInv, ~Overlap, NEW id \in Id, NEW v \in Value, Write(id, v)
  PROVE  CInv'
  <1>1. /\ Resting
        /\ writing' = <<buffer'>> /\ buffer' = [id |-> id, value |-> v]
        /\ idle' = <<Todo("find_space", 0)>> /\ statue' = 1
    BY AtWrite
  <1>2. Head(idle)' = Todo("find_space", 0) /\ idle' # <<>>
    BY <1>1, Singles
  <1>3. Waiting'
    BY <1>1, <1>2 DEF Waiting, Registered, Resting, Write, queue
  <1>4. buffer' \in [id : Id, value : Value]
    BY <1>1
  <1>5. Fields'
    BY <1>1, <1>4 DEF CInv, Fields, Cell, Block, Write, zones
  <1>6. QED
    BY <1>1, <1>3, <1>4, <1>5 DEF CInv, Chain

\* A step that leaves one operation registered, or one at the flash.
LEMMA NowWaiting ==
  ASSUME NEW t, idle' = <<t>>, Registered(t)', flash' = <<>>, progress' = 0
  PROVE  Waiting'
BY Singles DEF Waiting

LEMMA NowWorking ==
  ASSUME NEW op, flash' = <<op>>, Planned(op)', idle' = <<>>,
         progress' = 0, op.size \in Nat
  PROVE  Working'
BY Singles DEF Working

LEMMA IdleChain ==
  ASSUME CInv, DispatchIdle
  PROVE  CInv'
  <1>1. CASE StartFindSpace
    <2>1. /\ flash' = <<>> /\ progress' = 0 /\ writing' = <<buffer'>>
          /\ buffer' \in [id : Id, value : Value]
      BY <1>1, AtIdle DEF StartFindSpace, queue, past
    <2>2. Waiting'
      <3>1. CASE statue' = 1 /\ idle' = <<Todo("clear_cache", 0)>>
        <4>1. Registered(Todo("clear_cache", 0))'
          BY <3>1 DEF Registered
        <4>2. QED
          BY <2>1, <3>1, <4>1, NowWaiting
      <3>2. ASSUME NEW b \in Area, statue' = 0, idle' = <<Todo("write_to_flash", b)>>
            PROVE  Waiting'
        <4>1. Registered(Todo("write_to_flash", b))'
          BY <3>2 DEF Registered
        <4>2. QED
          BY <2>1, <3>2, <4>1, NowWaiting
      <3>3. QED
        BY <1>1, <3>1, <3>2, AtFindSpace
    <2>3. Fields'
      BY <1>1, AtFindSpace DEF CInv, Fields, StartFindSpace, zones, past
    <2>4. QED
      BY <2>1, <2>2, <2>3 DEF CInv, Chain
  <1>2. CASE WriteToFlash
    <2>1. /\ progress' = 0 /\ writing' = <<buffer'>>
          /\ buffer' \in [id : Id, value : Value]
      BY <1>2, AtIdle DEF WriteToFlash, past
    <2>2. PICK b \in Area : /\ flash' = <<Store("area", "buffer", b, 1)>>
                            /\ idle' = <<>> /\ statue' = 0
      BY <1>2, AtWriteToFlash
    <2>3. Planned(Store("area", "buffer", b, 1))'
      BY <2>2 DEF Planned
    <2>4. Working'
      BY <2>1, <2>2, <2>3, Fielded, NowWorking
    <2>5. Fields'
      BY <1>2, <2>2 DEF CInv, Fields, WriteToFlash, zones, past
    <2>6. QED
      BY <2>1, <2>4, <2>5 DEF CInv, Chain
  <1>3. CASE ClearCache
    <2>1. /\ progress' = 0 /\ writing' = <<buffer'>>
          /\ buffer' \in [id : Id, value : Value]
      BY <1>3, AtIdle DEF ClearCache, past
    <2>2. flash' = <<Clear("cache", 1)>> /\ idle' = <<>> /\ statue' = 21
      BY <1>3, AtClearCache
    <2>3. Planned(Clear("cache", 1))'
      BY <2>2 DEF Planned
    <2>4. Working'
      BY <2>1, <2>2, <2>3, Fielded, NowWorking
    <2>5. Fields'
      BY <1>3, <2>2 DEF CInv, Fields, ClearCache, zones, past
    <2>6. QED
      BY <2>1, <2>4, <2>5 DEF CInv, Chain
  <1>4. CASE OnFinishOk
    <2>1. Resting'
      BY <1>4, AtFinish DEF OnFinishOk, Resting, queue
    <2>2. buffer.id \in Id /\ buffer.value \in Value
      BY <1>4, AtFinish
    <2>3. saved' \in [Id -> Value \cup {None}]
      BY <1>4, <2>2, AtFinish DEF CInv, Fields
    <2>4. Fields'
      BY <1>4, <2>3 DEF CInv, Fields, OnFinishOk, zones
    <2>5. QED
      BY <2>1, <2>4 DEF CInv, Chain
  <1>5. QED
    BY <1>1, <1>2, <1>3, <1>4 DEF DispatchIdle

-----------------------------------------------------------------------------
\* Reading a zone.

\* A block that holds an id and is above the others that do is the newest.
LEMMA NewestIs ==
  ASSUME NEW zone, NEW n \in Nat, DOMAIN zone = 1..n, NEW id,
         NEW b \in 1..n, zone[b].id = id,
         \A c \in 1..n : zone[c].id = id => c <= b
  PROVE  Newest(zone, id) = b
  <1> DEFINE P(x) == zone[x].id = id /\ \A c \in DOMAIN zone : zone[c].id = id => c <= x
  <1>1. P(b)
    OBVIOUS
  <1>2. \A x \in 1..n : P(x) => x = b
    OBVIOUS
  <1> HIDE DEF P
  <1>3. (CHOOSE x \in DOMAIN zone : P(x)) = b
    BY <1>1, <1>2
  <1>4. QED
    BY <1>3 DEF Newest, P

LEMMA NewestOf ==
  ASSUME NEW zone, NEW n \in Nat, DOMAIN zone = 1..n, NEW id, Holds(zone, id)
  PROVE  /\ Newest(zone, id) \in 1..n
         /\ zone[Newest(zone, id)].id = id
         /\ \A c \in 1..n : zone[c].id = id => c <= Newest(zone, id)
  <1> DEFINE Gap == {n - b : b \in {c \in 1..n : zone[c].id = id}}
  <1>1. Gap \subseteq Nat /\ Gap # {}
    BY DEF Holds
  <1>2. PICK g \in Gap : \A h \in Gap : <<h, g>> \notin OpToRel(<, Nat)
    BY <1>1, NatLessThanWellFounded, WFMin
  <1>3. \A h \in Gap : ~(h < g)
    BY <1>1, <1>2 DEF OpToRel
  <1>4. PICK b \in 1..n : zone[b].id = id /\ g = n - b
    BY <1>2
  <1>5. ASSUME NEW c \in 1..n, zone[c].id = id PROVE c <= b
    <2>1. ~(n - c < g)
      BY <1>3, <1>5
    <2>2. b \in Int /\ c \in Int /\ g = n - b
      BY <1>4, <1>5
    <2> HIDE DEF Gap
    <2>3. QED
      BY <2>1, <2>2
  <1>6. Newest(zone, id) = b
    BY <1>4, <1>5, NewestIs
  <1>7. QED
    BY <1>4, <1>5, <1>6

\* An id of the warehouse is never the id of an erased block.
LEMMA CellId ==
  ASSUME NEW cell \in Cell
  PROVE  /\ cell # Blank <=> cell \in Block
         /\ cell.id # None <=> cell \in Block
         /\ cell.id \in Id <=> cell \in Block
         /\ cell.id = None <=> cell = Blank
  <1>1. Blank.id = None /\ None \notin Id
    BY LayoutAssumption DEF Blank
  <1>2. cell \in Block => cell.id \in Id
    BY DEF Block
  <1>3. QED
    BY <1>1, <1>2 DEF Cell

\* The order in which settle_data_flash_clear_cache_ok collects the ids meets
\* each id that has a block once, and the cache has room for all.
LEMMA Order ==
  ASSUME NEW ids \in SUBSET Id, NEW order \in [1..Cardinality(ids) -> ids],
         \A i, j \in DOMAIN order : i < j => order[i] < order[j]
  PROVE  /\ Cardinality(ids) \in 0..PageBlocks
         /\ \A i, j \in DOMAIN order : order[i] = order[j] => i = j
         /\ \A id \in ids : \E i \in DOMAIN order : order[i] = id
  <1> DEFINE n == Cardinality(ids)
  <1>1. IsFiniteSet(ids) /\ n \in Nat /\ n <= Cardinality(Id)
    BY LayoutAssumption, FS_Subset, FS_CardinalityType
  <1>2. Cardinality(Id) \in Nat /\ n <= PageBlocks
    BY <1>1, LayoutAssumption, FS_CardinalityType
  <1>3. ASSUME NEW i \in 1..n, NEW j \in 1..n, order[i] = order[j] PROVE i = j
    <2>1. order[i] \in Nat /\ order[j] \in Nat
      BY LayoutAssumption
    <2>2. ~(i < j) /\ ~(j < i)
      BY <1>3, <2>1
    <2>3. QED
      BY <1>1, <2>2
  <1>4. order \in Injection(1..n, ids)
    BY <1>3 DEF Injection, IsInjective
  <1>5. Cardinality(1..n) = n
    BY <1>1, FS_Interval
  <1>6. order \in Surjection(1..n, ids)
    BY <1>1, <1>4, <1>5, FS_Injection
  <1>7. \A id \in ids : \E i \in 1..n : order[i] = id
    BY <1>6 DEF Surjection
  <1>8. QED
    BY <1>1, <1>2, <1>3, <1>7

LEMMA CollectValidFrame ==
  ASSUME CInv, CollectValid(<<>>)
  PROVE  \E n \in 0..PageBlocks :
           /\ frame' \in [1..n -> Block] /\ Distinct(frame', n)
           /\ flash' = <<Store("cache", "frame", 1, n)>> /\ statue' = 22
           /\ \A i \in 1..n : /\ Holds(area, frame'[i].id)
                              /\ frame'[i] = area[Newest(area, frame'[i].id)]
           /\ \A id \in Id : Holds(area, id) => \E i \in 1..n : frame'[i].id = id
  <1> DEFINE ids == {id \in Id : Holds(area, id)}
             n == Cardinality(ids)
  <1>1. PICK order \in [1..n -> ids] :
          /\ \A i, j \in DOMAIN order : i < j => order[i] < order[j]
          /\ frame' = [i \in DOMAIN order |-> area[Newest(area, order[i])]]
          /\ statue' = 22
          /\ flash' = Append(<<>>, Store("cache", "frame", 1, n))
    BY DEF CollectValid
  <1>2. /\ n \in 0..PageBlocks
        /\ \A i, j \in 1..n : order[i] = order[j] => i = j
        /\ \A id \in ids : \E i \in 1..n : order[i] = id
    BY <1>1, Order
  <1>3. DOMAIN area = 1..AreaBlocks /\ AreaBlocks \in Nat
    BY Fits DEF CInv, Fields, Area
  <1>4. ASSUME NEW i \in 1..n
        PROVE  /\ frame'[i] = area[Newest(area, order[i])]
               /\ frame'[i].id = order[i]
               /\ frame'[i] \in Block
               /\ Holds(area, order[i])
    <2>1. order[i] \in ids /\ Holds(area, order[i]) /\ order[i] \in Id
      OBVIOUS
    <2>2. frame'[i] = area[Newest(area, order[i])]
      BY <1>1
    <2>3. Newest(area, order[i]) \in Area /\ frame'[i].id = order[i]
      BY <1>3, <2>1, <2>2, NewestOf DEF Area
    <2>4. frame'[i] \in Cell
      BY <2>2, <2>3 DEF CInv, Fields
    <2>5. frame'[i] \in Block
      BY <2>1, <2>3, <2>4, CellId
    <2>6. QED
      BY <2>1, <2>2, <2>3, <2>5
  <1>5. frame' \in [1..n -> Block]
    BY <1>1, <1>4
  <1>6. Distinct(frame', n)
    BY <1>2, <1>4 DEF Distinct
  <1>7. \A id \in Id : Holds(area, id) => \E i \in 1..n : frame'[i].id = id
    BY <1>2, <1>4
  <1>8. flash' = <<Store("cache", "frame", 1, n)>>
    BY <1>1, Singles
  <1>9. \A i \in 1..n : /\ Holds(area, frame'[i].id)
                        /\ frame'[i] = area[Newest(area, frame'[i].id)]
    BY <1>4
  <1>10. n \in 0..PageBlocks /\ statue' = 22
    BY <1>1, <1>2
  <1> HIDE DEF n
  <1>11. QED
    BY <1>5, <1>6, <1>7, <1>8, <1>9, <1>10

-----------------------------------------------------------------------------
\* The chain of steps at the flash.

\* While the flash works at an operation only its progress changes.
LEMMA StillWorking ==
  ASSUME CInv, flash # <<>>, progress < Head(flash).size, progress' = progress + 1,
         UNCHANGED <<ram, flash, past>>,
         area' \in [Area -> Cell], cache' \in [Cache -> Cell]
  PROVE  CInv'
  <1>1. /\ writing = <<buffer>> /\ buffer \in [id : Id, value : Value]
        /\ idle = <<>> /\ flash = <<Head(flash)>>
        /\ Planned(Head(flash)) /\ progress \in 0..Head(flash).size
    BY AtFlash
  <1>2. /\ flash' = flash /\ idle' = idle /\ statue' = statue /\ buffer' = buffer
        /\ frame' = frame /\ writing' = writing
    BY DEF ram, past
  <1>3. Head(flash).size \in Nat
    BY <1>1, Fielded, Fits DEF Planned
  <1>4. progress' \in 0..Head(flash).size
    BY <1>1, <1>3
  <1>5. Planned(Head(flash))'
    BY <1>1, <1>2 DEF Planned
  <1>6. Working'
    BY <1>1, <1>2, <1>4, <1>5 DEF Working
  <1>7. Fields'
    BY DEF CInv, Fields, ram, past
  <1>8. QED
    BY <1>1, <1>2, <1>6, <1>7 DEF CInv, Chain

LEMMA FlashChain ==
  ASSUME CInv, Flash
  PROVE  CInv'
  <1>0. area \in [Area -> Cell] /\ cache \in [Cache -> Cell] /\ buffer \in Cell
    BY DEF CInv, Fields
  <1>1. CASE Program
    <2>1. flash # <<>> /\ progress < Head(flash).size /\ progress' = progress + 1
      BY <1>1, AtProgram
    <2>2. area' \in [Area -> Cell] /\ cache' \in [Cache -> Cell]
      <3>1. CASE statue = 0
        <4>1. PICK cell \in Programmed(area[Head(flash).at], buffer) :
                area' = [area EXCEPT ![Head(flash).at] = cell]
          BY <1>1, <3>1, AtProgram
        <4>2. Head(flash).at \in Area /\ cache' = cache
          BY <1>1, <3>1, AtProgram
        <4>3. cell \in Cell
          BY <1>0, <4>1, <4>2, ProgrammedType
        <4>4. QED
          BY <1>0, <4>1, <4>2, <4>3
      <3>2. CASE statue = 22
        <4>1. area' = area /\ progress + 1 \in Cache
          BY <1>1, <3>2, AtProgram
        <4>2. PICK new \in Cell : \E cell \in Programmed(cache[progress + 1], new) :
                cache' = [cache EXCEPT ![progress + 1] = cell]
          BY <1>1, <3>2, AtProgram
        <4>3. PICK cell \in Programmed(cache[progress + 1], new) :
                cache' = [cache EXCEPT ![progress + 1] = cell]
          BY <4>2
        <4>4. cell \in Cell
          BY <1>0, <4>1, <4>2, <4>3, ProgrammedType
        <4>5. QED
          BY <1>0, <4>1, <4>3, <4>4
      <3>3. CASE statue = 24
        <4>1. PICK cell \in Programmed(area[progress + 1], cache[progress + 1]) :
                area' = [area EXCEPT ![progress + 1] = cell]
          BY <1>1, <3>3, AtProgram
        <4>2. progress + 1 \in Area /\ progress + 1 \in Cache /\ cache' = cache
          BY <1>1, <3>3, AtProgram
        <4>3. cell \in Cell
          BY <1>0, <4>1, <4>2, ProgrammedType
        <4>4. QED
          BY <1>0, <4>1, <4>2, <4>3
      <3>4. QED
        BY <1>1, <3>1, <3>2, <3>3, AtProgram
    <2>3. UNCHANGED <<ram, flash, past>>
      BY <1>1 DEF Program
    <2>4. QED
      BY <2>1, <2>2, <2>3, StillWorking
  <1>2. CASE Erase
    <2>1. flash # <<>> /\ progress < Head(flash).size /\ progress' = progress + 1
      BY <1>2, AtErase
    <2>2. area' \in {area, Without(area, progress)}
          /\ cache' \in {cache, Without(cache, 0)}
      BY <1>2, AtErase
    <2>3. area' \in [Area -> Cell] /\ cache' \in [Cache -> Cell]
      BY <1>0, <2>2 DEF Without, Cell
    <2>4. UNCHANGED <<ram, flash, past>>
      BY <1>2 DEF Erase
    <2>5. QED
      BY <2>1, <2>3, <2>4, StillWorking
  <1>3. CASE FlashDone
    <2>1. /\ progress' = 0 /\ writing' = <<buffer'>>
          /\ buffer' \in [id : Id, value : Value]
      BY <1>3, AtFlashDone, AtFlash DEF past
    <2>2. /\ area' = area /\ cache' = cache /\ buffer' = buffer
          /\ saved' = saved /\ outages' = outages
      BY <1>3, AtFlashDone DEF zones, past
    <2>3. CASE statue' = 0 /\ flash' = <<>> /\ frame' = frame
               /\ idle' = <<Todo("on_finish_ok", 0)>>
      <3>1. Registered(Todo("on_finish_ok", 0))'
        BY <2>3 DEF Registered
      <3>2. Waiting'
        BY <2>1, <2>3, <3>1, NowWaiting
      <3>3. Fields'
        BY <2>2, <2>3 DEF CInv, Fields
      <3>4. QED
        BY <2>1, <3>2, <3>3 DEF CInv, Chain
    <2>4. CASE CollectValid(<<>>) /\ idle' = <<>>
      <3>1. PICK n \in 0..PageBlocks :
              /\ frame' \in [1..n -> Block] /\ statue' = 22
              /\ flash' = <<Store("cache", "frame", 1, n)>>
        BY <2>4, CollectValidFrame
      <3>2. Planned(Store("cache", "frame", 1, n))'
        BY <3>1 DEF Planned
      <3>3. Working'
        BY <2>1, <2>4, <3>1, <3>2, Fielded, NowWorking
      <3>4. Fields'
        BY <2>2, <3>1 DEF CInv, Fields
      <3>5. QED
        BY <2>1, <3>3, <3>4 DEF CInv, Chain
    <2>5. CASE ClearArea(<<>>) /\ idle' = <<>>
      <3>1. /\ statue' = 23 /\ frame' = <<>>
            /\ flash' = <<Clear("area", AreaBlocks \div PageBlocks)>>
        BY <2>5, Singles DEF ClearArea
      <3>2. Planned(Clear("area", AreaBlocks \div PageBlocks))'
        BY <3>1 DEF Planned
      <3>3. Working'
        BY <2>1, <2>5, <3>1, <3>2, Fielded, Fits, NowWorking
      <3>4. Fields'
        BY <2>2, <3>1, Singles DEF CInv, Fields
      <3>5. QED
        BY <2>1, <3>3, <3>4 DEF CInv, Chain
    <2>6. CASE WriteBack(<<>>) /\ idle' = <<>>
      <3>1. PICK n \in 0..PageBlocks : /\ statue' = 24 /\ frame' = frame
                                       /\ flash' = <<Store("area", "cache", 1, n)>>
        BY <2>6, Singles DEF WriteBack
      <3>2. Planned(Store("area", "cache", 1, n))'
        BY <3>1 DEF Planned
      <3>3. Working'
        BY <2>1, <2>6, <3>1, <3>2, Fielded, NowWorking
      <3>4. Fields'
        BY <2>2, <3>1 DEF CInv, Fields
      <3>5. QED
        BY <2>1, <3>3, <3>4 DEF CInv, Chain
    <2>7. CASE FindSpace(25, <<>>) /\ flash' = <<>> /\ frame' = frame
      <3>1. Waiting' /\ statue' \in {0, 25}
        <4>1. CASE statue' = 25 /\ idle' = <<Todo("clear_cache", 0)>>
          <5>1. Registered(Todo("clear_cache", 0))'
            BY <4>1 DEF Registered
          <5>2. QED
            BY <2>1, <2>7, <4>1, <5>1, NowWaiting
        <4>2. ASSUME NEW b \in Area, statue' = 0, idle' = <<Todo("write_to_flash", b)>>
              PROVE  Waiting' /\ statue' \in {0, 25}
          <5>1. Registered(Todo("write_to_flash", b))'
            BY <4>2 DEF Registered
          <5>2. QED
            BY <2>1, <2>7, <4>2, <5>1, NowWaiting
        <4>3. QED
          BY <2>7, <4>1, <4>2, Singles DEF FindSpace
      <3>2. Fields'
        BY <2>2, <2>7, <3>1 DEF CInv, Fields
      <3>3. QED
        BY <2>1, <3>1, <3>2 DEF CInv, Chain
    <2>8. QED
      BY <1>3, <2>3, <2>4, <2>5, <2>6, <2>7, AtFlashDone
  <1>4. QED
    BY <1>1, <1>2, <1>3 DEF Flash

\* A read of a value that was being written is a value.
LEMMA PowerLossChain ==
  ASSUME CInv, PowerLoss
  PROVE  CInv'
  <1>1. \A i \in DOMAIN writing : writing[i] = buffer /\ buffer.value \in Value
    BY Singles DEF CInv, Chain, Resting
  <1>2. \A id \in Id : (\E i \in DOMAIN writing : writing[i] = [id |-> id, value |-> Read(id)])
                          => Read(id) \in Value
    BY <1>1
  <1>3. saved' \in [Id -> Value \cup {None}]
    BY <1>2 DEF PowerLoss, CInv, Fields
  <1>4. outages' \in {0, 1}
    BY DEF PowerLoss, CInv, Fields
  <1>5. Fields'
    BY <1>3, <1>4, Singles DEF CInv, Fields, PowerLoss, zones, Cell
  <1>6. Resting'
    BY DEF PowerLoss, Resting
  <1>7. QED
    BY <1>5, <1>6 DEF CInv, Chain

LEMMA StepChain == ~Overlap /\ CInv /\ [Next]_vars => CInv'
  <1> SUFFICES ASSUME ~Overlap, CInv, [Next]_vars PROVE CInv'
    OBVIOUS
  <1>1. CASE UNCHANGED vars
    BY <1>1 DEF vars, zones, ram, queue, past, CInv, Fields, Chain, Resting,
                Waiting, Working, Registered, Planned
  <1>2. QED
    BY <1>1, WriteChain, IdleChain, FlashChain, PowerLossChain DEF Next

LEMMA ChainKept == ~Overlap => (Spec => []CInv)
  <1> SUFFICES ASSUME ~Overlap PROVE Spec => []CInv
    OBVIOUS
  <1>1. CInv /\ [Next]_vars => CInv'
    BY StepChain
  <1>2. QED
    BY <1>1, InitChain, PTL DEF Spec

LEMMA ChainTyped == CInv => TypeOK
  <1> SUFFICES ASSUME CInv PROVE TypeOK
    OBVIOUS
  <1>1. /\ area \in [Area -> Block \cup {Blank}] /\ cache \in [Cache -> Block \cup {Blank}]
        /\ statue \in {0, 1} \cup 21..25 /\ buffer \in Block \cup {Blank}
        /\ \A i \in DOMAIN frame : frame[i] \in Block
        /\ saved \in [Id -> Value \cup {None}] /\ outages \in {0, 1}
    BY DEF CInv, Fields, Cell
  <1>2. \A i \in DOMAIN idle :
          \/ idle[i].func \in {"find_space", "clear_cache", "on_finish_ok"}
          \/ idle[i].func = "write_to_flash" /\ idle[i].at \in Area
    <2>1. CASE idle = <<>>
      BY <2>1
    <2>2. CASE Waiting
      <3>1. DOMAIN idle = {1} /\ idle[1] = Head(idle)
        BY <2>2, Singles DEF Waiting
      <3>2. QED
        BY <2>2, <3>1, Fielded DEF Waiting, Registered
    <2>3. QED
      BY <2>1, <2>2 DEF CInv, Chain, Resting, Working
  <1>3. CASE flash = <<>>
    <2>1. progress \in 0..AreaBlocks
      BY <1>3, Fits DEF CInv, Chain, Resting, Waiting, Working
    <2>2. \A i \in DOMAIN writing : writing[i] \in Block
      BY Singles DEF CInv, Chain, Resting, Block
    <2>3. QED
      BY <1>1, <1>2, <1>3, <2>1, <2>2, Singles DEF TypeOK
  <1>4. CASE flash # <<>>
    <2>1. /\ writing = <<buffer>> /\ buffer \in [id : Id, value : Value]
          /\ flash = <<Head(flash)>> /\ Planned(Head(flash))
          /\ progress \in 0..Head(flash).size
      BY <1>4, AtFlash
    <2>2. DOMAIN flash = {1} /\ flash[1] = Head(flash)
      BY <2>1, Singles
    <2> DEFINE op == Head(flash)
    <2>3. /\ op.size \in 0..AreaBlocks
          /\ op.size = 0 \/ IF op.kind = "clear" THEN op.size * PageBlocks <= AreaBlocks
                            ELSE op.at + op.size - 1 \in DOMAIN Zone(op.zone)
      <3>1. DOMAIN Zone("area") = 1..AreaBlocks /\ DOMAIN Zone("cache") = 1..PageBlocks
        BY <1>1 DEF Zone, Area, Cache
      <3>2. ASSUME NEW b \in Area, op = Store("area", "buffer", b, 1)
            PROVE  op.size = 1 /\ op.kind = "store" /\ op.at + op.size - 1 \in DOMAIN Zone(op.zone)
        <4>1. op.size = 1 /\ op.kind = "store" /\ op.at = b /\ op.zone = "area"
          BY <3>2, Fielded
        <4>2. op.at + op.size - 1 = b
          BY <4>1, Fits DEF Area
        <4>3. QED
          BY <3>1, <4>1, <4>2 DEF Area
      <3>3. ASSUME NEW n \in 0..PageBlocks, op = Store("cache", "frame", 1, n)
            PROVE  /\ op.size \in 0..PageBlocks /\ op.kind = "store"
                   /\ op.size = 0 \/ op.at + op.size - 1 \in DOMAIN Zone(op.zone)
        <4>1. op.size = n /\ op.kind = "store" /\ op.at = 1 /\ op.zone = "cache"
          BY <3>3, Fielded
        <4>2. n \in 0..PageBlocks /\ op.at + op.size - 1 = n
          BY <4>1, Fits
        <4>3. QED
          BY <3>1, <4>1, <4>2, Fits
      <3>4. ASSUME NEW n \in 0..PageBlocks, op = Store("area", "cache", 1, n)
            PROVE  /\ op.size \in 0..PageBlocks /\ op.kind = "store"
                   /\ op.size = 0 \/ op.at + op.size - 1 \in DOMAIN Zone(op.zone)
        <4>1. op.size = n /\ op.kind = "store" /\ op.at = 1 /\ op.zone = "area"
          BY <3>4, Fielded
        <4>2. n \in 0..PageBlocks /\ op.at + op.size - 1 = n
          BY <4>1, Fits
        <4>3. QED
          BY <3>1, <4>1, <4>2, Fits
      <3>5. ASSUME op = Clear("cache", 1)
            PROVE  op.size = 1 /\ op.kind = "clear" /\ op.size * PageBlocks <= AreaBlocks
        BY <3>5, Fielded, Fits
      <3>6. ASSUME op = Clear("area", AreaBlocks \div PageBlocks)
            PROVE  /\ op.size \in 0..AreaBlocks /\ op.kind = "clear"
                   /\ op.size * PageBlocks <= AreaBlocks
        BY <3>6, Fielded, Fits
      <3> HIDE DEF op
      <3>7. QED
        BY <2>1, <3>2, <3>3, <3>4, <3>5, <3>6, Fits DEF Planned, op
    <2>4. progress \in 0..AreaBlocks
      BY <2>1, <2>3, Fits
    <2>5. \A i \in DOMAIN writing : writing[i] \in Block
      BY <2>1, Singles DEF Block
    <2>6. QED
      BY <1>1, <1>2, <2>2, <2>3, <2>4, <2>5 DEF TypeOK
  <1>5. QED
    BY <1>3, <1>4

LEMMA ChainOneStep == CInv => OneStep
  <1> SUFFICES ASSUME CInv PROVE OneStep
    OBVIOUS
  <1>1. CASE Resting
    BY <1>1, Singles DEF Resting, OneStep
  <1>2. CASE writing = <<buffer>> /\ Waiting
    <2>1. Len(idle) = 1 /\ Len(flash) = 0 /\ Len(writing) = 1 /\ flash = <<>>
      BY <1>2, Singles DEF Waiting
    <2>2. QED
      BY <2>1 DEF OneStep
  <1>3. CASE writing = <<buffer>> /\ Working
    <2>1. Len(idle) = 0 /\ Len(flash) = 1 /\ Len(writing) = 1
      BY <1>3, Singles DEF Working
    <2>2. <<Head(flash).kind, statue>> \in Expected
      BY <1>3, Fielded DEF Working, Planned, Expected
    <2>3. QED
      BY <2>1, <2>2 DEF OneStep
  <1>4. QED
    BY <1>1, <1>2, <1>3 DEF CInv, Chain

\* A caller that waits for data_storage_on_finish before it writes again keeps
\* every store and erase of the warehouse inside its zones, however the flash
\* fails and wherever the power does.
THEOREM TypeCorrect == ~Overlap => (Spec => []TypeOK)
  <1> SUFFICES ASSUME ~Overlap PROVE Spec => []TypeOK
    OBVIOUS
  <1>1. QED
    BY ChainKept, ChainTyped, PTL

\* With such a caller the chain of steps is never forked or broken, and
\* data_storage_callback always tells the end of one step from another's.
THEOREM OneAtATime == ~Overlap => (Spec => []OneStep)
  <1> SUFFICES ASSUME ~Overlap PROVE Spec => []OneStep
    OBVIOUS
  <1>1. QED
    BY ChainKept, ChainOneStep, PTL

-----------------------------------------------------------------------------
\* The flash is erased ahead of what is programmed.

\* With one operation at the flash, what ProgramsErased says of it.
ToProgram == (Head(flash).at + progress)..(Head(flash).at + Head(flash).size - 1)
HeadErased ==
  flash # <<>> /\ Head(flash).kind = "store" =>
    \A b \in ToProgram : ~Used(Zone(Head(flash).zone), b)

LEMMA OneErased == CInv => (ProgramsErased <=> HeadErased)
  <1> SUFFICES ASSUME CInv PROVE ProgramsErased <=> HeadErased
    OBVIOUS
  <1>1. CASE flash = <<>>
    BY <1>1, Singles DEF ProgramsErased, HeadErased
  <1>2. CASE flash # <<>>
    <2>1. flash = <<Head(flash)>>
      BY <1>2, AtFlash
    <2>2. DOMAIN flash = {1} /\ flash[1] = Head(flash)
      BY <2>1, Singles
    <2>3. QED
      BY <1>2, <2>2 DEF ProgramsErased, HeadErased, ToProgram
  <1>3. QED
    BY <1>1, <1>2

LEMMA OneErasedNext == CInv' => (ProgramsErased' <=> HeadErased')
  BY OneErased, PTL

\* A step that leaves nothing at the flash, or an erase that has not begun.
LEMMA NoneAhead ==
  ASSUME CInv', flash' = <<>>,
         idle' # <<>> /\ Head(idle').func = "write_to_flash" =>
           ~Used(area', Head(idle').at)
  PROVE  Ahead'
  <1>1. HeadErased'
    BY DEF HeadErased
  <1>2. QED
    BY <1>1, OneErasedNext DEF Ahead

LEMMA EraseAhead ==
  ASSUME CInv', NEW z, NEW n, flash' = <<Clear(z, n)>>, progress' = 0, idle' = <<>>
  PROVE  Ahead'
  <1>1. Head(flash') = Clear(z, n)
    BY Singles
  <1>2. HeadErased'
    BY <1>1, Fielded DEF HeadErased
  <1>3. \A b \in Area : ~(Page(b) < progress')
    BY Pages
  <1>4. QED
    BY <1>2, <1>3, OneErasedNext DEF Ahead

LEMMA StoreAhead ==
  ASSUME CInv', NEW z, NEW src, NEW at \in Nat, NEW n \in Nat, NEW zone,
         statue' \notin {21, 23},
         flash' = <<Store(z, src, at, n)>>, idle' = <<>>, progress' \in Nat,
         Zone(z)' = zone, \A b \in (at + progress')..(at + n - 1) : ~Used(zone, b)
  PROVE  Ahead'
  <1>1. Head(flash') = Store(z, src, at, n)
    BY Singles
  <1>2. /\ Head(flash').zone = z /\ Head(flash').at = at /\ Head(flash').size = n
    BY <1>1, Fielded
  <1>3. (IF Head(flash').zone = "area" THEN area' ELSE cache') = zone
    BY <1>2 DEF Zone
  <1>4. HeadErased'
    BY <1>2, <1>3 DEF HeadErased, ToProgram, Zone
  <1>5. QED
    BY <1>4, OneErasedNext DEF Ahead

LEMMA InitAhead == Init => Ahead
  <1> SUFFICES ASSUME Init PROVE Ahead
    OBVIOUS
  <1>1. QED
    BY Singles DEF Init, Ahead, ProgramsErased

LEMMA IdleAhead ==
  ASSUME CInv, CInv', Ahead, DispatchIdle
  PROVE  Ahead'
  <1>1. CASE StartFindSpace
    <2>1. flash' = <<>> /\ area' = area
      BY <1>1, AtIdle DEF StartFindSpace, queue, zones
    <2>2. CASE idle' = <<Todo("clear_cache", 0)>>
      <3>1. Head(idle').func = "clear_cache"
        BY <2>2, Singles, Fielded
      <3>2. QED
        BY <2>1, <3>1, NoneAhead
    <2>3. ASSUME NEW b \in Area, IsFirstFree(b), idle' = <<Todo("write_to_flash", b)>>
          PROVE  Ahead'
      <3>1. Head(idle').at = b
        BY <2>3, Singles, Fielded
      <3>2. ~Used(area', Head(idle').at)
        BY <2>1, <2>3, <3>1 DEF IsFirstFree, Used
      <3>3. QED
        BY <2>1, <3>2, NoneAhead
    <2>4. QED
      BY <1>1, <2>2, <2>3, AtFindSpace
  <1>2. CASE WriteToFlash
    <2>1. PICK b \in Area : /\ Head(idle) = Todo("write_to_flash", b)
                            /\ flash' = <<Store("area", "buffer", b, 1)>>
                            /\ idle' = <<>> /\ statue' = 0
      BY <1>2, AtWriteToFlash
    <2>2. progress' = 0 /\ area' = area /\ idle # <<>>
      BY <1>2, AtIdle DEF WriteToFlash, zones, Starts
    <2>3. ~Used(area', b)
      BY <2>1, <2>2, Fielded DEF Ahead, Used
    <2>4. b \in Nat /\ \A c \in (b + progress')..(b + 1 - 1) : ~Used(area', c)
      BY <2>2, <2>3, Fits DEF Area
    <2>5. Zone("area")' = area'
      BY DEF Zone
    <2>6. QED
      BY <2>1, <2>2, <2>4, <2>5, StoreAhead
  <1>3. CASE ClearCache
    <2>1. progress' = 0
      BY <1>3, AtIdle DEF ClearCache
    <2>2. QED
      BY <1>3, <2>1, AtClearCache, EraseAhead
  <1>4. CASE OnFinishOk
    <2>1. flash' = <<>> /\ idle' = <<>>
      BY <1>4, AtFinish DEF OnFinishOk, queue
    <2>2. QED
      BY <2>1, NoneAhead
  <1>5. QED
    BY <1>1, <1>2, <1>3, <1>4 DEF DispatchIdle

\* Programming one cell leaves the others as they are.
LEMMA OthersErased ==
  ASSUME NEW zone, NEW i, NEW cell, NEW b, b # i, b \in DOMAIN zone
  PROVE  Used([zone EXCEPT ![i] = cell], b) <=> Used(zone, b)
BY DEF Used

LEMMA ProgramAhead ==
  ASSUME CInv, CInv', Ahead, Program
  PROVE  Ahead'
  <1> DEFINE op == Head(flash)
             i == progress + 1
  <1>1. /\ flash # <<>> /\ progress < op.size /\ progress' = i /\ i \in 1..op.size
        /\ flash' = flash /\ statue' = statue /\ idle' = idle
    BY AtProgram DEF Program, ram
  <1>2. /\ idle = <<>> /\ flash = <<op>> /\ Planned(op) /\ progress \in 0..op.size
    BY <1>1, AtFlash
  <1>3. HeadErased
    BY OneErased DEF Ahead
  <1>4. CASE statue = 0
    <2>1. PICK b \in Area : op = Store("area", "buffer", b, 1)
      BY <1>2, <1>4 DEF Planned
    <2>2. progress = 0
      BY <1>1, <1>4, AtProgram
    <2>3. b \in Nat /\ progress' \in Nat
          /\ \A c \in (b + progress')..(b + 1 - 1) : ~Used(area', c)
      BY <1>1, <2>2, Fits DEF Area
    <2>4. Zone("area")' = area'
      BY DEF Zone
    <2>5. statue' \notin {21, 23} /\ flash' = <<Store("area", "buffer", b, 1)>> /\ idle' = <<>>
      BY <1>1, <1>2, <1>4, <2>1
    <2>6. QED
      BY <2>3, <2>4, <2>5, StoreAhead
  <1>5. CASE statue = 22
    <2>1. PICK n \in 0..PageBlocks : op = Store("cache", "frame", 1, n)
      BY <1>2, <1>5 DEF Planned
    <2>2. PICK new, cell : cache' = [cache EXCEPT ![i] = cell]
      BY <1>1, <1>5, AtProgram
    <2>3. op.size = n /\ op.at = 1 /\ op.zone = "cache" /\ op.kind = "store"
      BY <2>1, Fielded
    <2>4. \A c \in (1 + progress)..n : ~Used(cache, c)
      BY <1>1, <1>2, <1>3, <2>3 DEF HeadErased, ToProgram, Zone
    <2>5. DOMAIN cache = 1..PageBlocks
      BY DEF CInv, Fields, Cache
    <2>6. n \in Nat /\ progress \in Nat
      BY <1>2, <2>3, Fits
    <2>7. ASSUME NEW c \in (1 + i)..n PROVE ~Used(cache', c)
      <3>1. c # i /\ c \in (1 + progress)..n /\ c \in DOMAIN cache
        BY <2>5, <2>6, <1>1, <2>3, Fits
      <3>2. ~Used(cache, c)
        BY <2>4, <3>1
      <3>3. QED
        BY <2>2, <3>1, <3>2, OthersErased
    <2>8. Zone("cache")' = cache'
      BY DEF Zone
    <2>9. statue' \notin {21, 23} /\ flash' = <<Store("cache", "frame", 1, n)>> /\ idle' = <<>>
      BY <1>1, <1>2, <1>5, <2>1
    <2>10. progress' \in Nat /\ \A c \in (1 + progress')..(1 + n - 1) : ~Used(cache', c)
      BY <1>1, <2>6, <2>7
    <2>11. QED
      BY <2>6, <2>8, <2>9, <2>10, StoreAhead
  <1>6. CASE statue = 24
    <2>1. PICK n \in 0..PageBlocks : op = Store("area", "cache", 1, n)
      BY <1>2, <1>6 DEF Planned
    <2>2. PICK cell : area' = [area EXCEPT ![i] = cell]
      BY <1>1, <1>6, AtProgram
    <2>3. op.size = n /\ op.at = 1 /\ op.zone = "area" /\ op.kind = "store"
      BY <2>1, Fielded
    <2>4. \A c \in (1 + progress)..n : ~Used(area, c)
      BY <1>1, <1>2, <1>3, <2>3 DEF HeadErased, ToProgram, Zone
    <2>5. DOMAIN area = 1..AreaBlocks
      BY DEF CInv, Fields, Area
    <2>6. n \in Nat /\ progress \in Nat
      BY <1>2, <2>3, Fits
    <2>7. ASSUME NEW c \in (1 + i)..n PROVE ~Used(area', c)
      <3>1. c # i /\ c \in (1 + progress)..n /\ c \in DOMAIN area
        BY <2>5, <2>6, <1>1, <2>3, Fits
      <3>2. ~Used(area, c)
        BY <2>4, <3>1
      <3>3. QED
        BY <2>2, <3>1, <3>2, OthersErased
    <2>8. Zone("area")' = area'
      BY DEF Zone
    <2>9. statue' \notin {21, 23} /\ flash' = <<Store("area", "cache", 1, n)>> /\ idle' = <<>>
      BY <1>1, <1>2, <1>6, <2>1
    <2>10. progress' \in Nat /\ \A c \in (1 + progress')..(1 + n - 1) : ~Used(area', c)
      BY <1>1, <2>6, <2>7
    <2>11. QED
      BY <2>6, <2>8, <2>9, <2>10, StoreAhead
  <1>7. QED
    BY <1>4, <1>5, <1>6, AtProgram

LEMMA EraseStepAhead ==
  ASSUME CInv, CInv', Ahead, Erase
  PROVE  Ahead'
  <1> DEFINE op == Head(flash)
  <1>1. /\ flash # <<>> /\ progress < op.size /\ progress' = progress + 1
        /\ progress \in Nat
        /\ flash' = flash /\ statue' = statue /\ idle' = idle
    BY AtErase DEF Erase, ram
  <1>2. idle = <<>> /\ Planned(op)
    BY <1>1, AtFlash
  <1>3. op.kind = "clear"
    BY DEF Erase, Busy
  <1>4. HeadErased'
    BY <1>1, <1>3 DEF HeadErased
  <1>5. DOMAIN area = Area /\ DOMAIN cache = Cache /\ Blank.id = None
    BY DEF CInv, Fields, Blank
  <1>6. CASE statue = 21
    <2>1. cache' = Without(cache, 0)
      BY <1>6, AtErase
    <2>2. \A b \in Cache : ~Used(cache', b)
      BY <1>5, <2>1, Pages DEF Without, Used
    <2>3. QED
      BY <1>1, <1>2, <1>4, <1>6, <2>2, OneErasedNext DEF Ahead, Used
  <1>7. CASE statue = 23
    <2>1. area' = Without(area, progress)
      BY <1>7, AtErase
    <2>2. ASSUME NEW b \in Area, Page(b) < progress + 1 PROVE ~Used(area', b)
      <3>1. CASE Page(b) = progress
        BY <1>5, <2>1, <3>1 DEF Without, Used
      <3>2. CASE Page(b) # progress
        <4>1. Page(b) < progress
          BY <1>1, <2>2, <3>2, Pages
        <4>2. ~Used(area, b)
          BY <1>1, <1>7, <4>1 DEF Ahead
        <4>3. QED
          BY <1>5, <2>1, <3>2, <4>2 DEF Without, Used
      <3>3. QED
        BY <3>1, <3>2
    <2>3. QED
      BY <1>1, <1>2, <1>4, <1>7, <2>2, OneErasedNext DEF Ahead, Used
  <1>8. QED
    BY <1>6, <1>7, AtErase

LEMMA FlashDoneAhead ==
  ASSUME ~FlashFails, CInv, CInv', Ahead, FlashDone
  PROVE  Ahead'
  <1> DEFINE op == Head(flash)
  <1>1. /\ flash # <<>> /\ progress' = 0 /\ progress = op.size
        /\ area' = area /\ cache' = cache
    BY AtFlashDone DEF zones
  <1>2. Planned(op)
    BY <1>1, AtFlash
  <1>3. CASE flash' = <<>> /\ idle' = <<Todo("on_finish_ok", 0)>>
    <2>1. Head(idle').func = "on_finish_ok"
      BY <1>3, Singles, Fielded
    <2>2. QED
      BY <1>3, <2>1, NoneAhead
  <1>4. CASE statue = 21 /\ CollectValid(<<>>) /\ idle' = <<>>
    <2>1. op.size = 1
      BY <1>2, <1>4, Fielded DEF Planned
    <2>2. \A b \in Cache : ~Used(cache, b)
      BY <1>1, <1>4, <2>1 DEF Ahead
    <2>3. PICK n \in 0..PageBlocks : /\ statue' = 22
                                     /\ flash' = <<Store("cache", "frame", 1, n)>>
      BY <1>4, CollectValidFrame
    <2>4. n \in Nat /\ \A b \in (1 + progress')..(1 + n - 1) : ~Used(cache', b)
      BY <1>1, <2>2, Fits DEF Cache, Used
    <2>5. Zone("cache")' = cache'
      BY DEF Zone
    <2>6. QED
      BY <1>1, <1>4, <2>3, <2>4, <2>5, StoreAhead
  <1>5. CASE statue = 22 /\ ClearArea(<<>>) /\ idle' = <<>>
    <2>1. flash' = <<Clear("area", AreaBlocks \div PageBlocks)>>
      BY <1>5, Singles DEF ClearArea
    <2>2. QED
      BY <1>1, <1>5, <2>1, EraseAhead
  <1>6. CASE statue = 23 /\ WriteBack(<<>>) /\ idle' = <<>>
    <2>1. op.size = AreaBlocks \div PageBlocks
      BY <1>2, <1>6, Fielded DEF Planned
    <2>2. \A b \in Area : ~Used(area, b)
      BY <1>1, <1>6, <2>1, Pages DEF Ahead
    <2>3. PICK n \in 0..PageBlocks : /\ statue' = 24
                                     /\ flash' = <<Store("area", "cache", 1, n)>>
      BY <1>6, Singles DEF WriteBack
    <2>4. n \in Nat /\ \A b \in (1 + progress')..(1 + n - 1) : ~Used(area', b)
      BY <1>1, <2>2, Fits DEF Area, Used
    <2>5. Zone("area")' = area'
      BY DEF Zone
    <2>6. QED
      BY <1>1, <1>6, <2>3, <2>4, <2>5, StoreAhead
  <1>7. CASE FindSpace(25, <<>>) /\ flash' = <<>>
    <2>1. CASE idle' = <<Todo("clear_cache", 0)>>
      <3>1. Head(idle').func = "clear_cache"
        BY <2>1, Singles, Fielded
      <3>2. QED
        BY <1>7, <3>1, NoneAhead
    <2>2. ASSUME NEW b \in Area, IsFirstFree(b), idle' = <<Todo("write_to_flash", b)>>
          PROVE  Ahead'
      <3>1. Head(idle').at = b
        BY <2>2, Singles, Fielded
      <3>2. ~Used(area', Head(idle').at)
        BY <1>1, <2>2, <3>1 DEF IsFirstFree, Used
      <3>3. QED
        BY <1>7, <3>2, NoneAhead
    <2>3. QED
      BY <1>7, <2>1, <2>2, Singles DEF FindSpace
  <1>8. QED
    BY <1>3, <1>4, <1>5, <1>6, <1>7, AtFlashDone

LEMMA StepAhead ==
  ~FlashFails /\ ~Overlap /\ CInv /\ CInv' /\ Ahead /\ [Next]_vars => Ahead'
  <1> SUFFICES ASSUME ~FlashFails, ~Overlap, CInv, CInv', Ahead, [Next]_vars
               PROVE  Ahead'
    OBVIOUS
  <1>1. ASSUME NEW id \in Id, NEW v \in Value, Write(id, v) PROVE Ahead'
    <2>1. flash' = <<>> /\ Head(idle').func = "find_space"
      BY <1>1, AtWrite, Singles, Fielded DEF Resting, Write, queue
    <2>2. QED
      BY <2>1, NoneAhead
  <1>2. CASE PowerLoss
    <2>1. flash' = <<>> /\ idle' = <<>>
      BY <1>2 DEF PowerLoss
    <2>2. QED
      BY <2>1, NoneAhead
  <1>3. CASE UNCHANGED vars
    BY <1>3 DEF vars, zones, ram, queue, Ahead, ProgramsErased, Used, Zone
  <1>4. QED
    BY <1>1, <1>2, <1>3, IdleAhead, ProgramAhead, EraseStepAhead, FlashDoneAhead
       DEF Next, Flash

LEMMA AheadKept == ~Overlap /\ ~FlashFails => (Spec => [](CInv /\ Ahead))
  <1> SUFFICES ASSUME ~Overlap, ~FlashFails PROVE Spec => [](CInv /\ Ahead)
    OBVIOUS
  <1>1. CInv /\ CInv' /\ Ahead /\ [Next]_vars => Ahead'
    BY StepAhead
  <1>2. QED
    BY <1>1, InitAhead, ChainKept, PTL DEF Spec

\* While the flash gives no operation up, it is never programmed over data,
\* whatever the layout, and wherever the power fails: a settlement that was
\* interrupted leaves nothing that a later store could fall upon.
THEOREM NeverOverwrites ==
  ~Overlap /\ ~FlashFails => (Spec => []ProgramsErased)
  <1> SUFFICES ASSUME ~Overlap, ~FlashFails PROVE Spec => []ProgramsErased
    OBVIOUS
  <1>1. Ahead => ProgramsErased
    BY DEF Ahead
  <1>2. QED
    BY <1>1, AheadKept, PTL

-----------------------------------------------------------------------------
\* What a read finds.

\* The callers and the hardware under which nothing written is lost.
Careful ==
  ~Overlap /\ ~FlashFails /\ StackHolds /\ Losses \cap {23, 24} = {}

LEMMA Domains ==
  ASSUME CInv
  PROVE  /\ DOMAIN area = 1..AreaBlocks /\ DOMAIN cache = 1..PageBlocks
         /\ \A b \in Area : area[b] \in Cell
         /\ \A b \in Cache : cache[b] \in Cell
  BY DEF CInv, Fields, Area, Cache

CacheRead(id) == IF Holds(cache, id) THEN cache[Newest(cache, id)].value ELSE None

\* While the cache is good for every id, it decides what is read.
LEMMA SafeRead ==
  ASSUME Safe, NEW id \in Id
  PROVE  Read(id) = CacheRead(id)
  <1>1. CASE Holds(area, id)
    BY <1>1 DEF Safe, Read, CacheRead
  <1>2. CASE ~Holds(area, id)
    BY <1>2 DEF Read, CacheRead
  <1>3. QED
    BY <1>1, <1>2

\* While the cache is shadowed, it decides nothing.
LEMMA ShadowedRead ==
  ASSUME Shadowed, NEW id \in Id
  PROVE  Read(id) = ReadArea(id)
  <1>1. CASE Holds(area, id)
    BY <1>1 DEF Read, ReadArea
  <1>2. CASE ~Holds(area, id)
    BY <1>2 DEF Read, ReadArea, Shadowed
  <1>3. QED
    BY <1>1, <1>2

ReadsCache == \A id \in Id : Read(id) = CacheRead(id)
ReadsArea  == \A id \in Id : Read(id) = ReadArea(id)

LEMMA SafeReadNext == Safe' => ReadsCache'
  <1>1. Safe => ReadsCache
    BY SafeRead DEF ReadsCache
  <1>2. QED
    BY <1>1, PTL

LEMMA ShadowedReadNext == Shadowed' => ReadsArea'
  <1>1. Shadowed => ReadsArea
    BY ShadowedRead DEF ReadsArea
  <1>2. QED
    BY <1>1, PTL

\* The only cell of a zone with an id is the newest.
LEMMA OnlyOne ==
  ASSUME NEW zone, NEW n \in Nat, DOMAIN zone = 1..n, NEW i \in 1..n, NEW id,
         zone[i].id = id, \A j \in 1..n : zone[j].id = id => j = i
  PROVE  Newest(zone, id) = i
BY NewestIs

\* Programming a block above all the others: a read of its id finds it, a read
\* of another id finds what it found before.
OnTop(after, zone, n, k, cell) ==
  /\ n \in Nat /\ k \in 1..n /\ DOMAIN zone = 1..n /\ DOMAIN after = 1..n
  /\ cell.id \in Id /\ \A b \in 1..n : b >= k => zone[b].id \notin Id
  /\ after[k] = cell /\ \A b \in 1..n : b # k => after[b] = zone[b]

LEMMA AppendBlock ==
  ASSUME NEW zone, NEW after, NEW n, NEW k, NEW cell, OnTop(after, zone, n, k, cell),
         NEW id \in Id
  PROVE  /\ Holds(after, id) <=> id = cell.id \/ Holds(zone, id)
         /\ Holds(after, id) =>
              after[Newest(after, id)] =
                IF id = cell.id THEN cell ELSE zone[Newest(zone, id)]
  <1> USE DEF OnTop
  <1>1. \A b \in 1..n : after[b] = IF b = k THEN cell ELSE zone[b]
    OBVIOUS
  <1>2. Holds(after, id) <=> id = cell.id \/ Holds(zone, id)
    BY <1>1 DEF Holds
  <1>3. CASE id = cell.id
    <2>1. \A b \in 1..n : after[b].id = id => b <= k
      BY <1>1
    <2>2. after[k].id = id /\ DOMAIN after = 1..n
      BY <1>1, <1>3
    <2>3. Newest(after, id) = k
      BY <2>1, <2>2, NewestIs
    <2>4. QED
      BY <1>1, <1>2, <1>3, <2>3
  <1>4. CASE id # cell.id /\ Holds(zone, id)
    <2>1. /\ Newest(zone, id) \in 1..n /\ zone[Newest(zone, id)].id = id
          /\ \A c \in 1..n : zone[c].id = id => c <= Newest(zone, id)
      BY <1>4, NewestOf
    <2>2. Newest(zone, id) # k
      BY <2>1
    <2>3. Newest(after, id) = Newest(zone, id)
      BY <1>1, <1>4, <2>1, <2>2, NewestIs
    <2>4. QED
      BY <1>1, <1>2, <1>4, <2>1, <2>2, <2>3
  <1>5. QED
    BY <1>2, <1>3, <1>4

\* Erasing the lowest blocks leaves the newest of every id that is still there.
LEMMA EraseLow ==
  ASSUME NEW zone, NEW n \in Nat, DOMAIN zone = 1..n, NEW after,
         DOMAIN after = 1..n, \A b \in 1..n : after[b] \in {zone[b], Blank},
         \A b, c \in 1..n : b <= c /\ after[b] # Blank => after[c] = zone[c],
         NEW id \in Id, Holds(after, id)
  PROVE  Holds(zone, id) /\ after[Newest(after, id)] = zone[Newest(zone, id)]
  <1>1. id # Blank.id
    BY LayoutAssumption DEF Blank
  <1>2. PICK b \in 1..n : after[b].id = id
    BY DEF Holds
  <1>3. after[b] # Blank /\ zone[b].id = id
    BY <1>1, <1>2
  <1>4. Holds(zone, id)
    BY <1>3 DEF Holds
  <1>5. /\ Newest(zone, id) \in 1..n /\ zone[Newest(zone, id)].id = id
        /\ \A c \in 1..n : zone[c].id = id => c <= Newest(zone, id)
    BY <1>4, NewestOf
  <1>6. b <= Newest(zone, id)
    BY <1>3, <1>5
  <1>7. after[Newest(zone, id)] = zone[Newest(zone, id)]
    BY <1>3, <1>5, <1>6
  <1>8. ASSUME NEW c \in 1..n, after[c].id = id PROVE c <= Newest(zone, id)
    <2>1. zone[c].id = id
      BY <1>1, <1>8
    <2>2. QED
      BY <1>5, <2>1
  <1>9. Newest(after, id) = Newest(zone, id)
    BY <1>5, <1>7, <1>8, NewestIs
  <1>10. QED
    BY <1>4, <1>7, <1>9

-----------------------------------------------------------------------------
\* What a step at the flash changes of what is read.

Unread == \A id \in Id : Read(id)' = Read(id)

LEMMA SameZones ==
  ASSUME UNCHANGED zones
  PROVE  Unread
BY DEF zones, Unread, Read, Holds, Newest

LEMMA SameShadow ==
  ASSUME UNCHANGED zones, Shadowed, NEW n, Prefix(n)
  PROVE  Shadowed' /\ Prefix(n)'
BY DEF zones, Shadowed, Holds, Prefix, Used

\* The first free block is the one above the blocks in use.
LEMMA FirstFree ==
  ASSUME CInv, NEW n \in 0..AreaBlocks, Prefix(n), NEW b \in Area, IsFirstFree(b)
  PROVE  /\ b = n + 1
         /\ \A c \in 1..AreaBlocks : c >= b => area[c] = Blank /\ area[c].id \notin Id
  <1>1. b > n /\ n \in Nat /\ b \in Nat /\ b <= AreaBlocks /\ b >= 1
    BY Fits DEF IsFirstFree, Prefix, Area
  <1>2. n + 1 \in Area
    BY <1>1, Fits DEF Area
  <1>3. ~Used(area, n + 1)
    BY <1>1, <1>2 DEF Prefix
  <1>4. b <= n + 1
    BY <1>2, <1>3 DEF IsFirstFree
  <1>5. ASSUME NEW c \in 1..AreaBlocks, c >= b
        PROVE  area[c] = Blank /\ area[c].id \notin Id
    <2>1. c \in Area /\ ~(c <= n)
      BY <1>1, <1>5 DEF Area
    <2>2. ~Used(area, c) /\ area[c] \in Cell
      BY <2>1, Domains DEF Prefix
    <2>3. QED
      BY <2>2, CellId DEF Used
  <1>6. QED
    BY <1>1, <1>4, <1>5

LEMMA ProgramBlock ==
  ASSUME CInv, Kept, Program, statue = 0
  PROVE  /\ \A id \in Id :
              Read(id)' = IF id = buffer.id THEN buffer.value ELSE Read(id)
         /\ Shadowed' /\ \E n \in 0..AreaBlocks : Prefix(n)'
         /\ progress' = 1
  <1> DEFINE b == Head(flash).at
  <1>1. /\ flash # <<>> /\ progress = 0 /\ progress' = progress + 1 /\ b \in Area
        /\ cache' = cache
    BY AtProgram
  <1>2. buffer \in [id : Id, value : Value]
    BY <1>1, AtFlash
  <1>3. PICK n \in 0..AreaBlocks : Prefix(n)
    BY DEF Kept
  <1>4. IsFirstFree(b) /\ Shadowed
    BY <1>1 DEF Kept
  <1>5. /\ b = n + 1
        /\ \A c \in 1..AreaBlocks : c >= b => area[c] = Blank /\ area[c].id \notin Id
    BY <1>1, <1>3, <1>4, FirstFree
  <1>6. b \in 1..AreaBlocks /\ DOMAIN area = 1..AreaBlocks /\ AreaBlocks \in Nat
    BY <1>1, Domains, Fits DEF Area
  <1>7. area' = [area EXCEPT ![b] = buffer]
    <2>1. PICK cell \in Programmed(area[b], buffer) : area' = [area EXCEPT ![b] = cell]
      BY AtProgram
    <2>2. area[b] = Blank
      BY <1>5, <1>6
    <2>3. cell = buffer
      BY <2>1, <2>2 DEF Programmed
    <2>4. QED
      BY <2>1, <2>3
  <1>8. /\ DOMAIN area' = 1..AreaBlocks /\ area'[b] = buffer
        /\ \A c \in 1..AreaBlocks : c # b => area'[c] = area[c]
    BY <1>6, <1>7
  <1>9. /\ buffer.id \in Id /\ area[b].id \notin Id
        /\ \A c \in 1..AreaBlocks : c > b => area[c].id \notin Id
    BY <1>2, <1>5, <1>6
  <1> HIDE DEF b
  <1>10. ASSUME NEW id \in Id
         PROVE  /\ Holds(area', id) <=> id = buffer.id \/ Holds(area, id)
                /\ Holds(area', id) =>
                     area'[Newest(area', id)] =
                       IF id = buffer.id THEN buffer ELSE area[Newest(area, id)]
    <2>1. OnTop(area', area, AreaBlocks, b, buffer)
      BY <1>6, <1>8, <1>9 DEF OnTop
    <2>2. QED
      BY <2>1, AppendBlock
  <1>11. Shadowed'
    BY <1>1, <1>4, <1>10 DEF Shadowed
  <1>12. \A id \in Id : Read(id)' = ReadArea(id)' /\ Read(id) = ReadArea(id)
    BY <1>4, <1>11, ShadowedRead, ShadowedReadNext DEF ReadsArea
  <1>13. ASSUME NEW id \in Id
         PROVE  Read(id)' = IF id = buffer.id THEN buffer.value ELSE Read(id)
    <2>1. CASE id = buffer.id
      <3>1. Holds(area', id) /\ area'[Newest(area', id)] = buffer
        BY <1>10, <2>1
      <3>2. ReadArea(id)' = buffer.value
        BY <3>1 DEF ReadArea
      <3>3. QED
        BY <1>12, <2>1, <3>2
    <2>2. CASE id # buffer.id
      <3>1. ReadArea(id)' = ReadArea(id)
        BY <1>10, <2>2 DEF ReadArea
      <3>2. QED
        BY <1>12, <2>2, <3>1
    <2>3. QED
      BY <2>1, <2>2
  <1>14. n + 1 \in 0..AreaBlocks /\ Prefix(n + 1)'
    <2>1. ASSUME NEW c \in Area PROVE Used(area', c) <=> c <= n + 1
      <3>1. c \in 1..AreaBlocks /\ b \in Int /\ n \in Int
        BY <1>6, <1>3, Fits DEF Area
      <3>2. CASE c = b
        <4>1. area'[c].id # None
          BY <1>8, <1>9, <3>2, LayoutAssumption
        <4>2. QED
          BY <1>5, <3>1, <3>2, <4>1 DEF Used
      <3>3. CASE c # b
        <4>1. Used(area', c) <=> Used(area, c)
          BY <1>8, <3>1, <3>3 DEF Used
        <4>2. Used(area, c) <=> c <= n
          BY <1>3 DEF Prefix
        <4>3. QED
          BY <1>5, <3>1, <3>3, <4>1, <4>2
      <3>4. QED
        BY <3>2, <3>3
    <2>2. n + 1 \in 0..AreaBlocks
      BY <1>5, <1>6
    <2>3. Prefix(n + 1)'
      BY <2>1 DEF Prefix
    <2>4. QED
      BY <2>2, <2>3
  <1>15. progress' = 1
    BY <1>1
  <1>16. QED
    BY <1>11, <1>13, <1>14, <1>15

LEMMA EraseCache ==
  ASSUME CInv, Kept, Erase, statue = 21
  PROVE  Unread /\ Shadowed' /\ \E n \in 0..AreaBlocks : Prefix(n)'
  <1>1. cache' = Without(cache, 0) /\ area' = area
    BY AtErase
  <1>2. Shadowed /\ \E n \in 0..AreaBlocks : Prefix(n)
    BY DEF Kept
  <1>3. \A b \in DOMAIN cache' : cache'[b] = Blank
    BY <1>1, Domains, Pages DEF Without, Cache
  <1>4. \A id \in Id : ~Holds(cache', id)
    BY <1>3, LayoutAssumption DEF Holds, Blank
  <1>5. Shadowed'
    BY <1>4 DEF Shadowed
  <1>6. \A id \in Id : Read(id)' = ReadArea(id)' /\ Read(id) = ReadArea(id)
    BY <1>2, <1>5, ShadowedRead, ShadowedReadNext DEF ReadsArea
  <1>7. \A id \in Id : ReadArea(id)' = ReadArea(id)
    BY <1>1 DEF ReadArea, Holds, Newest
  <1>8. \E n \in 0..AreaBlocks : Prefix(n)'
    BY <1>1, <1>2 DEF Prefix, Used
  <1>9. QED
    BY <1>5, <1>6, <1>7, <1>8 DEF Unread

LEMMA ProgramFrame ==
  ASSUME StackHolds, CInv, Kept, Program, statue = 22, NEW n, n = Head(flash).size
  PROVE  /\ Unread /\ Shadowed' /\ \E k \in 0..AreaBlocks : Prefix(k)'
         /\ Collected(n)'
  <1> DEFINE i == progress + 1
  <1>1. /\ flash # <<>> /\ progress' = i /\ i \in 1..n /\ i \in Cache
        /\ n \in 0..PageBlocks /\ area' = area /\ frame' = frame
    <2>1. frame' = frame
      BY DEF Program, ram
    <2>2. QED
      BY <2>1, AtProgram
  <1>2. Collected(n) /\ Shadowed /\ \E k \in 0..AreaBlocks : Prefix(k)
    BY <1>1 DEF Kept
  <1>3. progress \in Nat
    BY <1>1, AtFlash, Fits
  <1>4. cache[i] = Blank
    BY <1>1, <1>2, <1>3 DEF Collected
  <1>5. PICK cell \in Programmed(cache[i], frame[i]) : cache' = [cache EXCEPT ![i] = cell]
    BY AtProgram
  <1>6. cell = frame[i]
    BY <1>4, <1>5 DEF Programmed
  <1>7. ASSUME NEW j \in Cache PROVE cache'[j] = IF j <= i THEN frame[j] ELSE Blank
    <2>1. cache'[j] = IF j = i THEN frame[i] ELSE cache[j]
      BY <1>1, <1>5, <1>6, Domains DEF Cache
    <2>2. cache[j] = IF j <= progress THEN frame[j] ELSE Blank
      BY <1>2 DEF Collected
    <2>3. j \in Int /\ progress \in Int
      BY <1>3, Fits DEF Cache
    <2>4. QED
      BY <2>1, <2>2, <2>3
  <1>8. Collected(n)'
    <2>1. /\ frame' \in [1..n -> Block] /\ Distinct(frame', n)
          /\ \A j \in 1..n : /\ Holds(area', frame'[j].id)
                             /\ frame'[j] = area'[Newest(area', frame'[j].id)]
          /\ \A id \in Id : Holds(area', id) => \E j \in 1..n : frame'[j].id = id
      BY <1>1, <1>2 DEF Collected
    <2>2. \A j \in Cache : cache'[j] = IF j <= progress' THEN frame'[j] ELSE Blank
      BY <1>1, <1>7
    <2>3. QED
      BY <2>1, <2>2 DEF Collected
  <1>9. Shadowed'
    <2> SUFFICES ASSUME NEW id \in Id, Holds(cache', id) PROVE Holds(area', id)
      BY DEF Shadowed
    <2>1. PICK j \in Cache : cache'[j].id = id
      BY <1>5, Domains DEF Holds, Cache
    <2>2. j <= i /\ cache'[j] = frame[j]
      BY <1>7, <2>1, LayoutAssumption DEF Blank
    <2>3. j \in 1..n
      BY <1>1, <2>2, Fits DEF Cache
    <2>4. Holds(area, frame[j].id)
      BY <1>2, <2>3 DEF Collected
    <2>5. QED
      BY <1>1, <2>1, <2>2, <2>4
  <1>10. \A id \in Id : Read(id)' = ReadArea(id)' /\ Read(id) = ReadArea(id)
    BY <1>2, <1>9, ShadowedRead, ShadowedReadNext DEF ReadsArea
  <1>11. \A id \in Id : ReadArea(id)' = ReadArea(id)
    BY <1>1 DEF ReadArea, Holds, Newest
  <1>12. \E k \in 0..AreaBlocks : Prefix(k)'
    BY <1>1, <1>2 DEF Prefix, Used
  <1>13. QED
    BY <1>8, <1>9, <1>10, <1>11, <1>12 DEF Unread

\* The cache is as good as before for every id that is left.
LEMMA EraseArea ==
  ASSUME CInv, Ahead, Kept, Erase, statue = 23
  PROVE  Unread /\ Safe'
  <1>1. /\ flash # <<>> /\ area' = Without(area, progress) /\ cache' = cache
        /\ progress \in Nat
    BY AtErase
  <1>2. Safe /\ \A b \in Area : Page(b) < progress => ~Used(area, b)
    BY <1>1 DEF Kept, Ahead
  <1>3. /\ DOMAIN area = 1..AreaBlocks /\ DOMAIN area' = 1..AreaBlocks
        /\ AreaBlocks \in Nat
        /\ \A b \in 1..AreaBlocks :
             area'[b] = IF Page(b) = progress THEN Blank ELSE area[b]
    BY <1>1, Domains, Fits DEF Without
  <1>4. \A b \in 1..AreaBlocks : area'[b] \in {area[b], Blank}
    BY <1>3
  <1>5. ASSUME NEW b \in 1..AreaBlocks, NEW c \in 1..AreaBlocks,
               b <= c, area'[b] # Blank
        PROVE  area'[c] = area[c]
    <2>1. b \in Area /\ c \in Area /\ Page(b) \in Nat /\ Page(c) \in Nat
          /\ Page(b) <= Page(c)
      BY <1>5, Pages DEF Area
    <2>2. Page(b) # progress /\ area[b] # Blank
      BY <1>3, <1>5
    <2>3. Used(area, b)
      BY <2>1, <2>2, Domains, CellId DEF Used
    <2>4. Page(c) # progress
      BY <1>1, <1>2, <2>1, <2>2, <2>3
    <2>5. QED
      BY <1>3, <2>4
  <1>6. ASSUME NEW id \in Id, Holds(area', id)
        PROVE  Holds(area, id) /\ area'[Newest(area', id)] = area[Newest(area, id)]
    BY <1>3, <1>4, <1>5, <1>6, EraseLow
  <1>7. Safe'
    <2>1. \E n \in 0..PageBlocks :
            /\ Distinct(cache', n)
            /\ \A i \in Cache : i > n => cache'[i] = Blank
      BY <1>1, <1>2 DEF Safe
    <2>2. ASSUME NEW id \in Id, Holds(area', id)
          PROVE  /\ Holds(cache', id)
                 /\ area'[Newest(area', id)].value = cache'[Newest(cache', id)].value
      BY <1>1, <1>2, <1>6, <2>2 DEF Safe
    <2>3. QED
      BY <2>1, <2>2 DEF Safe
  <1>8. \A id \in Id : Read(id)' = CacheRead(id)' /\ Read(id) = CacheRead(id)
    BY <1>2, <1>7, SafeRead, SafeReadNext DEF ReadsCache
  <1>9. \A id \in Id : CacheRead(id)' = CacheRead(id)
    BY <1>1 DEF CacheRead, Holds, Newest
  <1>10. QED
    BY <1>7, <1>8, <1>9 DEF Unread

\* Restoring keeps the cache good for every id.
LEMMA RestoredSafe ==
  ASSUME CInv, NEW n \in 0..PageBlocks, progress \in 0..n, Restored(n)
  PROVE  Safe
  <1>1. /\ DOMAIN area = 1..AreaBlocks /\ DOMAIN cache = 1..PageBlocks
        /\ AreaBlocks \in Nat /\ PageBlocks \in Nat /\ n \in Nat
        /\ PageBlocks <= AreaBlocks
    BY Domains, Fits
  <1>2. ASSUME NEW id \in Id, Holds(area, id)
        PROVE  /\ Holds(cache, id)
               /\ area[Newest(area, id)].value = cache[Newest(cache, id)].value
    <2>1. ASSUME NEW b \in 1..AreaBlocks, area[b].id = id
          PROVE  b \in 1..n /\ cache[b].id = id /\ area[b] = cache[b]
      <3>1. area[b] # Blank /\ b \in Area
        BY <2>1, LayoutAssumption DEF Blank, Area
      <3>2. area[b] = cache[b] /\ b <= progress
        BY <3>1 DEF Restored
      <3>3. b <= n
        BY <1>1, <3>2
      <3>4. QED
        BY <2>1, <3>2, <3>3
    <2>2. ASSUME NEW c \in 1..PageBlocks, cache[c].id = id PROVE c \in 1..n
      <3>1. cache[c] # Blank /\ c \in Cache
        BY <2>2, LayoutAssumption DEF Blank, Cache
      <3>2. ~(c > n)
        BY <3>1 DEF Restored
      <3>3. QED
        BY <1>1, <3>2
    <2>3. \A i, j \in 1..n : cache[i].id = cache[j].id => i = j
      BY DEF Restored, Distinct
    <2>4. PICK b \in 1..AreaBlocks : area[b].id = id
      BY <1>1, <1>2 DEF Holds
    <2>5. /\ b \in 1..n /\ b \in 1..PageBlocks /\ cache[b].id = id /\ area[b] = cache[b]
      BY <1>1, <2>1, <2>4
    <2>6. \A c \in 1..AreaBlocks : area[c].id = id => c = b
      BY <2>1, <2>3, <2>5
    <2>7. \A c \in 1..PageBlocks : cache[c].id = id => c = b
      BY <2>2, <2>3, <2>5
    <2>8. Newest(area, id) = b
      BY <1>1, <2>4, <2>6, OnlyOne
    <2>9. Newest(cache, id) = b
      BY <1>1, <2>5, <2>7, OnlyOne
    <2>10. Holds(cache, id)
      BY <1>1, <2>5 DEF Holds
    <2>11. QED
      BY <2>5, <2>8, <2>9, <2>10
  <1>3. QED
    BY <1>2 DEF Safe, Restored

Rewriting == \E n \in 0..PageBlocks : progress \in 0..n /\ Restored(n)

LEMMA RestoredSafeNext == CInv' /\ Rewriting' => Safe'
  <1>1. CInv /\ Rewriting => Safe
    BY RestoredSafe DEF Rewriting
  <1>2. QED
    BY <1>1, PTL

LEMMA ProgramBack ==
  ASSUME CInv, CInv', Kept, Program, statue = 24, NEW n, n = Head(flash).size
  PROVE  Unread /\ Restored(n)'
  <1> DEFINE i == progress + 1
  <1>1. /\ flash # <<>> /\ progress' = i /\ i \in 1..n /\ i \in Cache /\ i \in Area
        /\ n \in 0..PageBlocks /\ cache' = cache
    BY AtProgram
  <1>2. Restored(n) /\ progress \in 0..n /\ progress \in Nat
    BY <1>1, AtFlash, Fits DEF Kept
  <1>3. area[i] = Blank
    BY <1>1, <1>2 DEF Restored
  <1>4. PICK cell \in Programmed(area[i], cache[i]) : area' = [area EXCEPT ![i] = cell]
    BY AtProgram
  <1>5. cell = cache[i]
    BY <1>3, <1>4 DEF Programmed
  <1>6. ASSUME NEW b \in Area PROVE area'[b] = IF b <= i THEN cache[b] ELSE Blank
    <2>1. area'[b] = IF b = i THEN cache[i] ELSE area[b]
      BY <1>1, <1>4, <1>5, Domains DEF Area
    <2>2. area[b] = IF b <= progress THEN cache[b] ELSE Blank
      BY <1>2 DEF Restored
    <2>3. b \in Int /\ progress \in Int
      BY <1>2, Fits DEF Area
    <2>4. QED
      BY <2>1, <2>2, <2>3
  <1>7. Restored(n)'
    <2>1. Distinct(cache', n) /\ \A j \in Cache : j > n => cache'[j] = Blank
      BY <1>1, <1>2 DEF Restored
    <2>2. \A b \in Area : area'[b] = IF b <= progress' THEN cache'[b] ELSE Blank
      BY <1>1, <1>6
    <2>3. QED
      BY <2>1, <2>2 DEF Restored
  <1>8. progress' \in 0..n
    BY <1>1, <1>2, Fits
  <1>9. Safe /\ Safe'
    BY <1>1, <1>2, <1>7, <1>8, RestoredSafe, RestoredSafeNext DEF Rewriting
  <1>10. \A id \in Id : Read(id)' = CacheRead(id)' /\ Read(id) = CacheRead(id)
    BY <1>9, SafeRead, SafeReadNext DEF ReadsCache
  <1>11. \A id \in Id : CacheRead(id)' = CacheRead(id)
    BY <1>1 DEF CacheRead, Holds, Newest
  <1>12. QED
    BY <1>7, <1>10, <1>11 DEF Unread

-----------------------------------------------------------------------------
\* What was written stays readable.

LEMMA SameReadsBack ==
  ASSUME ReadsBack, Unread, writing' = writing, saved' = saved
  PROVE  ReadsBack'
BY DEF ReadsBack, Unread

\* A step that leaves the flash idle, outside the rewriting of the area.
LEMMA KeptAtRest ==
  ASSUME flash' = <<>>, statue' \notin {23, 24}, ReadsBack',
         Shadowed', \E n \in 0..AreaBlocks : Prefix(n)',
         idle' # <<>> /\ Head(idle').func = "on_finish_ok" => Stored',
         idle' # <<>> /\ Head(idle').func = "write_to_flash" =>
           IsFirstFree(Head(idle).at)'
  PROVE  Kept'
BY DEF Kept

\* A step at the flash that neither starts nor ends an operation, and does not
\* program the block of the write.
LEMMA KeptAtWork ==
  ASSUME Kept, Unread, flash # <<>>, statue # 0, idle = <<>>,
         UNCHANGED <<ram, flash, past>>,
         statue \notin {23, 24} =>
           Shadowed' /\ \E n \in 0..AreaBlocks : Prefix(n)',
         statue = 22 => Collected(Head(flash).size)',
         statue = 23 => Safe',
         statue = 24 => Restored(Head(flash).size)'
  PROVE  Kept'
  <1>1. flash' = flash /\ idle' = idle /\ statue' = statue
    BY DEF ram
  <1>2. ReadsBack'
    BY SameReadsBack DEF Kept, past
  <1>3. QED
    BY <1>1, <1>2 DEF Kept

LEMMA InitKept == Init => Kept
  <1> SUFFICES ASSUME Init PROVE Kept
    OBVIOUS
  <1>1. \A id \in Id : ~Holds(area, id) /\ ~Holds(cache, id)
    BY LayoutAssumption DEF Init, Holds, Blank
  <1>2. \A id \in Id : Read(id) = None
    BY <1>1 DEF Read
  <1>3. ReadsBack /\ Shadowed
    BY <1>1, <1>2 DEF ReadsBack, Shadowed, Init
  <1>4. Prefix(0) /\ 0 \in 0..AreaBlocks
    BY Fits DEF Prefix, Used, Blank, Init, Area
  <1>5. QED
    BY <1>3, <1>4 DEF Kept, Init

LEMMA WriteKept ==
  ASSUME Careful, CInv, Kept, NEW id \in Id, NEW v \in Value, Write(id, v)
  PROVE  Kept' /\ Unread
  <1>1. /\ Resting /\ idle' = <<Todo("find_space", 0)>> /\ statue' = 1
        /\ UNCHANGED zones /\ saved' = saved /\ flash' = <<>>
    BY AtWrite DEF Careful, Write, Resting, queue
  <1>2. Head(idle').func = "find_space"
    BY <1>1, Singles, Fielded
  <1>3. Unread
    BY <1>1, SameZones
  <1>4. ReadsBack'
    <2>1. \A x \in Id : Read(x) = saved[x]
      BY <1>1, Singles DEF Kept, ReadsBack, Resting
    <2>2. QED
      BY <1>1, <1>3, <2>1 DEF ReadsBack, Unread
  <1>5. Shadowed /\ \E n \in 0..AreaBlocks : Prefix(n)
    BY <1>1 DEF Kept, Resting
  <1>6. Shadowed' /\ \E n \in 0..AreaBlocks : Prefix(n)'
    BY <1>1, <1>5, SameShadow
  <1>7. QED
    BY <1>1, <1>2, <1>3, <1>4, <1>6, KeptAtRest

LEMMA SameFirstFree ==
  ASSUME UNCHANGED area, NEW b, IsFirstFree(b)
  PROVE  IsFirstFree(b)'
BY DEF IsFirstFree, Used

LEMMA IdleKept ==
  ASSUME CInv, Kept, DispatchIdle
  PROVE  Kept' /\ Unread
  <1>1. UNCHANGED zones
    BY DEF DispatchIdle, StartFindSpace, WriteToFlash, ClearCache, OnFinishOk
  <1>2. Unread
    BY <1>1, SameZones
  <1>3. flash = <<>> /\ writing = <<buffer>>
    BY AtIdle DEF DispatchIdle, StartFindSpace, WriteToFlash, ClearCache, OnFinishOk
  <1>4. Shadowed /\ \E n \in 0..AreaBlocks : Prefix(n)
    BY <1>3 DEF Kept
  <1>5. Shadowed' /\ \E n \in 0..AreaBlocks : Prefix(n)'
    BY <1>1, <1>4, SameShadow
  <1>6. CASE StartFindSpace
    <2>1. ReadsBack' /\ flash' = <<>>
      BY <1>2, <1>3, <1>6, SameReadsBack DEF Kept, StartFindSpace, past, queue
    <2>2. CASE statue' = 1 /\ idle' = <<Todo("clear_cache", 0)>>
      <3>1. Head(idle').func = "clear_cache"
        BY <2>2, Singles, Fielded
      <3>2. QED
        BY <1>2, <1>5, <2>1, <2>2, <3>1, KeptAtRest
    <2>3. ASSUME NEW b \in Area, IsFirstFree(b), statue' = 0,
                 idle' = <<Todo("write_to_flash", b)>>
          PROVE  Kept' /\ Unread
      <3>1. Head(idle').func = "write_to_flash" /\ Head(idle').at = b
        BY <2>3, Singles, Fielded
      <3>2. IsFirstFree(b)'
        BY <1>1, <2>3, SameFirstFree DEF zones
      <3>3. IsFirstFree(Head(idle).at)'
        BY <3>1, <3>2 DEF IsFirstFree
      <3>4. QED
        BY <1>2, <1>5, <2>1, <2>3, <3>1, <3>3, KeptAtRest
    <2>4. QED
      BY <1>6, <2>2, <2>3, AtFindSpace
  <1>7. CASE WriteToFlash
    <2>1. PICK b \in Area : /\ Head(idle) = Todo("write_to_flash", b)
                            /\ flash' = <<Store("area", "buffer", b, 1)>>
                            /\ idle' = <<>> /\ statue' = 0
      BY <1>7, AtWriteToFlash
    <2>2. progress' = 0 /\ idle # <<>>
      BY <1>7, AtIdle DEF WriteToFlash, Starts
    <2>3. ReadsBack'
      BY <1>2, <1>7, SameReadsBack DEF Kept, WriteToFlash, past
    <2>4. IsFirstFree(b)
      BY <2>1, <2>2, Fielded DEF Kept
    <2>5. IsFirstFree(b)'
      BY <1>1, <2>4, SameFirstFree DEF zones
    <2>6. Head(flash').at = b
      BY <2>1, Singles, Fielded
    <2>7. IsFirstFree(Head(flash).at)'
      BY <2>5, <2>6 DEF IsFirstFree
    <2>8. QED
      BY <1>2, <1>5, <2>1, <2>2, <2>3, <2>7 DEF Kept
  <1>8. CASE ClearCache
    <2>1. statue' = 21 /\ idle' = <<>>
      BY <1>8, AtClearCache
    <2>2. ReadsBack'
      BY <1>2, <1>8, SameReadsBack DEF Kept, ClearCache, past
    <2>3. QED
      BY <1>2, <1>5, <2>1, <2>2 DEF Kept
  <1>9. CASE OnFinishOk
    <2>1. /\ Head(idle).func = "on_finish_ok" /\ idle' = <<>> /\ writing' = <<>>
          /\ saved' = [saved EXCEPT ![buffer.id] = buffer.value]
          /\ flash' = <<>> /\ statue' = 0 /\ idle # <<>>
          /\ buffer \in [id : Id, value : Value]
      BY <1>3, <1>9, AtFinish DEF OnFinishOk, queue, Starts
    <2>2. Stored
      BY <2>1 DEF Kept
    <2>3. ASSUME NEW id \in Id PROVE Read(id)' = saved'[id]
      <3>1. saved \in [Id -> Value \cup {None}]
        BY DEF CInv, Fields
      <3>2. Read(id)' = Read(id)
        BY <1>2 DEF Unread
      <3>3. CASE id = buffer.id
        BY <2>1, <2>2, <3>1, <3>2, <3>3 DEF Stored
      <3>4. CASE id # buffer.id
        <4>1. \A i \in DOMAIN writing : writing[i] # [id |-> id, value |-> Read(id)]
          BY <1>3, <3>4, Singles
        <4>2. Read(id) = saved[id]
          BY <4>1 DEF Kept, ReadsBack
        <4>3. QED
          BY <2>1, <3>1, <3>2, <3>4, <4>2
      <3>5. QED
        BY <3>3, <3>4
    <2>4. ReadsBack'
      BY <2>3 DEF ReadsBack
    <2>5. QED
      BY <1>2, <1>5, <2>1, <2>4, KeptAtRest
  <1>10. QED
    BY <1>6, <1>7, <1>8, <1>9 DEF DispatchIdle

\* Programming the block of the write is the one step that changes what is read.
Commits ==
  /\ writing = <<buffer>> /\ buffer \in [id : Id, value : Value]
  /\ writing' = writing
  /\ \A id \in Id : Read(id)' = IF id = buffer.id THEN buffer.value ELSE Read(id)

LEMMA CommitKept ==
  ASSUME CInv, Kept, Program, statue = 0
  PROVE  Kept' /\ Commits
  <1>1. /\ \A id \in Id : Read(id)' = IF id = buffer.id THEN buffer.value ELSE Read(id)
        /\ Shadowed' /\ \E n \in 0..AreaBlocks : Prefix(n)'
        /\ progress' = 1
    BY ProgramBlock
  <1>2. /\ flash # <<>> /\ idle' = idle /\ statue' = statue /\ buffer' = buffer
        /\ writing' = writing /\ saved' = saved /\ flash' = flash
    BY AtProgram DEF Program, ram, past
  <1>3. /\ writing = <<buffer>> /\ buffer \in [id : Id, value : Value] /\ idle = <<>>
    BY <1>2, AtFlash
  <1>4. Stored'
    BY <1>1, <1>2 DEF Stored
  <1>5. ReadsBack'
    <2> SUFFICES ASSUME NEW id \in Id
                 PROVE  \/ Read(id)' = saved'[id]
                        \/ \E i \in DOMAIN writing' :
                             writing'[i] = [id |-> id, value |-> Read(id)']
      BY DEF ReadsBack
    <2>1. CASE id = buffer.id
      <3>1. [id |-> id, value |-> Read(id)'] = buffer
        BY <1>1, <1>3, <2>1
      <3>2. writing'[1] = buffer /\ 1 \in DOMAIN writing'
        BY <1>2, <1>3, Singles
      <3>3. QED
        BY <3>1, <3>2
    <2>2. CASE id # buffer.id
      <3>1. Read(id)' = Read(id)
        BY <1>1, <2>2
      <3>2. QED
        BY <1>2, <3>1 DEF Kept, ReadsBack
    <2>3. QED
      BY <2>1, <2>2
  <1>6. Kept'
    BY <1>1, <1>2, <1>3, <1>4, <1>5 DEF Kept
  <1>7. QED
    BY <1>1, <1>2, <1>3, <1>6 DEF Commits

LEMMA CopyKept ==
  ASSUME Careful, CInv, CInv', Kept, Program, statue # 0
  PROVE  Kept' /\ Unread
  <1>1. flash # <<>> /\ UNCHANGED <<ram, flash, past>>
    BY AtProgram DEF Program
  <1>2. idle = <<>>
    BY <1>1, AtFlash
  <1>3. CASE statue = 22
    <2>1. /\ Unread /\ Shadowed' /\ \E n \in 0..AreaBlocks : Prefix(n)'
          /\ \A n : n = Head(flash).size => Collected(n)'
      BY <1>3, ProgramFrame DEF Careful
    <2>2. Collected(Head(flash).size)'
      BY <1>1, <2>1 DEF Collected
    <2>3. QED
      BY <1>1, <1>2, <1>3, <2>1, <2>2, KeptAtWork
  <1>4. CASE statue = 24
    <2>1. Unread /\ \A n : n = Head(flash).size => Restored(n)'
      BY <1>4, ProgramBack
    <2>2. Restored(Head(flash).size)'
      BY <1>1, <2>1 DEF Restored
    <2>3. QED
      BY <1>1, <1>2, <1>4, <2>1, <2>2, KeptAtWork
  <1>5. QED
    BY <1>3, <1>4, AtProgram

LEMMA EraseKept ==
  ASSUME CInv, Ahead, Kept, Erase
  PROVE  Kept' /\ Unread
  <1>1. flash # <<>> /\ UNCHANGED <<ram, flash, past>>
    BY AtErase DEF Erase
  <1>2. idle = <<>>
    BY <1>1, AtFlash
  <1>3. CASE statue = 21
    <2>1. Unread /\ Shadowed' /\ \E n \in 0..AreaBlocks : Prefix(n)'
      BY <1>3, EraseCache
    <2>2. QED
      BY <1>1, <1>2, <1>3, <2>1, KeptAtWork
  <1>4. CASE statue = 23
    <2>1. Unread /\ Safe'
      BY <1>4, EraseArea
    <2>2. QED
      BY <1>1, <1>2, <1>4, <2>1, KeptAtWork
  <1>5. QED
    BY <1>3, <1>4, AtErase

\* The cache that was filled from the frame is good for every id.
LEMMA CollectedSafe ==
  ASSUME CInv, NEW n \in 0..PageBlocks, Collected(n), progress = n
  PROVE  Safe
  <1>1. DOMAIN cache = 1..PageBlocks /\ PageBlocks \in Nat /\ n \in Nat
    BY Domains, Fits
  <1>2. \A i \in 1..n : i \in Cache /\ cache[i] = frame[i]
    BY <1>1 DEF Collected, Cache
  <1>3. \A i \in Cache : i > n => cache[i] = Blank
    BY <1>1 DEF Collected, Cache
  <1>4. Distinct(cache, n)
    BY <1>2 DEF Collected, Distinct
  <1>5. ASSUME NEW id \in Id, Holds(area, id)
        PROVE  /\ Holds(cache, id)
               /\ area[Newest(area, id)].value = cache[Newest(cache, id)].value
    <2>1. PICK i \in 1..n : frame[i].id = id
      BY <1>5 DEF Collected
    <2>2. cache[i].id = id /\ i \in 1..PageBlocks /\ cache[i] = area[Newest(area, id)]
      BY <1>2, <2>1 DEF Collected, Cache
    <2>3. ASSUME NEW j \in 1..PageBlocks, cache[j].id = id PROVE j = i
      <3>1. cache[j] # Blank /\ j \in Cache
        BY <2>3, LayoutAssumption DEF Blank, Cache
      <3>2. j \in 1..n
        BY <1>1, <1>3, <3>1
      <3>3. QED
        BY <1>4, <2>1, <2>2, <2>3, <3>2 DEF Distinct
    <2>4. Newest(cache, id) = i
      BY <1>1, <2>2, <2>3, OnlyOne
    <2>5. Holds(cache, id)
      BY <1>1, <2>2 DEF Holds
    <2>6. QED
      BY <2>2, <2>4, <2>5
  <1>6. QED
    BY <1>3, <1>4, <1>5 DEF Safe

\* The area that was rewritten holds all that the cache does, from its start.
LEMMA RestoredShadowed ==
  ASSUME CInv, NEW n \in 0..PageBlocks, Restored(n), progress = n
  PROVE  Shadowed /\ n \in 0..AreaBlocks /\ Prefix(n)
  <1>1. /\ DOMAIN area = 1..AreaBlocks /\ DOMAIN cache = 1..PageBlocks
        /\ PageBlocks \in Nat /\ n \in Nat /\ AreaBlocks \in Nat
        /\ PageBlocks <= AreaBlocks
    BY Domains, Fits
  <1>2. ASSUME NEW b \in Area PROVE Used(area, b) <=> b <= n
    <2>1. area[b] = IF b <= n THEN cache[b] ELSE Blank
      BY DEF Restored
    <2>2. CASE b <= n
      <3>1. b \in 1..n
        BY <1>1, <2>2 DEF Area
      <3>2. area[b] \in Block
        BY <2>1, <2>2, <3>1 DEF Restored, Distinct
      <3>3. area[b].id # None
        BY <3>2, LayoutAssumption DEF Block
      <3>4. QED
        BY <2>2, <3>3 DEF Used
    <2>3. CASE ~(b <= n)
      BY <2>1, <2>3 DEF Used, Blank
    <2>4. QED
      BY <2>2, <2>3
  <1>3. ASSUME NEW id \in Id, Holds(cache, id) PROVE Holds(area, id)
    <2>1. PICK i \in 1..PageBlocks : cache[i].id = id
      BY <1>1, <1>3 DEF Holds
    <2>2. cache[i] # Blank /\ i \in Cache
      BY <2>1, LayoutAssumption DEF Blank, Cache
    <2>3. i <= n /\ i \in 1..AreaBlocks
      BY <1>1, <2>2 DEF Restored
    <2>4. area[i] = cache[i]
      BY <2>3 DEF Restored, Area
    <2>5. QED
      BY <1>1, <2>1, <2>3, <2>4 DEF Holds
  <1>4. QED
    BY <1>1, <1>2, <1>3 DEF Shadowed, Prefix

LEMMA FlashDoneKept ==
  ASSUME Careful, CInv, Ahead, Kept, FlashDone
  PROVE  Kept' /\ Unread
  <1> DEFINE op == Head(flash)
  <1>1. /\ flash # <<>> /\ progress' = 0 /\ progress = op.size
        /\ UNCHANGED zones /\ buffer' = buffer /\ writing' = writing /\ saved' = saved
    BY AtFlashDone DEF Careful, past
  <1>2. Planned(op) /\ area' = area /\ cache' = cache
    BY <1>1, AtFlash DEF zones
  <1>3. Unread /\ ReadsBack'
    BY <1>1, SameZones, SameReadsBack DEF Kept
  <1>4. CASE statue = 0 /\ statue' = 0 /\ flash' = <<>>
             /\ idle' = <<Todo("on_finish_ok", 0)>>
    <2>1. op.size = 1
      BY <1>2, <1>4, Fielded DEF Planned
    <2>2. Stored /\ Shadowed /\ \E n \in 0..AreaBlocks : Prefix(n)
      BY <1>1, <1>4, <2>1 DEF Kept
    <2>3. Stored'
      BY <1>1, <1>3, <2>2 DEF Stored, Unread
    <2>4. Shadowed' /\ \E n \in 0..AreaBlocks : Prefix(n)'
      BY <1>1, <2>2, SameShadow
    <2>5. Head(idle').func = "on_finish_ok"
      BY <1>4, Singles, Fielded
    <2>6. QED
      BY <1>3, <1>4, <2>3, <2>4, <2>5, KeptAtRest
  <1>5. CASE statue = 21 /\ CollectValid(<<>>) /\ idle' = <<>>
    <2>1. PICK n \in 0..PageBlocks :
            /\ frame' \in [1..n -> Block] /\ Distinct(frame', n)
            /\ flash' = <<Store("cache", "frame", 1, n)>> /\ statue' = 22
            /\ \A i \in 1..n : /\ Holds(area, frame'[i].id)
                               /\ frame'[i] = area[Newest(area, frame'[i].id)]
            /\ \A id \in Id : Holds(area, id) => \E i \in 1..n : frame'[i].id = id
      BY <1>5, CollectValidFrame
    <2>2. op.size = 1
      BY <1>2, <1>5, Fielded DEF Planned
    <2>3. \A b \in Cache : cache[b] = Blank
      BY <1>1, <1>5, <2>2, Domains, CellId DEF Ahead, Used
    <2>4. \A i \in Cache : cache'[i] = IF i <= progress' THEN frame'[i] ELSE Blank
      BY <1>1, <1>2, <2>3, Fits DEF Cache
    <2>5. Collected(n)'
      BY <1>2, <2>1, <2>4 DEF Collected
    <2>6. Head(flash').size = n
      BY <2>1, Singles, Fielded
    <2>7. Collected(Head(flash).size)'
      BY <2>5, <2>6 DEF Collected
    <2>8. Shadowed /\ \E k \in 0..AreaBlocks : Prefix(k)
      BY <1>5 DEF Kept
    <2>9. Shadowed' /\ \E k \in 0..AreaBlocks : Prefix(k)'
      BY <1>1, <2>8, SameShadow
    <2>10. QED
      BY <1>3, <1>5, <2>1, <2>7, <2>9 DEF Kept
  <1>6. CASE statue = 22 /\ ClearArea(<<>>) /\ idle' = <<>>
    <2>1. statue' = 23 /\ flash' # <<>>
      BY <1>6, Singles DEF ClearArea
    <2>2. op.size \in 0..PageBlocks
      BY <1>2, <1>6, Fielded DEF Planned
    <2>3. Collected(op.size)
      BY <1>1, <1>6 DEF Kept
    <2>4. Safe
      BY <1>1, <2>2, <2>3, CollectedSafe
    <2>5. Safe'
      BY <1>2, <2>4 DEF Safe, Holds, Newest, Distinct
    <2>6. QED
      BY <1>3, <1>6, <2>1, <2>5 DEF Kept
  <1>7. CASE statue = 23 /\ WriteBack(<<>>) /\ idle' = <<>>
    <2>1. op.size = AreaBlocks \div PageBlocks
      BY <1>2, <1>7, Fielded DEF Planned
    <2>2. \A b \in Area : area[b] = Blank
      BY <1>1, <1>7, <2>1, Pages, Domains, CellId DEF Ahead, Used
    <2>3. PICK n \in 0..PageBlocks :
            /\ Distinct(cache, n)
            /\ \A i \in Cache : i > n => cache[i] = Blank
      BY <1>1, <1>7 DEF Kept, Safe
    <2>4. PICK count \in 0..PageBlocks :
            /\ \A b \in 1..count : Used(cache, b)
            /\ count < PageBlocks => ~Used(cache, count + 1)
            /\ statue' = 24 /\ flash' = <<Store("area", "cache", 1, count)>>
      BY <1>7, Singles DEF WriteBack
    <2>5. PageBlocks \in Nat /\ n \in Nat /\ count \in Nat
      BY Fits
    <2>6. count <= n
      <3>1. \A b \in 1..count : b <= n
        <4> SUFFICES ASSUME NEW b \in 1..count, b > n PROVE FALSE
          BY <2>5
        <4>1. b \in Cache /\ Used(cache, b)
          BY <2>4, <2>5 DEF Cache
        <4>2. cache[b] = Blank
          BY <2>3, <4>1
        <4>3. QED
          BY <4>1, <4>2 DEF Used, Blank
      <3>2. QED
        BY <2>5, <3>1
    <2>7. ~(count < n)
      <3> SUFFICES ASSUME count < n PROVE FALSE
        OBVIOUS
      <3>1. count + 1 \in 1..n /\ count < PageBlocks
        BY <2>5
      <3>2. cache[count + 1] \in Block
        BY <2>3, <3>1 DEF Distinct
      <3>3. cache[count + 1].id # None
        BY <3>2, LayoutAssumption DEF Block
      <3>4. QED
        BY <2>4, <3>1, <3>3 DEF Used
    <2>8. count = n
      BY <2>5, <2>6, <2>7
    <2>9. \A b \in Area : area'[b] = IF b <= progress' THEN cache'[b] ELSE Blank
      BY <1>1, <1>2, <2>2, Fits DEF Area
    <2>10. Distinct(cache', n) /\ \A i \in Cache : i > n => cache'[i] = Blank
      BY <1>2, <2>3
    <2>11. Restored(n)'
      BY <2>9, <2>10 DEF Restored
    <2>12. Head(flash').size = n
      BY <2>4, <2>8, Singles, Fielded
    <2>13. Restored(Head(flash).size)'
      BY <2>11, <2>12 DEF Restored
    <2>14. flash' # <<>>
      BY <2>4, Singles
    <2>15. QED
      BY <1>3, <1>7, <2>4, <2>13, <2>14 DEF Kept
  <1>8. CASE statue = 24 /\ FindSpace(25, <<>>) /\ flash' = <<>>
    <2>1. op.size \in 0..PageBlocks
      BY <1>2, <1>8, Fielded DEF Planned
    <2>2. Restored(op.size)
      BY <1>1, <1>8 DEF Kept
    <2>3. Shadowed /\ \E n \in 0..AreaBlocks : Prefix(n)
      BY <1>1, <2>1, <2>2, RestoredShadowed
    <2>4. Shadowed' /\ \E n \in 0..AreaBlocks : Prefix(n)'
      BY <1>1, <2>3, SameShadow
    <2>5. CASE statue' = 25 /\ idle' = <<Todo("clear_cache", 0)>>
      <3>1. Head(idle').func = "clear_cache"
        BY <2>5, Singles, Fielded
      <3>2. QED
        BY <1>3, <1>8, <2>4, <2>5, <3>1, KeptAtRest
    <2>6. ASSUME NEW b \in Area, IsFirstFree(b), statue' = 0,
                 idle' = <<Todo("write_to_flash", b)>>
          PROVE  Kept' /\ Unread
      <3>1. Head(idle').func = "write_to_flash" /\ Head(idle').at = b
        BY <2>6, Singles, Fielded
      <3>2. IsFirstFree(b)'
        BY <1>2, <2>6, SameFirstFree
      <3>3. IsFirstFree(Head(idle).at)'
        BY <3>1, <3>2 DEF IsFirstFree
      <3>4. QED
        BY <1>3, <1>8, <2>4, <2>6, <3>1, <3>3, KeptAtRest
    <2>7. QED
      BY <1>8, <2>5, <2>6, Singles DEF FindSpace
  <1>9. QED
    BY <1>4, <1>5, <1>6, <1>7, <1>8, AtFlashDone

LEMMA PowerLossKept ==
  ASSUME Careful, CInv, Kept, PowerLoss
  PROVE  Kept' /\ Unread
  <1>1. /\ statue \notin {23, 24} /\ UNCHANGED zones
        /\ flash' = <<>> /\ idle' = <<>> /\ statue' = 0
    BY DEF PowerLoss, Careful
  <1>2. Unread
    BY <1>1, SameZones
  <1>3. ReadsBack'
    <2>1. \A id \in Id : Read(id)' = saved'[id]
      BY <1>2 DEF PowerLoss, Kept, ReadsBack, Unread
    <2>2. QED
      BY <2>1 DEF ReadsBack
  <1>4. Shadowed /\ \E n \in 0..AreaBlocks : Prefix(n)
    BY <1>1 DEF Kept
  <1>5. Shadowed' /\ \E n \in 0..AreaBlocks : Prefix(n)'
    BY <1>1, <1>4, SameShadow
  <1>6. QED
    BY <1>1, <1>2, <1>3, <1>5, KeptAtRest

LEMMA StepKept ==
  Careful /\ CInv /\ CInv' /\ Ahead /\ Kept /\ [Next]_vars => Kept'
  <1> SUFFICES ASSUME Careful, CInv, CInv', Ahead, Kept, [Next]_vars PROVE Kept'
    OBVIOUS
  <1>1. CASE UNCHANGED vars
    <2>1. /\ UNCHANGED zones /\ idle' = idle /\ flash' = flash /\ statue' = statue
          /\ frame' = frame /\ progress' = progress /\ buffer' = buffer
          /\ area' = area /\ cache' = cache /\ writing' = writing /\ saved' = saved
      BY <1>1 DEF vars, zones, ram, queue, past
    <2>2. Unread
      BY <2>1, SameZones
    <2>3. ReadsBack'
      BY <2>1, <2>2, SameReadsBack DEF Kept
    <2>4. Stored => Stored'
      BY <2>1, <2>2 DEF Stored, Unread
    <2>5. Collected(Head(flash).size) => Collected(Head(flash).size)'
      BY <2>1 DEF Collected, Holds, Newest
    <2>6. Safe => Safe'
      <3>1. area' = area /\ cache' = cache
        BY <2>1
      <3>2. \A id : /\ Newest(area, id)' = Newest(area, id)
                    /\ Newest(cache, id)' = Newest(cache, id)
        BY <3>1 DEF Newest
      <3>3. \A n : Distinct(cache, n) => Distinct(cache, n)'
        BY <3>1 DEF Distinct
      <3>4. QED
        BY <3>1, <3>2, <3>3 DEF Safe, Holds
    <2>7. Restored(Head(flash).size) => Restored(Head(flash).size)'
      BY <2>1 DEF Restored
    <2>8. Shadowed => Shadowed'
      BY <2>1 DEF Shadowed, Holds
    <2>9. \A n : Prefix(n) => Prefix(n)'
      BY <2>1 DEF Prefix, Used
    <2>10. /\ IsFirstFree(Head(idle).at) => IsFirstFree(Head(idle).at)'
           /\ IsFirstFree(Head(flash).at) => IsFirstFree(Head(flash).at)'
      BY <2>1 DEF IsFirstFree, Used
    <2>11. QED
      BY <2>1, <2>3, <2>4, <2>5, <2>6, <2>7, <2>8, <2>9, <2>10 DEF Kept
  <1>2. CASE Program
    BY <1>2, CommitKept, CopyKept
  <1>3. QED
    BY <1>1, <1>2, WriteKept, IdleKept, EraseKept, FlashDoneKept, PowerLossKept
       DEF Next, Flash

LEMMA AllKept == Careful => (Spec => [](CInv /\ Ahead /\ Kept))
  <1> SUFFICES ASSUME Careful PROVE Spec => [](CInv /\ Ahead /\ Kept)
    OBVIOUS
  <1>1. CInv /\ CInv' /\ Ahead /\ Kept /\ [Next]_vars => Kept'
    BY StepKept
  <1>2. Spec => [](CInv /\ Ahead)
    BY AheadKept DEF Careful
  <1>3. QED
    BY <1>1, <1>2, InitKept, PTL DEF Spec

\* A caller that waits for the end of its write, on flash that does not give up
\* and with a stack frame that survives, never loses a value it was told is
\* stored, whatever the settlements it takes and wherever the power fails
\* outside the rewriting of the area.
THEOREM NothingIsLost == Careful => (Spec => []ReadsBack)
  <1> SUFFICES ASSUME Careful PROVE Spec => []ReadsBack
    OBVIOUS
  <1>1. Kept => ReadsBack
    BY DEF Kept
  <1>2. QED
    BY <1>1, AllKept, PTL

-----------------------------------------------------------------------------
\* The warehouse implements its promise: each step is one of Warehouse, with the
\* value of an id the one that is read, or leaves what Warehouse sees alone.

Stored0  == [id \in Id |-> Read(id)]
Pending0 == {writing[i] : i \in DOMAIN writing}

LEMMA InitPromised == Init => Promise!Init
  <1> SUFFICES ASSUME Init PROVE Promise!Init
    OBVIOUS
  <1>1. \A id \in Id : ~Holds(area, id) /\ ~Holds(cache, id)
    BY LayoutAssumption DEF Init, Holds, Blank
  <1>2. \A id \in Id : Read(id) = None
    BY <1>1 DEF Read
  <1>3. DOMAIN writing = {} /\ outages = 0
    BY Singles DEF Init
  <1>4. QED
    BY <1>2, <1>3 DEF Promise!Init

\* Of a queue of one write, or of none.
LEMMA OnePending ==
  /\ writing = <<>> => Pending0 = {}
  /\ \A w : writing = <<w>> => Pending0 = {w}
  BY Singles DEF Pending0

LEMMA OnePendingNext ==
  /\ writing' = <<>> => Pending0' = {}
  /\ \A w : writing' = <<w>> => Pending0' = {w}
  BY Singles DEF Pending0

LEMMA SameStored ==
  ASSUME Unread
  PROVE  Stored0' = Stored0
BY DEF Unread, Stored0

\* The steps of Warehouse, on what it sees of this module.
LEMMA PromiseSteps ==
  ASSUME NEW w \in [id : Id, value : Value], outages' = outages
  PROVE  /\ (Pending0 = {} /\ Pending0' = {w} /\ Stored0' = Stored0)
              => Promise!Next
         /\ (w \in Pending0 /\ Pending0' = Pending0
             /\ Stored0' = [Stored0 EXCEPT ![w.id] = w.value])
              => Promise!Next
         /\ (w \in Pending0 /\ Pending0' = {} /\ Stored0[w.id] = w.value
             /\ Stored0' = Stored0)
              => Promise!Next
  <1>1. w \in Promise!Item
    BY DEF Promise!Item
  <1>2. Promise!Accept(w) \/ Promise!Commit(w) \/ Promise!Finish(w) => Promise!Next
    BY <1>1 DEF Promise!Next
  <1>3. (Pending0 = {} /\ Pending0' = {w} /\ Stored0' = Stored0) => Promise!Accept(w)
    BY DEF Promise!Accept, Stored0, Pending0
  <1>4. (w \in Pending0 /\ Pending0' = Pending0
         /\ Stored0' = [Stored0 EXCEPT ![w.id] = w.value]) => Promise!Commit(w)
    BY DEF Promise!Commit, Stored0, Pending0
  <1>5. (w \in Pending0 /\ Pending0' = {} /\ Stored0[w.id] = w.value
         /\ Stored0' = Stored0) => Promise!Finish(w)
    BY DEF Promise!Finish, Stored0, Pending0
  <1>6. QED
    BY <1>2, <1>3, <1>4, <1>5

LEMMA StepPromised ==
  Careful /\ CInv /\ CInv' /\ Ahead /\ Kept /\ [Next]_vars
    => [Promise!Next]_<<Stored0, Pending0, outages>>
  <1> SUFFICES ASSUME Careful, CInv, CInv', Ahead, Kept, [Next]_vars
               PROVE  Promise!Next \/ UNCHANGED <<Stored0, Pending0, outages>>
    OBVIOUS
  <1>1. ASSUME NEW id \in Id, NEW v \in Value, Write(id, v) PROVE Promise!Next
    <2> DEFINE w == [id |-> id, value |-> v]
    <2>1. writing = <<>> /\ writing' = <<w>> /\ outages' = outages
      BY <1>1, AtWrite DEF Careful, Resting, Write
    <2>2. Stored0' = Stored0
      BY <1>1, WriteKept, SameStored
    <2>3. w \in [id : Id, value : Value]
      OBVIOUS
    <2> HIDE DEF w
    <2>4. Pending0 = {} /\ Pending0' = {w}
      BY <2>1, OnePending, OnePendingNext
    <2>5. QED
      BY <2>1, <2>2, <2>3, <2>4, PromiseSteps
  <1>2. CASE StartFindSpace \/ WriteToFlash \/ ClearCache
    <2>1. Stored0' = Stored0
      BY <1>2, IdleKept, SameStored DEF DispatchIdle
    <2>2. writing' = writing /\ outages' = outages
      BY <1>2 DEF StartFindSpace, WriteToFlash, ClearCache, past
    <2>3. QED
      BY <2>1, <2>2 DEF Pending0
  <1>3. CASE OnFinishOk
    <2>1. /\ writing = <<buffer>> /\ buffer \in [id : Id, value : Value]
          /\ writing' = <<>> /\ outages' = outages /\ idle # <<>>
          /\ Head(idle).func = "on_finish_ok"
      BY <1>3, AtFinish DEF OnFinishOk, Starts
    <2>2. Stored0' = Stored0
      BY <1>3, IdleKept, SameStored DEF DispatchIdle
    <2>3. Stored0[buffer.id] = buffer.value
      BY <2>1 DEF Kept, Stored, Stored0
    <2>4. Pending0 = {buffer} /\ Pending0' = {}
      BY <2>1, OnePending, OnePendingNext
    <2>5. QED
      BY <2>1, <2>2, <2>3, <2>4, PromiseSteps
  <1>4. CASE Program /\ statue = 0
    <2>1. Commits
      BY <1>4, CommitKept
    <2>2. Stored0' = [Stored0 EXCEPT ![buffer.id] = buffer.value]
      BY <2>1 DEF Commits, Stored0
    <2>3. Pending0 = {buffer} /\ Pending0' = {buffer}
      BY <2>1, OnePending, OnePendingNext DEF Commits
    <2>4. outages' = outages
      BY <1>4 DEF Program, past
    <2>5. QED
      BY <2>1, <2>2, <2>3, <2>4, PromiseSteps DEF Commits
  <1>5. CASE Program /\ statue # 0
    <2>1. Stored0' = Stored0
      BY <1>5, CopyKept, SameStored
    <2>2. QED
      BY <1>5, <2>1 DEF Program, past, Pending0
  <1>6. CASE Erase
    <2>1. Stored0' = Stored0
      BY <1>6, EraseKept, SameStored
    <2>2. QED
      BY <1>6, <2>1 DEF Erase, past, Pending0
  <1>7. CASE FlashDone
    <2>1. Stored0' = Stored0
      BY <1>7, FlashDoneKept, SameStored
    <2>2. QED
      BY <1>7, <2>1 DEF FlashDone, past, Pending0
  <1>8. CASE PowerLoss
    <2>1. Stored0' = Stored0
      BY <1>8, PowerLossKept, SameStored
    <2>2. outages' # outages
      BY <1>8 DEF PowerLoss, CInv, Fields
    <2>3. Pending0' = {}
      BY <1>8, OnePendingNext DEF PowerLoss
    <2>4. Promise!Outage
      BY <2>1, <2>2, <2>3 DEF Promise!Outage, Stored0, Pending0
    <2>5. QED
      BY <2>4 DEF Promise!Next
  <1>9. CASE UNCHANGED vars
    <2>1. UNCHANGED zones /\ writing' = writing /\ outages' = outages
      BY <1>9 DEF vars, past
    <2>2. Stored0' = Stored0
      BY <2>1, SameZones, SameStored
    <2>3. QED
      BY <2>1, <2>2 DEF Pending0
  <1>10. QED
    BY <1>1, <1>2, <1>3, <1>4, <1>5, <1>6, <1>7, <1>8, <1>9 DEF Next, DispatchIdle, Flash

\* For such a caller the warehouse is a table that is replaced in one step per
\* write, before data_storage_on_finish is called, and that no settlement, no
\* start of another step and no power loss changes.
THEOREM ImplementsWarehouse == Careful => (Spec => KeepsPromise)
  <1> SUFFICES ASSUME Careful PROVE Spec => KeepsPromise
    OBVIOUS
  <1>1. CInv /\ CInv' /\ Ahead /\ Kept /\ [Next]_vars
          => [Promise!Next]_<<[id \in Id |-> Read(id)],
                              {writing[i] : i \in DOMAIN writing}, outages>>
    BY StepPromised DEF Stored0, Pending0
  <1>2. Spec => [](CInv /\ Ahead /\ Kept)
    BY AllKept
  <1>3. QED
    BY <1>1, <1>2, InitPromised, PTL DEF Spec, KeepsPromise, Promise!Spec
=============================================================================
