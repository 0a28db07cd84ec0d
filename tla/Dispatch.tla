------------------------------ MODULE Dispatch ------------------------------
(***************************************************************************)
(* The task dispatcher of the firmware (src/Platform/Juma/dispatch.c) and  *)
(* the main loop that drives it (src/Platform/Juma/device_main.c, main).   *)
(*                                                                         *)
(* PoolSize operation blocks are threaded through three singly linked      *)
(* lists: the free list, the list of timed operations kept in time order,  *)
(* and the first-in first-out list of idle operations.  The model keeps    *)
(* the lists as the code does, as head, tail and next pointers, because    *)
(* what can go wrong here goes wrong in the pointers: a block keeps its    *)
(* next pointer when it goes back to the free list, so the pointer of the  *)
(* last free block is stale.                                               *)
(*                                                                         *)
(* A call of run_when_idle or run_at_time is one step here, wherever it    *)
(* comes from (a running operation, an interrupt, the serial callback of   *)
(* the main loop): the calls mask no interrupts, but a model of what their *)
(* statements may do to each other is not part of this module.             *)
(***************************************************************************)
EXTENDS Integers, FiniteSets

CONSTANTS
  PoolSize,   \* DISPATCH_OP_POOL_SIZE: number of operation blocks (32)
  TimeMod,    \* the RTC counts modulo TimeMod (2^24)
  MinDelay,   \* MIN_RTC_DELAY (3)
  Task,       \* the functions callers register (a func/args pair)
  NoTask,     \* the null function of a block never used
  Delay,      \* how far ahead of now a caller sets a timed operation
  MaxLag,     \* bound: how late a queued operation gets while awake
  Posts,      \* which context registers which kind: pairs <<context, kind>>
  Overcommit  \* TRUE: callers may take the last free block

NULL == 0
Op   == 1..PoolSize
Ptr  == Op \cup {NULL}
Time == 0..(TimeMod - 1)

Queue   == {"free", "timer", "main"}
Context == {"idle", "timer", "interrupt", "serial"}

ASSUME PoolAssumption == PoolSize \in Nat \ {0}
ASSUME ClockAssumption ==
  /\ TimeMod \in Nat
  /\ TimeMod > 3
  /\ MinDelay \in Nat
  /\ MaxLag \in Nat
  /\ Delay \subseteq Nat
ASSUME ClientAssumption ==
  /\ Posts \subseteq Context \X {"idle", "timer"}
  /\ Overcommit \in BOOLEAN

VARIABLES
  next,     \* operation_t.next of every block
  func,     \* operation_t.func and args of every block
  time,     \* operation_t.timestamp of every block
  head,     \* head pointer of each queue
  tail,     \* tail pointer of each queue
  now,      \* NRF_RTC1->COUNTER
  cc,       \* NRF_RTC1->CC[0]
  wake,     \* an event that ends sd_app_evt_wait is latched
  line,     \* where the main thread is
  sel,      \* the queue dispatch()'s local pointer q points at
  more,     \* dispatch()'s local flag
  cur,      \* the block whose function is running, NULL if none
  pending   \* tasks registered and not yet started (history)

blocks == <<next, func, time>>
lists  == <<head, tail>>
thread == <<line, sel, more, cur>>
vars   == <<blocks, lists, thread, now, cc, wake, pending>>

-----------------------------------------------------------------------------
\* Time and the compare register.

\* Mutant of Later: compares without regard to the wrap of the counter.
LaterUnwrapped(t1, t2) == t1 >= t2

\* LATTER_THAN: t1 is t2 or later, in the window of half a turn.
Later(t1, t2) == (t1 - t2) % TimeMod < TimeMod \div 2 - 1

Shift(t, d) == (t + d) % TimeMod

\* Mutant of ResetRtc: the compare value may already have passed.
ResetRtcUnclamped(first, stamp) ==
  cc' = IF first = NULL THEN Shift(now, -1) ELSE stamp[first]

\* reset_rtc: the next compare is the head's time, at least MinDelay ahead.
ResetRtc(first, stamp) ==
  LET earliest == Shift(now, MinDelay)
  IN cc' = IF first = NULL THEN Shift(now, -1)
           ELSE IF Later(stamp[first], earliest) THEN stamp[first]
           ELSE earliest

-----------------------------------------------------------------------------
\* The operation pool.

\* The blocks of a list from its head to its tail.
Block(q) ==
  {o \in Op : \A S \in SUBSET Op :
     /\ head[q] \in S \cup {NULL}
     /\ \A x \in S : x = tail[q] \/ next[x] \in S \cup {NULL}
     => o \in S}

\* allocate: the head of the free list and the list it leaves behind.
Allocated  == head["free"]
HeadsLeft  == [head EXCEPT !["free"] = next[Allocated]]
TailsLeft  == IF next[Allocated] = NULL THEN [tail EXCEPT !["free"] = NULL]
                                        ELSE tail

\* The tail of dispatch_head_op: append the block to the free list.  Its own
\* next pointer is left as it is.
Free(o) ==
  LET last == tail["free"] IN
  /\ next' = IF last = NULL THEN next ELSE [next EXCEPT ![last] = o]
  /\ head' = IF last = NULL THEN [head EXCEPT !["free"] = o] ELSE head
  /\ tail' = [tail EXCEPT !["free"] = o]
  /\ UNCHANGED <<func, time>>

-----------------------------------------------------------------------------
\* Registering an operation.

\* Mutant of RunWhenIdle: the block keeps its next pointer from the free list.
RunWhenIdleStale(f) ==
  LET o == Allocated
      last == tail["main"]
  IN /\ o # NULL
     /\ func' = [func EXCEPT ![o] = f]
     /\ time' = [time EXCEPT ![o] = 0]
     /\ next' = IF last = NULL THEN next ELSE [next EXCEPT ![last] = o]
     /\ head' = IF last = NULL THEN [HeadsLeft EXCEPT !["main"] = o]
                               ELSE HeadsLeft
     /\ tail' = [TailsLeft EXCEPT !["main"] = o]

RunWhenIdle(f) ==
  LET o    == Allocated
      last == tail["main"]
      own  == [next EXCEPT ![o] = NULL]
  IN \/ /\ o = NULL
        /\ UNCHANGED <<blocks, lists>>
     \/ /\ o # NULL
        /\ func' = [func EXCEPT ![o] = f]
        /\ time' = [time EXCEPT ![o] = 0]
        /\ next' = IF last = NULL THEN own ELSE [own EXCEPT ![last] = o]
        /\ head' = IF last = NULL THEN [HeadsLeft EXCEPT !["main"] = o]
                                  ELSE HeadsLeft
        /\ tail' = [TailsLeft EXCEPT !["main"] = o]

\* Mutant of Stops: the comparison is the wrong way round.
StopsReversed(o, t, stamp) == next[o] # NULL => Later(t, stamp[next[o]])

\* The walk of run_at_time stops at the block after which t belongs.
Stops(o, t, stamp) == next[o] # NULL => Later(stamp[next[o]], t)

\* The blocks the walk visits.
Visited(t, stamp) ==
  {o \in Op : \A S \in SUBSET Op :
     (head["timer"] \in S /\ \A x \in S : Stops(x, t, stamp) \/ next[x] \in S)
        => o \in S}

InsertFirst(o) ==
  /\ next' = [next EXCEPT ![o] = head["timer"]]
  /\ head' = [HeadsLeft EXCEPT !["timer"] = o]
  /\ tail' = IF tail["timer"] = NULL THEN [TailsLeft EXCEPT !["timer"] = o]
                                     ELSE TailsLeft

\* Mutant of InsertAfter: a block inserted last does not become the tail.
InsertAfterOldTail(o, before) ==
  /\ next' = [next EXCEPT ![o] = next[before], ![before] = o]
  /\ head' = HeadsLeft
  /\ tail' = TailsLeft

InsertAfter(o, before) ==
  /\ next' = [next EXCEPT ![o] = next[before], ![before] = o]
  /\ head' = HeadsLeft
  /\ tail' = IF tail["timer"] = before THEN [TailsLeft EXCEPT !["timer"] = o]
                                       ELSE TailsLeft

Insert(o, t, stamp) ==
  LET first   == head["timer"]
      atFront == first # NULL => Later(stamp[first], t)
  IN \/ /\ atFront
        /\ InsertFirst(o)
     \/ /\ ~atFront
        /\ \E before \in Visited(t, stamp) :
             /\ Stops(before, t, stamp)
             /\ InsertAfter(o, before)

RunAtTime(f, t) ==
  LET o == Allocated IN
  \/ /\ o = NULL
     /\ UNCHANGED <<blocks, lists, cc>>
  \/ /\ o # NULL
     /\ func' = [func EXCEPT ![o] = f]
     /\ time' = [time EXCEPT ![o] = t]
     /\ Insert(o, t, time')
     /\ ResetRtc(head'["timer"], time')

-----------------------------------------------------------------------------
\* Who registers operations.  An interrupt may come at any point and leaves an
\* event behind; the others are calls of the main thread.

Calling(c) ==
  \/ c = "interrupt"
  \/ c = "serial" /\ line = "serial"
  \/ c = "idle"   /\ line = "func" /\ sel = "main"
  \/ c = "timer"  /\ line = "func" /\ sel = "timer"

\* Callers that leave a block in reserve never take the last free one.
MayAllocate == Overcommit \/ head["free"] # tail["free"]

Register(c, kind, f) ==
  /\ <<c, kind>> \in Posts
  /\ Calling(c)
  /\ f \notin pending
  /\ MayAllocate
  /\ pending' = pending \cup {f}
  /\ wake' = (wake \/ c = "interrupt")
  /\ UNCHANGED <<thread, now>>

PostIdle(c, f) ==
  /\ Register(c, "idle", f)
  /\ RunWhenIdle(f)
  /\ UNCHANGED cc

PostTimed(c, f, d) ==
  /\ Register(c, "timer", f)
  /\ RunAtTime(f, Shift(now, d))

-----------------------------------------------------------------------------
\* The main thread: main()'s loop and dispatch().

\* sd_app_evt_wait returns, the loop comes round and dispatch() starts.
Wake ==
  /\ line = "wait"
  /\ wake
  /\ wake' = FALSE
  /\ line' = "due"
  /\ sel' = "timer"
  /\ more' = FALSE
  /\ UNCHANGED <<blocks, lists, cur, now, cc, pending>>

\* Mutants of StartHead: the block is read after the list has moved on; the
\* tail of an emptied list is kept.
StartHeadPopped(q) ==
  LET o == head[q] IN
  /\ cur' = next[o]
  /\ head' = [head EXCEPT ![q] = next[o]]
  /\ tail' = IF next[o] = NULL THEN [tail EXCEPT ![q] = NULL] ELSE tail
  /\ pending' = pending \ {func[o]}
  /\ line' = "func"
  /\ UNCHANGED <<blocks, sel, now, cc, wake>>

StartHeadKeepsTail(q) ==
  LET o == head[q] IN
  /\ cur' = o
  /\ head' = [head EXCEPT ![q] = next[o]]
  /\ pending' = pending \ {func[o]}
  /\ line' = "func"
  /\ UNCHANGED <<tail, blocks, sel, now, cc, wake>>

\* dispatch_head_op up to the call of the function.
StartHead(q) ==
  LET o == head[q] IN
  /\ cur' = o
  /\ head' = [head EXCEPT ![q] = next[o]]
  /\ tail' = IF next[o] = NULL THEN [tail EXCEPT ![q] = NULL] ELSE tail
  /\ pending' = pending \ {func[o]}
  /\ line' = "func"
  /\ UNCHANGED <<blocks, sel, now, cc, wake>>

\* The inner loop: q is timerq only in the first round of a dispatch().
HeadIsDue == head[sel] # NULL /\ Later(now, time[head[sel]])

RunDue ==
  /\ line = "due"
  /\ HeadIsDue
  /\ StartHead(sel)
  /\ more' = TRUE

NothingDue ==
  /\ line = "due"
  /\ ~HeadIsDue
  /\ line' = "pick"
  /\ sel' = "main"
  /\ UNCHANGED <<blocks, lists, more, cur, now, cc, wake, pending>>

\* One idle operation, then another round, which clears the flag.
PickIdle ==
  /\ line = "pick"
  /\ head["main"] # NULL
  /\ StartHead("main")
  /\ more' = FALSE

\* Mutant of PickNothing: the flag is cleared once, before the outer loop.
PickNothingKeepsFlag ==
  /\ line = "pick"
  /\ head["main"] = NULL
  /\ line' = IF more THEN "due" ELSE "reset"
  /\ UNCHANGED <<blocks, lists, sel, more, cur, now, cc, wake, pending>>

PickNothing ==
  /\ line = "pick"
  /\ head["main"] = NULL
  /\ line' = IF more THEN "due" ELSE "reset"
  /\ more' = FALSE
  /\ UNCHANGED <<blocks, lists, sel, cur, now, cc, wake, pending>>

\* The function returns and its block is freed.
Return ==
  /\ line = "func"
  /\ Free(cur)
  /\ cur' = NULL
  /\ line' = "due"
  /\ UNCHANGED <<sel, more, now, cc, wake, pending>>

\* dispatch() ends with reset_rtc, then main() calls serial_get.
Finish ==
  /\ line = "reset"
  /\ ResetRtc(head["timer"], time)
  /\ line' = "serial"
  /\ UNCHANGED <<blocks, lists, sel, more, cur, now, wake, pending>>

\* Mutant of Sleep: events latched since the last wait are dropped.
SleepDropsEvents ==
  /\ line = "serial"
  /\ line' = "wait"
  /\ wake' = FALSE
  /\ UNCHANGED <<blocks, lists, sel, more, cur, now, cc, pending>>

\* serial_get returns; sd_app_evt_wait puts the processor to sleep.
Sleep ==
  /\ line = "serial"
  /\ line' = "wait"
  /\ UNCHANGED <<blocks, lists, sel, more, cur, now, cc, wake, pending>>

MainThread ==
  Wake \/ RunDue \/ NothingDue \/ PickIdle \/ PickNothing \/ Return
       \/ Finish \/ Sleep

-----------------------------------------------------------------------------
\* The clock.  Reaching CC[0] raises the RTC interrupt, which clears the event
\* and leaves the processor awake.

Lag(o) == IF Later(now, time[o]) THEN (now - time[o]) % TimeMod ELSE 0

Tick ==
  /\ ~(line = "wait" /\ ~wake) => \A o \in Block("timer") : Lag(o) < MaxLag
  /\ now' = Shift(now, 1)
  /\ wake' = (wake \/ now' = cc)
  /\ UNCHANGED <<blocks, lists, thread, cc, pending>>

-----------------------------------------------------------------------------
\* dispatch_init.  main() calls dispatch() once before it first waits, which is
\* the initial wake; operations on_ready registers before that count as an
\* interrupt's.

Init ==
  /\ next = [o \in Op |-> IF o = PoolSize THEN NULL ELSE o + 1]
  /\ func = [o \in Op |-> NoTask]
  /\ time = [o \in Op |-> 0]
  /\ head = [q \in Queue |-> IF q = "free" THEN 1 ELSE NULL]
  /\ tail = [q \in Queue |-> IF q = "free" THEN PoolSize ELSE NULL]
  /\ now = 0
  /\ cc = 0
  /\ wake = TRUE
  /\ line = "wait"
  /\ sel = "timer"
  /\ more = FALSE
  /\ cur = NULL
  /\ pending = {}

Callers == \E c \in Context, f \in Task :
             PostIdle(c, f) \/ \E d \in Delay : PostTimed(c, f, d)

Next == MainThread \/ Callers \/ Tick

Spec == Init /\ [][Next]_vars

-----------------------------------------------------------------------------
\* Properties.

\* The pointers point at blocks, the timestamps and the compare value fit the
\* counter, and a block is running exactly while the main thread is inside the
\* function of dispatch_head_op.
TypeOK ==
  /\ next \in [Op -> Ptr]
  /\ func \in [Op -> Task \cup {NoTask}]
  /\ time \in [Op -> Time]
  /\ head \in [Queue -> Ptr]
  /\ tail \in [Queue -> Ptr]
  /\ now \in Time
  /\ cc \in Time
  /\ wake \in BOOLEAN
  /\ line \in {"wait", "due", "pick", "func", "reset", "serial"}
  /\ sel \in {"timer", "main"}
  /\ more \in BOOLEAN
  /\ cur \in Ptr
  /\ (line = "func") <=> (cur # NULL)
  /\ pending \subseteq Task

Running == {cur} \ {NULL}

\* Every block is in exactly one place: on one list, or running.  allocate
\* never hands out a block that is still queued, and no block leaks, although
\* the next pointer of a freed block is never cleared.
Partition ==
  /\ \A p, q \in Queue : p # q => Block(p) \cap Block(q) = {}
  /\ \A q \in Queue : cur \notin Block(q)
  /\ Op = Running \cup UNION {Block(q) : q \in Queue}

\* A registered task stays registered until it is started: a queued block
\* carries it.  run_when_idle and run_at_time return nothing, so a caller has
\* no other way to know.
NothingLost ==
  \A f \in pending : \E o \in Block("main") \cup Block("timer") : func[o] = f

\* The timer list is sorted across the wrap of the 24-bit counter, which is
\* what lets dispatch() look at its head only.
TimersInOrder ==
  \A o \in Block("timer") :
    o # tail["timer"] => Later(time[next[o]], time[o])

\* While the processor sleeps with no event latched, the compare register is
\* ahead of the clock by no more than MinDelay or the wait for the operation:
\* no timed operation is slept through, whoever registered it and when.
AlarmArmed ==
  line = "wait" /\ ~wake =>
    \A o \in Block("timer") :
      LET sleep == (cc - now) % TimeMod
      IN \/ sleep <= MinDelay
         \/ ~Later(now, time[o]) /\ sleep <= (time[o] - now) % TimeMod

\* The processor never sleeps on a registered idle operation.
IdleDrained == line = "wait" /\ ~wake => head["main"] = NULL

-----------------------------------------------------------------------------
\* The inductive invariant behind Partition: the pointers agree with a
\* labelling of the blocks, own (the list a block is on, or "running") and pos
\* (consecutive numbers along each list).  The next pointer of the last free
\* block is unconstrained: nothing in the code resets it.

Chained(q, first, last, link, own, pos) ==
  LET On(o) == o \in Op /\ own[o] = q IN
  /\ first = NULL => last = NULL /\ \A o \in Op : ~On(o)
  /\ first # NULL => On(first) /\ On(last)
  /\ \A o \in Op : On(o) => pos[first] <= pos[o] /\ pos[o] <= pos[last]
  /\ \A o \in Op : On(o) /\ o # last => On(link[o]) /\ pos[link[o]] = pos[o] + 1
  /\ \A a, b \in Op : On(a) /\ On(b) /\ pos[a] = pos[b] => a = b
  /\ q # "free" /\ last # NULL => link[last] = NULL

Chain(q, own, pos) == Chained(q, head[q], tail[q], next, own, pos)

Linked(own, pos) ==
  /\ own \in [Op -> Queue \cup {"running"}]
  /\ pos \in [Op -> Int]
  /\ \A o \in Op : own[o] = "running" <=> o = cur
  /\ \A q \in Queue : Chain(q, own, pos)

\* The labelling that the pointers themselves give: the list a block is on,
\* and how many blocks of it lie on the way from its head to this one.
Owner == [o \in Op |-> IF o = cur THEN "running"
                       ELSE CHOOSE q \in Queue : o \in Block(q)]
Leads(x, o, q) ==
  \A S \in SUBSET Op :
    x \in S /\ (\A y \in S : y = tail[q] \/ next[y] \in S \cup {NULL}) => o \in S
Place == [o \in Op |->
            IF o = cur THEN 0
            ELSE Cardinality({x \in Block(Owner[o]) : Leads(x, o, Owner[o])})]

\* Head, tail and next pointers of the three lists agree: every list runs from
\* its head to its tail without a branch, a loop or a gap, and ends in a null
\* pointer where the code looks for one.
ListsLinked == Linked(Owner, Place)

=============================================================================
