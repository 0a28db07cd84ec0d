--------------------------- MODULE DispatchProofs ---------------------------
(***************************************************************************)
(* Theorems about Dispatch, for every pool size, clock, set of tasks and   *)
(* choice of callers.                                                      *)
(*                                                                         *)
(* The lists are pointers, so the inductive invariant speaks of a labelling *)
(* of the blocks: own gives the list a block is on, and pos numbers the    *)
(* blocks of a list in link order.  Linked says that the pointers agree    *)
(* with the labelling; every step has a new labelling.  The second part is *)
(* about the timed operations, whose blocks get one more label; the third  *)
(* shows that the lists implement Scheduler.                               *)
(***************************************************************************)
EXTENDS DispatchRefines, FiniteSetTheorems, SequenceTheorems, WellFoundedInduction,
        TLAPS

LEMMA ModRange ==
  ASSUME NEW t \in Int
  PROVE  t % TimeMod \in Time
  BY ClockAssumption DEF Time

LEMMA ShiftTime ==
  ASSUME NEW t \in Int, NEW d \in Int
  PROVE  Shift(t, d) \in Time
  BY ModRange DEF Shift

(***************************************************************************)
(* Type correctness.                                                       *)
(***************************************************************************)
LEMMA RunWhenIdleType ==
  ASSUME TypeOK, NEW f \in Task, RunWhenIdle(f)
  PROVE  /\ next' \in [Op -> Ptr]
         /\ func' \in [Op -> Task \cup {NoTask}]
         /\ time' \in [Op -> Time]
         /\ head' \in [Queue -> Ptr]
         /\ tail' \in [Queue -> Ptr]
  <1>1. 0 \in Time
    BY ClockAssumption DEF Time
  <1>2. CASE Allocated = NULL
    BY <1>2 DEF RunWhenIdle, TypeOK, blocks, lists
  <1>3. CASE Allocated # NULL
    <2>1. Allocated \in Op
      BY <1>3 DEF TypeOK, Allocated, Queue, Ptr
    <2>2. HeadsLeft \in [Queue -> Ptr] /\ TailsLeft \in [Queue -> Ptr]
      BY <2>1 DEF TypeOK, HeadsLeft, TailsLeft, Ptr
    <2>3. QED
      BY <1>1, <1>3, <2>1, <2>2 DEF RunWhenIdle, TypeOK, Queue, Ptr
  <1>4. QED
    BY <1>2, <1>3

LEMMA ResetRtcType ==
  ASSUME NEW first \in Ptr, NEW stamp \in [Op -> Time], TypeOK,
         ResetRtc(first, stamp)
  PROVE  cc' \in Time
  <1>1. Shift(now, MinDelay) \in Time /\ Shift(now, -1) \in Time
    BY ShiftTime, ClockAssumption DEF TypeOK, Time
  <1>2. QED
    BY <1>1 DEF ResetRtc, Ptr

LEMMA InsertType ==
  ASSUME TypeOK, NEW o \in Op, o = Allocated, NEW t, NEW stamp,
         Insert(o, t, stamp)
  PROVE  /\ next' \in [Op -> Ptr]
         /\ head' \in [Queue -> Ptr]
         /\ tail' \in [Queue -> Ptr]
  <1>1. HeadsLeft \in [Queue -> Ptr] /\ TailsLeft \in [Queue -> Ptr]
    BY DEF TypeOK, HeadsLeft, TailsLeft, Ptr
  <1>2. CASE InsertFirst(o)
    BY <1>1, <1>2 DEF InsertFirst, TypeOK, Queue, Ptr
  <1>3. ASSUME NEW before \in Visited(t, stamp), InsertAfter(o, before)
        PROVE  /\ next' \in [Op -> Ptr]
               /\ head' \in [Queue -> Ptr]
               /\ tail' \in [Queue -> Ptr]
    <2>1. before \in Op
      BY DEF Visited
    <2>2. QED
      BY <1>1, <1>3, <2>1 DEF InsertAfter, TypeOK, Queue, Ptr
  <1>4. QED
    BY <1>2, <1>3 DEF Insert

LEMMA RunAtTimeType ==
  ASSUME TypeOK, NEW f \in Task, NEW t \in Time, RunAtTime(f, t)
  PROVE  /\ next' \in [Op -> Ptr]
         /\ func' \in [Op -> Task \cup {NoTask}]
         /\ time' \in [Op -> Time]
         /\ head' \in [Queue -> Ptr]
         /\ tail' \in [Queue -> Ptr]
         /\ cc' \in Time
  <1>1. CASE Allocated = NULL
    BY <1>1 DEF RunAtTime, TypeOK, blocks, lists
  <1>2. CASE Allocated # NULL
    <2>1. Allocated \in Op
      BY <1>2 DEF TypeOK, Allocated, Queue, Ptr
    <2>2. /\ func' \in [Op -> Task \cup {NoTask}]
          /\ time' \in [Op -> Time]
          /\ Insert(Allocated, t, time')
          /\ ResetRtc(head'["timer"], time')
      BY <1>2 DEF RunAtTime, TypeOK
    <2>3. /\ next' \in [Op -> Ptr]
          /\ head' \in [Queue -> Ptr]
          /\ tail' \in [Queue -> Ptr]
      BY <2>1, <2>2, InsertType
    <2>4. cc' \in Time
      <3>1. head'["timer"] \in Ptr
        BY <2>3 DEF Queue
      <3>2. QED
        BY <2>2, <3>1, ResetRtcType
    <2>5. QED
      BY <2>2, <2>3, <2>4
  <1>3. QED
    BY <1>1, <1>2

LEMMA StartHeadType ==
  ASSUME TypeOK, NEW q \in Queue, head[q] # NULL, StartHead(q)
  PROVE  /\ head' \in [Queue -> Ptr]
         /\ tail' \in [Queue -> Ptr]
         /\ cur' \in Op
         /\ line' = "func"
         /\ pending' \subseteq Task
         /\ UNCHANGED <<next, func, time, now, cc, wake>>
  <1>1. head[q] \in Op
    BY DEF TypeOK, Ptr
  <1>2. QED
    BY <1>1 DEF StartHead, TypeOK, blocks, Ptr

LEMMA InitTyped == Init => TypeOK
  <1> SUFFICES ASSUME Init PROVE TypeOK
    OBVIOUS
  <1>1. 0 \in Time
    BY ClockAssumption DEF Time
  <1>2. next \in [Op -> Ptr]
    BY PoolAssumption DEF Init, Op, Ptr, NULL
  <1>3. 1 \in Ptr /\ PoolSize \in Ptr /\ NULL \in Ptr
    BY PoolAssumption DEF Op, Ptr
  <1>4. QED
    BY <1>1, <1>2, <1>3 DEF Init, TypeOK

\* Every pointer, time and flag has its type, whatever the callers do.
THEOREM TypeCorrect == Spec => []TypeOK
  <1>1. Init => TypeOK
    BY InitTyped
  <1>2. TypeOK /\ [Next]_vars => TypeOK'
    <2> SUFFICES ASSUME TypeOK, [Next]_vars PROVE TypeOK'
      OBVIOUS
    <2>1. CASE Wake
      BY <2>1 DEF Wake, TypeOK, blocks, lists
    <2>2. CASE RunDue
      <3>1. sel \in Queue /\ head[sel] # NULL /\ StartHead(sel)
        BY <2>2 DEF RunDue, HeadIsDue, TypeOK, Queue
      <3>2. sel' = sel /\ more' = TRUE
        BY <2>2 DEF RunDue, StartHead
      <3>3. /\ head' \in [Queue -> Ptr]
            /\ tail' \in [Queue -> Ptr]
            /\ cur' \in Op
            /\ line' = "func"
            /\ pending' \subseteq Task
            /\ UNCHANGED <<next, func, time, now, cc, wake>>
        BY <3>1, StartHeadType
      <3>4. cur' \in Ptr /\ cur' # NULL
        BY <3>3 DEF Op, Ptr, NULL
      <3>5. QED
        BY <3>2, <3>3, <3>4 DEF TypeOK
    <2>3. CASE NothingDue
      BY <2>3 DEF NothingDue, TypeOK, blocks, lists
    <2>4. CASE PickIdle
      <3>1. "main" \in Queue /\ head["main"] # NULL /\ StartHead("main")
        BY <2>4 DEF PickIdle, Queue
      <3>2. sel' = sel /\ more' = FALSE
        BY <2>4 DEF PickIdle, StartHead
      <3>3. /\ head' \in [Queue -> Ptr]
            /\ tail' \in [Queue -> Ptr]
            /\ cur' \in Op
            /\ line' = "func"
            /\ pending' \subseteq Task
            /\ UNCHANGED <<next, func, time, now, cc, wake>>
        BY <3>1, StartHeadType
      <3>4. cur' \in Ptr /\ cur' # NULL
        BY <3>3 DEF Op, Ptr, NULL
      <3>5. QED
        BY <3>2, <3>3, <3>4 DEF TypeOK
    <2>5. CASE PickNothing
      BY <2>5 DEF PickNothing, TypeOK, blocks, lists
    <2>6. CASE Return
      <3>1. cur \in Op
        BY <2>6 DEF Return, TypeOK, Ptr
      <3>2. /\ next' \in [Op -> Ptr]
            /\ head' \in [Queue -> Ptr]
            /\ tail' \in [Queue -> Ptr]
            /\ UNCHANGED <<func, time>>
        <4>1. Free(cur)
          BY <2>6 DEF Return
        <4>2. tail["free"] \in Ptr
          BY DEF TypeOK, Queue
        <4>3. QED
          BY <3>1, <4>1, <4>2 DEF Free, TypeOK, Ptr
      <3>3. QED
        BY <2>6, <3>2 DEF Return, TypeOK, Ptr
    <2>7. CASE Finish
      <3>1. head["timer"] \in Ptr
        BY DEF TypeOK, Queue
      <3>2. cc' \in Time
        BY <2>7, <3>1, ResetRtcType DEF Finish, TypeOK
      <3>3. QED
        BY <2>7, <3>2 DEF Finish, TypeOK, blocks, lists
    <2>8. CASE Sleep
      BY <2>8 DEF Sleep, TypeOK, blocks, lists
    <2>9. ASSUME NEW c \in Context, NEW f \in Task, PostIdle(c, f)
          PROVE  TypeOK'
      <3>1. RunWhenIdle(f)
        BY <2>9 DEF PostIdle
      <3>2. /\ UNCHANGED <<line, sel, more, cur, now, cc>>
            /\ pending' \subseteq Task
            /\ wake' \in BOOLEAN
        BY <2>9 DEF PostIdle, Register, TypeOK, thread
      <3>3. QED
        BY <3>1, <3>2, RunWhenIdleType DEF TypeOK
    <2>10. ASSUME NEW c \in Context, NEW f \in Task, NEW d \in Delay,
                  PostTimed(c, f, d)
           PROVE  TypeOK'
      <3>1. RunAtTime(f, Shift(now, d))
        BY <2>10 DEF PostTimed
      <3>2. /\ UNCHANGED <<line, sel, more, cur, now>>
            /\ pending' \subseteq Task
            /\ wake' \in BOOLEAN
        BY <2>10 DEF PostTimed, Register, TypeOK, thread
      <3>3. Shift(now, d) \in Time
        <4>1. d \in Int
          BY ClockAssumption
        <4>2. now \in Int
          BY DEF TypeOK, Time
        <4>3. QED
          BY <4>1, <4>2, ShiftTime
      <3>4. QED
        BY <3>1, <3>2, <3>3, RunAtTimeType DEF TypeOK
    <2>11. CASE Tick
      <3>1. now' \in Time
        BY <2>11, ShiftTime DEF Tick, TypeOK, Time
      <3>2. QED
        BY <2>11, <3>1 DEF Tick, TypeOK, blocks, lists, thread
    <2>12. CASE UNCHANGED vars
      BY <2>12 DEF vars, blocks, lists, thread, TypeOK
    <2>13. QED
      BY <2>1, <2>2, <2>3, <2>4, <2>5, <2>6, <2>7, <2>8, <2>9, <2>10, <2>11,
         <2>12 DEF Next, MainThread, Callers
  <1>3. QED
    BY <1>1, <1>2, PTL DEF Spec

(***************************************************************************)
(* The lists stay linked.  One lemma per operation on the pool gives the   *)
(* labelling after it.                                                     *)
(***************************************************************************)
OwnedAs(own) == \E pos : Linked(own, pos)
Labelled == \E own : OwnedAs(own)

\* Starting the head of a list takes it off the list; its next pointer stays.
LEMMA StartHeadLinked ==
  ASSUME TypeOK, cur = NULL, NEW q \in {"timer", "main"}, NEW o \in Op,
         o = head[q], StartHead(q), NEW own, NEW pos, Linked(own, pos)
  PROVE  OwnedAs([own EXCEPT ![o] = "running"])'
  <1> DEFINE own2 == [own EXCEPT ![o] = "running"]
  <1>1. o \in Op /\ own \in [Op -> Queue \cup {"running"}] /\ q \in Queue
    BY DEF Queue, Linked
  <1>2. /\ next' = next /\ cur' = o
        /\ head' = [head EXCEPT ![q] = next[o]]
        /\ tail' = IF next[o] = NULL THEN [tail EXCEPT ![q] = NULL] ELSE tail
    BY DEF StartHead, blocks
  <1>3. own[o] = q /\ \A x \in Op : own[x] # "running"
    BY <1>1 DEF Linked, Chain, Chained, Op, NULL
  <1>4. own2 \in [Op -> Queue \cup {"running"}] /\ pos \in [Op -> Int]
    BY <1>1 DEF Linked
  <1>5. \A x \in Op : own2[x] = "running" <=> x = cur'
    BY <1>1, <1>2, <1>3
  <1>6. ASSUME NEW p \in Queue PROVE Chain(p, own2, pos)'
    <2>1. Chain(p, own, pos) /\ pos \in [Op -> Int]
      BY DEF Linked
    <2>2. CASE p # q
      <3>1. \A x \in Op : own2[x] = p <=> own[x] = p
        BY <1>1, <1>3, <2>2 DEF Queue
      <3>2. head'[p] = head[p] /\ tail'[p] = tail[p]
        BY <1>2, <2>2 DEF TypeOK
      <3>3. QED
        BY <1>2, <2>1, <3>1, <3>2 DEF Chain, Chained
    <2>3. CASE p = q
      <3>1. \A x \in Op : own2[x] = q <=> own[x] = q /\ x # o
        BY <1>1, <1>3 DEF Queue
      <3>2. head'[q] = next[o]
        BY <1>1, <1>2 DEF TypeOK
      <3>3. tail[q] \in Op /\ own[tail[q]] = q
        BY <2>1, <2>3 DEF Chain, Chained, Op, NULL
      <3>4. CASE o = tail[q]
        <4>1. next[o] = NULL
          BY <2>1, <2>3, <3>3, <3>4 DEF Chain, Chained, Op, NULL
        <4>2. tail'[q] = NULL /\ head'[q] = NULL
          BY <1>1, <1>2, <3>2, <4>1 DEF TypeOK
        <4>3. \A x \in Op : own[x] = q => x = o
          BY <1>1, <1>3, <2>1, <2>3, <3>4 DEF Chain, Chained
        <4>4. QED
          BY <1>2, <2>1, <2>3, <3>1, <4>2, <4>3 DEF Chain, Chained
      <3>5. CASE o # tail[q]
        <4>1. next[o] \in Op /\ own[next[o]] = q /\ pos[next[o]] = pos[o] + 1
          BY <1>1, <1>3, <2>1, <2>3, <3>5 DEF Chain, Chained
        <4>2. next[o] # NULL /\ next[o] # o
          BY <1>1, <2>1, <4>1 DEF Op, NULL
        <4>3. tail'[q] = tail[q] /\ tail'[q] # o
          BY <1>2, <3>5, <4>2
        <4>4. \A x \in Op : own[x] = q /\ x # o
                => pos[next[o]] <= pos[x] /\ pos[x] <= pos[tail[q]]
          BY <1>1, <1>3, <2>1, <2>3, <4>1 DEF Chain, Chained
        <4>5. \A x \in Op : own[x] = q /\ x # tail[q]
                => /\ next[x] \in Op /\ own[next[x]] = q
                   /\ pos[next[x]] = pos[x] + 1 /\ next[x] # o
          BY <1>1, <1>3, <2>1, <2>3 DEF Chain, Chained
        <4>6. QED
          BY <1>2, <2>1, <2>3, <3>1, <3>2, <3>3, <4>1, <4>2, <4>3, <4>4, <4>5
             DEF Chain, Chained
      <3>6. QED
        BY <3>4, <3>5
    <2>4. QED
      BY <2>2, <2>3
  <1>7. Linked(own2, pos)'
    BY <1>4, <1>5, <1>6 DEF Linked
  <1>8. QED
    BY <1>7 DEF OwnedAs

\* A returning function's block goes to the end of the free list.
LEMMA FreeLinked ==
  ASSUME TypeOK, NEW o \in Op, cur = o, Free(o), cur' = NULL,
         NEW own, NEW pos, Linked(own, pos)
  PROVE  OwnedAs([own EXCEPT ![o] = "free"])'
  <1>0. PICK last \in Ptr : last = tail["free"]
    BY DEF TypeOK, Queue
  <1> DEFINE own2 == [own EXCEPT ![o] = "free"]
             pos2 == [pos EXCEPT ![o] = IF last = NULL THEN 0
                                                         ELSE pos[last] + 1]
  <1>1. /\ own \in [Op -> Queue \cup {"running"}] /\ pos \in [Op -> Int]
        /\ own[o] = "running"
        /\ \A x \in Op : own[x] = "running" => x = o
        /\ \A p \in Queue : Chain(p, own, pos)
        /\ "free" \in Queue
    BY DEF Linked, Queue
  <1>2. /\ next' = IF last = NULL THEN next ELSE [next EXCEPT ![last] = o]
        /\ head' = IF last = NULL THEN [head EXCEPT !["free"] = o] ELSE head
        /\ tail' = [tail EXCEPT !["free"] = o]
    BY <1>0 DEF Free
  <1>3. Chain("free", own, pos)
    BY <1>1
  <1>4. last # NULL => last \in Op /\ own[last] = "free" /\ head["free"] # NULL
    BY <1>0, <1>3 DEF Chain, Chained
  <1>5. last = NULL => head["free"] = NULL
    BY <1>0, <1>3 DEF Chain, Chained, Op, NULL
  <1>6. own2 \in [Op -> Queue \cup {"running"}] /\ pos2 \in [Op -> Int]
    BY <1>1, <1>4
  <1>7. \A x \in Op : own2[x] # "running"
    BY <1>1, <1>6
  <1>8. ASSUME NEW p \in Queue, p # "free" PROVE Chain(p, own2, pos2)'
    <2>1. \A x \in Op : own2[x] = p <=> own[x] = p
      BY <1>1, <1>8 DEF Queue
    <2>2. \A x \in Op : own[x] = p => pos2[x] = pos[x] /\ next'[x] = next[x]
      BY <1>1, <1>2, <1>4, <1>8 DEF TypeOK, Queue
    <2>3. head'[p] = head[p] /\ tail'[p] = tail[p]
      BY <1>2, <1>8 DEF TypeOK
    <2>4. Chain(p, own, pos)
      BY <1>1
    <2>5. QED
      BY <1>8, <2>1, <2>2, <2>3, <2>4 DEF Chain, Chained
  <1>9. Chain("free", own2, pos2)'
    <2>1. tail'["free"] = o
      BY <1>1, <1>2 DEF TypeOK
    <2>2. \A x \in Op : own2[x] = "free" <=> own[x] = "free" \/ x = o
      BY <1>1
    <2>3. CASE last = NULL
      <3>1. head'["free"] = o
        BY <1>1, <1>2, <2>3 DEF TypeOK
      <3>2. \A x \in Op : own2[x] = "free" <=> x = o
        BY <1>3, <1>5, <2>2, <2>3 DEF Chain, Chained
      <3>3. pos2[o] = 0
        BY <1>1, <2>3
      <3>4. QED
        BY <2>1, <3>1, <3>2, <3>3 DEF Chain, Chained, Op, NULL
    <2>4. CASE last # NULL
      <3>1. head'["free"] = head["free"] /\ head["free"] \in Op
            /\ own[head["free"]] = "free"
        BY <1>2, <1>3, <1>4, <2>4 DEF Chain, Chained
      <3>2. pos2[o] = pos[last] + 1
            /\ \A x \in Op : own[x] = "free" => pos2[x] = pos[x] /\ x # o
        BY <1>1, <2>4
      <3>3. next'[last] = o
            /\ \A x \in Op : own[x] = "free" /\ x # last => next'[x] = next[x]
        BY <1>2, <1>4, <2>4 DEF TypeOK
      <3>4. \A x \in Op : own[x] = "free"
              => pos[head["free"]] <= pos[x] /\ pos[x] <= pos[last]
        BY <1>0, <1>3 DEF Chain, Chained
      <3>5. pos[last] \in Int /\ \A x \in Op : pos[x] \in Int
        BY <1>1, <1>4, <2>4
      <3>6. \A x \in Op : own2[x] = "free" =>
              pos2[head'["free"]] <= pos2[x] /\ pos2[x] <= pos2[tail'["free"]]
        BY <1>4, <2>1, <2>2, <2>4, <3>1, <3>2, <3>4, <3>5
      <3>7. \A x \in Op : own2[x] = "free" /\ x # tail'["free"] =>
              /\ next'[x] \in Op /\ own2[next'[x]] = "free"
              /\ pos2[next'[x]] = pos2[x] + 1
        <4> SUFFICES ASSUME NEW x \in Op, own2[x] = "free", x # tail'["free"]
                     PROVE  /\ next'[x] \in Op /\ own2[next'[x]] = "free"
                            /\ pos2[next'[x]] = pos2[x] + 1
          OBVIOUS
        <4>1. own[x] = "free" /\ x # o
          BY <2>1, <2>2
        <4>2. CASE x = last
          BY <1>4, <2>2, <2>4, <3>2, <3>3, <4>2
        <4>3. CASE x # last
          <5>1. next[x] \in Op /\ own[next[x]] = "free"
                /\ pos[next[x]] = pos[x] + 1
            BY <1>0, <1>3, <4>1, <4>3 DEF Chain, Chained
          <5>2. QED
            BY <2>2, <3>2, <3>3, <4>1, <4>3, <5>1
        <4>4. QED
          BY <4>2, <4>3
      <3>8. \A a, b \in Op :
              own2[a] = "free" /\ own2[b] = "free" /\ pos2[a] = pos2[b] => a = b
        <4>1. \A a, b \in Op :
                own[a] = "free" /\ own[b] = "free" /\ pos[a] = pos[b] => a = b
          BY <1>3 DEF Chain, Chained
        <4>2. \A x \in Op : own[x] = "free" => pos2[x] < pos2[o]
          BY <1>4, <2>4, <3>2, <3>4, <3>5
        <4>3. QED
          BY <2>2, <3>2, <4>1, <4>2, <1>6
      <3>9. QED
        BY <2>1, <2>2, <3>1, <3>6, <3>7, <3>8 DEF Chain, Chained, Op, NULL
    <2>5. QED
      BY <2>3, <2>4
  <1>10. \A x \in Op : own2[x] = "running" <=> x = cur'
    BY <1>7 DEF Op, NULL
  <1>11. Linked(own2, pos2)'
    BY <1>6, <1>8, <1>9, <1>10 DEF Linked
  <1>12. QED
    BY <1>11 DEF OwnedAs

\* A caller that leaves a free block behind finds the list it takes its block
\* from in order: the rest of the free list does not involve the stale pointer.
LEMMA AllocateLinked ==
  ASSUME TypeOK, head["free"] # tail["free"], NEW o \in Op, o = Allocated,
         NEW own, NEW pos, Linked(own, pos)
  PROVE  /\ own[o] = "free" /\ o # cur
         /\ HeadsLeft = [head EXCEPT !["free"] = next[o]]
         /\ TailsLeft = tail
         /\ next[o] \in Op /\ own[next[o]] = "free" /\ next[o] # o
         /\ tail["free"] \in Op /\ own[tail["free"]] = "free" /\ tail["free"] # o
         /\ \A x \in Op : own[x] = "free" /\ x # o =>
              pos[next[o]] <= pos[x] /\ pos[x] <= pos[tail["free"]]
         /\ \A x \in Op : own[x] = "free" /\ x # tail["free"] =>
              /\ next[x] \in Op /\ own[next[x]] = "free" /\ next[x] # o
              /\ pos[next[x]] = pos[x] + 1
  <1>1. /\ own \in [Op -> Queue \cup {"running"}] /\ pos \in [Op -> Int]
        /\ Chain("free", own, pos)
    BY DEF Linked, Queue
  <1>2. o = head["free"] /\ o # NULL
    BY DEF Allocated, Op, NULL
  <1>3. own[o] = "free" /\ tail["free"] \in Op /\ own[tail["free"]] = "free"
    BY <1>1, <1>2 DEF Chain, Chained
  <1>4. next[o] \in Op /\ own[next[o]] = "free" /\ pos[next[o]] = pos[o] + 1
    BY <1>1, <1>2, <1>3 DEF Chain, Chained
  <1>5. HeadsLeft = [head EXCEPT !["free"] = next[o]] /\ TailsLeft = tail
    BY <1>2, <1>4 DEF HeadsLeft, TailsLeft, Allocated, Op, NULL
  <1>6. o # cur
    BY <1>3 DEF Linked
  <1>7. \A x \in Op : own[x] = "free" =>
          pos[o] <= pos[x] /\ pos[x] <= pos[tail["free"]]
    BY <1>1, <1>2 DEF Chain, Chained
  <1>8. \A x \in Op : own[x] = "free" /\ x # o => pos[x] # pos[o]
    BY <1>1, <1>3 DEF Chain, Chained
  <1>9. \A x \in Op : own[x] = "free" /\ x # tail["free"] =>
          next[x] \in Op /\ own[next[x]] = "free" /\ pos[next[x]] = pos[x] + 1
    BY <1>1 DEF Chain, Chained
  <1>10. \A x \in Op : own[x] = "free" /\ x # o => pos[next[o]] <= pos[x]
    BY <1>1, <1>4, <1>7, <1>8
  <1>11. \A x \in Op : own[x] = "free" /\ x # tail["free"] => next[x] # o
    BY <1>1, <1>7, <1>9
  <1>12. next[o] # o
    BY <1>1, <1>4
  <1>13. QED
    BY <1>2, <1>3, <1>4, <1>5, <1>6, <1>7, <1>9, <1>10, <1>11, <1>12

\* What registering leaves alone: list p only loses block o, if it had it.
Untouched(p, o, own, pos, own2, pos2) ==
  /\ \A x \in Op : own2[x] = p <=> own[x] = p /\ x # o
  /\ \A x \in Op : own[x] = p /\ x # o =>
       pos2[x] = pos[x] /\ next'[x] = next[x]
  /\ head'[p] = HeadsLeft[p]
  /\ tail'[p] = TailsLeft[p]

\* The free list and the lists a registration does not touch stay linked.
LEMMA OthersLinked ==
  ASSUME TypeOK, head["free"] # tail["free"], NEW o \in Op, o = Allocated,
         NEW own, NEW pos, Linked(own, pos), NEW p \in Queue,
         NEW own2, NEW pos2, Untouched(p, o, own, pos, own2, pos2)
  PROVE  Chained(p, head'[p], tail'[p], next', own2, pos2)
  <1>1. /\ own \in [Op -> Queue \cup {"running"}] /\ pos \in [Op -> Int]
        /\ Chain(p, own, pos)
    BY DEF Linked
  <1>2. own[o] = "free" /\ HeadsLeft = [head EXCEPT !["free"] = next[o]]
        /\ TailsLeft = tail
    BY AllocateLinked
  <1>3. \A x \in Op : own2[x] = p <=> own[x] = p /\ x # o
    BY DEF Untouched
  <1>4. tail'[p] = tail[p] /\ head'[p] = HeadsLeft[p]
    BY <1>2 DEF Untouched
  <1>5. \A x \in Op : own[x] = p /\ x # o =>
          pos2[x] = pos[x] /\ next'[x] = next[x]
    BY DEF Untouched
  <1>6. CASE p = "free"
    <2>1. /\ next[o] \in Op /\ own[next[o]] = "free" /\ next[o] # o
          /\ tail["free"] \in Op /\ own[tail["free"]] = "free"
          /\ tail["free"] # o
      BY AllocateLinked
    <2>2. \A x \in Op : own[x] = "free" /\ x # o =>
            pos[next[o]] <= pos[x] /\ pos[x] <= pos[tail["free"]]
      BY AllocateLinked
    <2>3. \A x \in Op : own[x] = "free" /\ x # tail["free"] =>
            /\ next[x] \in Op /\ own[next[x]] = "free" /\ next[x] # o
            /\ pos[next[x]] = pos[x] + 1
      BY AllocateLinked
    <2>4. head'[p] = next[o]
      BY <1>2, <1>4, <1>6 DEF TypeOK
    <2>5. head'[p] # NULL /\ own2[head'[p]] = p /\ own2[tail'[p]] = p
          /\ head'[p] \in Op /\ tail'[p] \in Op
      BY <1>3, <1>4, <1>6, <2>1, <2>4 DEF Op, NULL
    <2>6. ASSUME NEW x \in Op, own2[x] = p
          PROVE  pos2[head'[p]] <= pos2[x] /\ pos2[x] <= pos2[tail'[p]]
      BY <1>3, <1>4, <1>5, <1>6, <2>1, <2>2, <2>4, <2>6
    <2>7. ASSUME NEW x \in Op, own2[x] = p, x # tail'[p]
          PROVE  /\ next'[x] \in Op /\ own2[next'[x]] = p
                 /\ pos2[next'[x]] = pos2[x] + 1
      <3>1. own[x] = p /\ x # o /\ next'[x] = next[x] /\ pos2[x] = pos[x]
        BY <1>3, <1>5, <2>7
      <3>2. next[x] \in Op /\ own[next[x]] = p /\ next[x] # o
            /\ pos[next[x]] = pos[x] + 1
        BY <1>4, <1>6, <2>3, <2>7, <3>1
      <3>3. QED
        BY <1>3, <1>5, <3>1, <3>2
    <2>8. ASSUME NEW a \in Op, NEW b \in Op, own2[a] = p, own2[b] = p,
                 pos2[a] = pos2[b]
          PROVE  a = b
      BY <1>1, <1>3, <1>5, <2>8 DEF Chain, Chained
    <2>9. QED
      BY <1>6, <2>5, <2>6, <2>7, <2>8 DEF Chain, Chained
  <1>7. CASE p # "free"
    <2>1. head'[p] = head[p]
      BY <1>2, <1>4, <1>7 DEF TypeOK
    <2>2. \A x \in Op : own2[x] = p <=> own[x] = p
      BY <1>2, <1>3, <1>7
    <2>3. QED
      BY <1>1, <1>2, <1>4, <1>5, <1>7, <2>1, <2>2 DEF Chain, Chained
  <1>8. QED
    BY <1>6, <1>7

LEMMA RunWhenIdleLinked ==
  ASSUME TypeOK, head["free"] # tail["free"], NEW o \in Op, o = Allocated,
         NEW f, RunWhenIdle(f), cur' = cur,
         NEW own, NEW pos, Linked(own, pos)
  PROVE  OwnedAs([own EXCEPT ![o] = "main"])'
  <1>1. /\ own \in [Op -> Queue \cup {"running"}] /\ pos \in [Op -> Int]
        /\ Chain("main", own, pos) /\ Chain("free", own, pos)
    BY DEF Linked, Queue
  <1>2. o # NULL
    BY DEF Op, NULL
  <1>4. PICK last \in Ptr : last = tail["main"]
    BY DEF TypeOK, Queue
  <1> PICK own2 : own2 = [own EXCEPT ![o] = "main"]
    OBVIOUS
  <1> PICK pos2 : pos2 = [pos EXCEPT ![o] = IF last = NULL THEN 0
                                                           ELSE pos[last] + 1]
    OBVIOUS
  <1>5. /\ next' = IF last = NULL THEN [next EXCEPT ![o] = NULL]
                   ELSE [next EXCEPT ![o] = NULL, ![last] = o]
        /\ head' = IF last = NULL THEN [HeadsLeft EXCEPT !["main"] = o]
                                  ELSE HeadsLeft
        /\ tail' = [TailsLeft EXCEPT !["main"] = o]
    BY <1>2, <1>4 DEF RunWhenIdle
  <1>6. /\ own[o] = "free" /\ o # cur
        /\ HeadsLeft = [head EXCEPT !["free"] = next[o]]
        /\ TailsLeft = tail
    BY AllocateLinked
  <1>7. last # NULL => last \in Op /\ own[last] = "main" /\ head["main"] # NULL
    BY <1>1, <1>4 DEF Chain, Chained
  <1>8. last = NULL => head["main"] = NULL
    BY <1>1, <1>4 DEF Chain, Chained, Op, NULL
  <1>9. pos2 \in [Op -> Int] /\ own2 \in [Op -> Queue \cup {"running"}]
    BY <1>1, <1>7 DEF Queue
  <1>10. ASSUME NEW p \in Queue, p # "main" PROVE Chain(p, own2, pos2)'
    <2>1. \A x \in Op : own2[x] = p <=> own[x] = p /\ x # o
      BY <1>1, <1>6, <1>10
    <2>2. \A x \in Op : own[x] = p /\ x # o =>
            pos2[x] = pos[x] /\ next'[x] = next[x]
      BY <1>1, <1>5, <1>7, <1>10 DEF TypeOK
    <2>3. head'[p] = HeadsLeft[p] /\ tail'[p] = TailsLeft[p]
      BY <1>5, <1>6, <1>10 DEF TypeOK
    <2>4. Untouched(p, o, own, pos, own2, pos2)
      BY <2>1, <2>2, <2>3 DEF Untouched
    <2>5. Chained(p, head'[p], tail'[p], next', own2, pos2)
      BY <2>4, OthersLinked
    <2>6. QED
      BY <2>5 DEF Chain
  <1>11. Chain("main", own2, pos2)'
    <2>1. tail'["main"] = o /\ "main" \in Queue
      BY <1>5, <1>6 DEF TypeOK, Queue
    <2>2. \A x \in Op : own2[x] = "main" <=> own[x] = "main" \/ x = o
      BY <1>1
    <2>3. CASE last = NULL
      <3>1. head'["main"] = o /\ next'[o] = NULL
        BY <1>5, <1>6, <2>3 DEF TypeOK, Queue
      <3>2. \A x \in Op : own2[x] = "main" <=> x = o
        BY <1>1, <1>8, <2>2, <2>3 DEF Chain, Chained
      <3>3. pos2[o] = 0
        BY <1>1, <2>3
      <3>4. QED
        BY <2>1, <3>1, <3>2, <3>3 DEF Chain, Chained, Op, NULL
    <2>4. CASE last # NULL
      <3>1. head'["main"] = head["main"] /\ head["main"] \in Op
            /\ own[head["main"]] = "main"
        BY <1>1, <1>5, <1>6, <1>7, <2>4 DEF TypeOK, Chain, Chained
      <3>2. pos2[o] = pos[last] + 1
            /\ \A x \in Op : own[x] = "main" => pos2[x] = pos[x] /\ x # o
        BY <1>1, <1>6, <2>4
      <3>3. next'[last] = o /\ next'[o] = NULL
            /\ \A x \in Op : own[x] = "main" /\ x # last => next'[x] = next[x]
        BY <1>5, <1>6, <1>7, <2>4 DEF TypeOK, Ptr
      <3>4. \A x \in Op : own[x] = "main"
              => pos[head["main"]] <= pos[x] /\ pos[x] <= pos[last]
        BY <1>1, <1>4 DEF Chain, Chained
      <3>5. pos[last] \in Int /\ \A x \in Op : pos[x] \in Int
        BY <1>1, <1>7, <2>4
      <3>6. \A x \in Op : own2[x] = "main" =>
              pos2[head'["main"]] <= pos2[x] /\ pos2[x] <= pos2[tail'["main"]]
        BY <1>7, <2>1, <2>2, <2>4, <3>1, <3>2, <3>4, <3>5
      <3>7. ASSUME NEW x \in Op, own2[x] = "main", x # tail'["main"]
            PROVE  /\ next'[x] \in Op /\ own2[next'[x]] = "main"
                   /\ pos2[next'[x]] = pos2[x] + 1
        <4>1. own[x] = "main" /\ x # o
          BY <2>1, <2>2, <3>7
        <4>2. CASE x = last
          BY <1>7, <2>2, <2>4, <3>2, <3>3, <4>2
        <4>3. CASE x # last
          <5>1. next[x] \in Op /\ own[next[x]] = "main"
                /\ pos[next[x]] = pos[x] + 1
            BY <1>1, <1>4, <4>1, <4>3 DEF Chain, Chained
          <5>2. QED
            BY <2>2, <3>2, <3>3, <4>1, <4>3, <5>1
        <4>4. QED
          BY <4>2, <4>3
      <3>8. \A a, b \in Op :
              own2[a] = "main" /\ own2[b] = "main" /\ pos2[a] = pos2[b] => a = b
        <4>1. \A a, b \in Op :
                own[a] = "main" /\ own[b] = "main" /\ pos[a] = pos[b] => a = b
          BY <1>1 DEF Chain, Chained
        <4>2. \A x \in Op : own[x] = "main" => pos2[x] < pos2[o]
          BY <1>7, <2>4, <3>2, <3>4, <3>5
        <4>3. QED
          BY <2>2, <3>2, <4>1, <4>2, <1>9
      <3>9. QED
        BY <2>1, <2>2, <3>1, <3>3, <3>6, <3>7, <3>8 DEF Chain, Chained, Op, NULL
    <2>5. QED
      BY <2>3, <2>4
  <1>12. \A x \in Op : own2[x] = "running" <=> x = cur'
    BY <1>1, <1>6 DEF Linked
  <1>13. ASSUME NEW p \in Queue PROVE Chain(p, own2, pos2)'
    BY <1>10, <1>11
  <1>14. Linked(own2, pos2)'
    BY <1>9, <1>12, <1>13 DEF Linked
  <1>15. QED
    BY <1>14 DEF OwnedAs

\* The block goes before the first timed operation.
LEMMA InsertFirstLinked ==
  ASSUME TypeOK, head["free"] # tail["free"], NEW o \in Op, o = Allocated,
         InsertFirst(o), cur' = cur, NEW own, NEW pos, Linked(own, pos)
  PROVE  OwnedAs([own EXCEPT ![o] = "timer"])'
  <1>1. /\ own \in [Op -> Queue \cup {"running"}] /\ pos \in [Op -> Int]
        /\ Chain("timer", own, pos)
    BY DEF Linked, Queue
  <1>2. PICK first \in Ptr : first = head["timer"]
    BY DEF TypeOK, Queue
  <1> PICK own2 : own2 = [own EXCEPT ![o] = "timer"]
    OBVIOUS
  <1> PICK pos2 : pos2 = [pos EXCEPT ![o] = IF first = NULL THEN 0
                                                            ELSE pos[first] - 1]
    OBVIOUS
  <1>3. /\ own[o] = "free" /\ o # cur
        /\ HeadsLeft = [head EXCEPT !["free"] = next[o]]
        /\ TailsLeft = tail
    BY AllocateLinked
  <1>4. /\ next' = [next EXCEPT ![o] = first]
        /\ head' = [HeadsLeft EXCEPT !["timer"] = o]
        /\ tail' = IF tail["timer"] = NULL THEN [tail EXCEPT !["timer"] = o]
                                           ELSE tail
    BY <1>2, <1>3 DEF InsertFirst
  <1>5. first # NULL => /\ first \in Op /\ own[first] = "timer"
                        /\ tail["timer"] \in Op /\ own[tail["timer"]] = "timer"
                        /\ tail["timer"] # NULL
    BY <1>1, <1>2 DEF Chain, Chained, Op, NULL
  <1>6. first = NULL => tail["timer"] = NULL
                        /\ \A x \in Op : own[x] # "timer"
    BY <1>1, <1>2 DEF Chain, Chained
  <1>7. pos2 \in [Op -> Int] /\ own2 \in [Op -> Queue \cup {"running"}]
    BY <1>1, <1>5 DEF Queue
  <1>8. ASSUME NEW p \in Queue, p # "timer" PROVE Chain(p, own2, pos2)'
    <2>1. \A x \in Op : own2[x] = p <=> own[x] = p /\ x # o
      BY <1>1, <1>3, <1>8
    <2>2. \A x \in Op : own[x] = p /\ x # o =>
            pos2[x] = pos[x] /\ next'[x] = next[x]
      BY <1>1, <1>4 DEF TypeOK
    <2>3. head'[p] = HeadsLeft[p] /\ tail'[p] = TailsLeft[p]
      BY <1>3, <1>4, <1>8 DEF TypeOK
    <2>4. Untouched(p, o, own, pos, own2, pos2)
      BY <2>1, <2>2, <2>3 DEF Untouched
    <2>5. Chained(p, head'[p], tail'[p], next', own2, pos2)
      BY <2>4, OthersLinked
    <2>6. QED
      BY <2>5 DEF Chain
  <1>9. Chain("timer", own2, pos2)'
    <2>1. head'["timer"] = o /\ next'[o] = first /\ o # NULL
      BY <1>3, <1>4 DEF TypeOK, Queue, Op, NULL
    <2>2. \A x \in Op : own2[x] = "timer" <=> own[x] = "timer" \/ x = o
      BY <1>1
    <2>3. CASE first = NULL
      <3>1. tail'["timer"] = o
        BY <1>4, <1>6, <2>3 DEF TypeOK, Queue
      <3>2. \A x \in Op : own2[x] = "timer" <=> x = o
        BY <1>6, <2>2, <2>3
      <3>3. pos2[o] = 0
        BY <1>1, <2>3
      <3>4. QED
        BY <2>1, <2>3, <3>1, <3>2, <3>3 DEF Chain, Chained
    <2>4. CASE first # NULL
      <3>1. tail' = tail
        BY <1>4, <1>5, <2>4
      <3>2. pos2[o] = pos[first] - 1
            /\ \A x \in Op : own[x] = "timer" =>
                 pos2[x] = pos[x] /\ x # o /\ next'[x] = next[x]
        BY <1>1, <1>3, <1>4, <2>4 DEF TypeOK
      <3>3. \A x \in Op : own[x] = "timer" =>
              pos[first] <= pos[x] /\ pos[x] <= pos[tail["timer"]]
        BY <1>1, <1>2 DEF Chain, Chained
      <3>4. \A x \in Op : pos[x] \in Int
        BY <1>1
      <3>5. ASSUME NEW x \in Op, own2[x] = "timer"
            PROVE  pos2[o] <= pos2[x] /\ pos2[x] <= pos2[tail["timer"]]
        BY <1>5, <2>2, <2>4, <3>2, <3>3, <3>4, <3>5
      <3>6. ASSUME NEW x \in Op, own2[x] = "timer", x # tail["timer"]
            PROVE  /\ next'[x] \in Op /\ own2[next'[x]] = "timer"
                   /\ pos2[next'[x]] = pos2[x] + 1
        <4>1. CASE x = o
          BY <1>5, <2>1, <2>2, <2>4, <3>2, <3>4, <4>1
        <4>2. CASE x # o
          <5>1. next[x] \in Op /\ own[next[x]] = "timer"
                /\ pos[next[x]] = pos[x] + 1
            BY <1>1, <2>2, <3>6, <4>2 DEF Chain, Chained
          <5>2. QED
            BY <2>2, <3>2, <3>6, <4>2, <5>1
        <4>3. QED
          BY <4>1, <4>2
      <3>7. ASSUME NEW a \in Op, NEW b \in Op, own2[a] = "timer",
                   own2[b] = "timer", pos2[a] = pos2[b]
            PROVE  a = b
        <4>1. own[a] = "timer" /\ own[b] = "timer" /\ pos[a] = pos[b] => a = b
          BY <1>1 DEF Chain, Chained
        <4>2. \A x \in Op : own[x] = "timer" => pos2[o] < pos2[x]
          BY <1>5, <2>4, <3>2, <3>3, <3>4
        <4>3. QED
          BY <2>2, <3>2, <3>7, <4>1, <4>2, <1>7
      <3>8. next'[tail["timer"]] = NULL
        BY <1>1, <1>5, <2>4, <3>2 DEF Chain, Chained
      <3>9. QED
        BY <1>5, <2>1, <2>2, <2>4, <3>1, <3>5, <3>6, <3>7, <3>8
           DEF Chain, Chained
    <2>5. QED
      BY <2>3, <2>4
  <1>10. \A x \in Op : own2[x] = "running" <=> x = cur'
    BY <1>1, <1>3 DEF Linked
  <1>11. ASSUME NEW p \in Queue PROVE Chain(p, own2, pos2)'
    BY <1>8, <1>9
  <1>12. Linked(own2, pos2)'
    BY <1>7, <1>10, <1>11 DEF Linked
  <1>13. QED
    BY <1>12 DEF OwnedAs

\* The walk of run_at_time stays on the timer list: the list is closed under
\* the links it follows, since the last block stops it.
LEMMA WalkOnList ==
  ASSUME TypeOK, NEW own, NEW pos, Linked(own, pos), NEW t, NEW stamp,
         head["timer"] # NULL, NEW b \in Visited(t, stamp)
  PROVE  b \in Op /\ own[b] = "timer"
  <1> DEFINE S == {x \in Op : own[x] = "timer"}
  <1>1. Chain("timer", own, pos)
    BY DEF Linked, Queue
  <1>2. head["timer"] \in S
    BY <1>1 DEF Chain, Chained
  <1>3. \A x \in S : Stops(x, t, stamp) \/ next[x] \in S
    <2> SUFFICES ASSUME NEW x \in S, next[x] # NULL PROVE next[x] \in S
      BY DEF Stops
    <2>1. tail["timer"] # NULL
      BY <1>1 DEF Chain, Chained, Op, NULL
    <2>2. x # tail["timer"]
      BY <1>1, <2>1 DEF Chain, Chained
    <2>3. QED
      BY <1>1, <2>2 DEF Chain, Chained
  <1>4. S \in SUBSET Op
    OBVIOUS
  <1>5. b \in S
    BY <1>2, <1>3, <1>4 DEF Visited
  <1>6. QED
    BY <1>5

\* The block goes after a block of the timer list.
LEMMA InsertAfterLinked ==
  ASSUME TypeOK, head["free"] # tail["free"], NEW o \in Op, o = Allocated,
         NEW b \in Op, InsertAfter(o, b), cur' = cur,
         NEW own, NEW pos, Linked(own, pos), own[b] = "timer"
  PROVE  OwnedAs([own EXCEPT ![o] = "timer"])'
  <1>1. /\ own \in [Op -> Queue \cup {"running"}] /\ pos \in [Op -> Int]
        /\ Chain("timer", own, pos)
    BY DEF Linked, Queue
  <1> PICK own2 : own2 = [own EXCEPT ![o] = "timer"]
    OBVIOUS
  <1> PICK pos2 : pos2 = [x \in Op |->
                            IF x = o THEN pos[b] + 1
                            ELSE IF own[x] = "timer" /\ pos[x] > pos[b]
                                 THEN pos[x] + 1 ELSE pos[x]]
    OBVIOUS
  <1>2. /\ own[o] = "free" /\ o # cur /\ o # b
        /\ HeadsLeft = [head EXCEPT !["free"] = next[o]]
        /\ TailsLeft = tail
    BY AllocateLinked
  <1>3. /\ next' = [next EXCEPT ![o] = next[b], ![b] = o]
        /\ head' = HeadsLeft
        /\ tail' = IF tail["timer"] = b THEN [tail EXCEPT !["timer"] = o]
                                        ELSE tail
    BY <1>2 DEF InsertAfter
  <1>4. /\ head["timer"] \in Op /\ own[head["timer"]] = "timer"
        /\ tail["timer"] \in Op /\ own[tail["timer"]] = "timer"
        /\ head["timer"] # NULL /\ tail["timer"] # NULL
    BY <1>1 DEF Chain, Chained, Op, NULL
  <1>5. pos2 \in [Op -> Int] /\ own2 \in [Op -> Queue \cup {"running"}]
    BY <1>1 DEF Queue
  <1>6. ASSUME NEW p \in Queue, p # "timer" PROVE Chain(p, own2, pos2)'
    <2>1. \A x \in Op : own2[x] = p <=> own[x] = p /\ x # o
      BY <1>1, <1>2, <1>6
    <2>2. \A x \in Op : own[x] = p /\ x # o =>
            pos2[x] = pos[x] /\ next'[x] = next[x]
      BY <1>1, <1>3, <1>6 DEF TypeOK
    <2>3. head'[p] = HeadsLeft[p] /\ tail'[p] = TailsLeft[p]
      BY <1>2, <1>3, <1>6 DEF TypeOK
    <2>4. Untouched(p, o, own, pos, own2, pos2)
      BY <2>1, <2>2, <2>3 DEF Untouched
    <2>5. Chained(p, head'[p], tail'[p], next', own2, pos2)
      BY <2>4, OthersLinked
    <2>6. QED
      BY <2>5 DEF Chain
  <1>7. Chain("timer", own2, pos2)'
    <2>1. \A x \in Op : own2[x] = "timer" <=> own[x] = "timer" \/ x = o
      BY <1>1
    <2>2. head'["timer"] = head["timer"]
          /\ tail'["timer"] = IF tail["timer"] = b THEN o ELSE tail["timer"]
      BY <1>2, <1>3 DEF TypeOK, Queue
    <2>3. /\ next'[b] = o /\ next'[o] = next[b]
          /\ \A x \in Op : x # o /\ x # b => next'[x] = next[x]
      BY <1>2, <1>3 DEF TypeOK
    <2>4. \A x \in Op : own[x] = "timer" =>
            /\ pos[head["timer"]] <= pos[x] /\ pos[x] <= pos[tail["timer"]]
            /\ pos[x] \in Int
      BY <1>1 DEF Chain, Chained
    <2>5. \A x \in Op : own[x] = "timer" /\ x # tail["timer"] =>
            /\ next[x] \in Op /\ own[next[x]] = "timer"
            /\ pos[next[x]] = pos[x] + 1
      BY <1>1 DEF Chain, Chained
    <2>6. \A x, y \in Op :
            own[x] = "timer" /\ own[y] = "timer" /\ pos[x] = pos[y] => x = y
      BY <1>1 DEF Chain, Chained
    <2>7. next[tail["timer"]] = NULL
      BY <1>1, <1>4 DEF Chain, Chained
    <2>8. /\ pos2[o] = pos[b] + 1
          /\ \A x \in Op : own[x] = "timer" =>
               /\ x # o
               /\ pos2[x] = IF pos[x] > pos[b] THEN pos[x] + 1 ELSE pos[x]
      BY <1>2
    <2>9. ASSUME NEW x \in Op, own2[x] = "timer"
          PROVE  pos2[head["timer"]] <= pos2[x]
                 /\ pos2[x] <= pos2[tail'["timer"]]
      <3>1. CASE tail["timer"] = b
        <4>1. \A y \in Op : own[y] = "timer" => pos2[y] = pos[y]
          BY <2>4, <2>8, <3>1
        <4>2. QED
          BY <1>4, <2>1, <2>2, <2>4, <2>8, <2>9, <3>1, <4>1
      <3>2. CASE tail["timer"] # b
        <4>1. pos[b] < pos[tail["timer"]]
          BY <1>4, <2>4, <2>6, <3>2
        <4>2. pos2[tail["timer"]] = pos[tail["timer"]] + 1
          BY <1>4, <2>8, <4>1
        <4>3. pos2[head["timer"]] = pos[head["timer"]]
          BY <1>4, <2>4, <2>8
        <4>4. QED
          BY <1>4, <2>1, <2>2, <2>4, <2>8, <2>9, <3>2, <4>1, <4>2, <4>3
      <3>3. QED
        BY <3>1, <3>2
    <2>10. ASSUME NEW x \in Op, own2[x] = "timer", x # tail'["timer"]
           PROVE  /\ next'[x] \in Op /\ own2[next'[x]] = "timer"
                  /\ pos2[next'[x]] = pos2[x] + 1
      <3>1. CASE x = b
        BY <2>1, <2>3, <2>4, <2>8, <3>1
      <3>2. CASE x = o
        <4>1. b # tail["timer"]
          BY <2>2, <2>10, <3>2
        <4>2. next[b] \in Op /\ own[next[b]] = "timer"
              /\ pos[next[b]] = pos[b] + 1
          BY <2>5, <4>1
        <4>3. pos2[next[b]] = pos[b] + 2
          BY <2>4, <2>8, <4>2
        <4>4. QED
          BY <2>1, <2>3, <2>4, <2>8, <3>2, <4>2, <4>3
      <3>3. CASE x # b /\ x # o
        <4>1. own[x] = "timer" /\ x # tail["timer"] /\ next'[x] = next[x]
          BY <2>1, <2>2, <2>3, <2>10, <3>3
        <4>2. next[x] \in Op /\ own[next[x]] = "timer"
              /\ pos[next[x]] = pos[x] + 1
          BY <2>5, <4>1
        <4>3. pos[x] # pos[b] /\ pos[x] \in Int /\ pos[b] \in Int
          BY <2>4, <2>6, <3>3, <4>1
        <4>4. QED
          BY <2>1, <2>8, <4>1, <4>2, <4>3
      <3>4. QED
        BY <3>1, <3>2, <3>3
    <2>11. ASSUME NEW x \in Op, NEW y \in Op, own2[x] = "timer",
                  own2[y] = "timer", pos2[x] = pos2[y]
           PROVE  x = y
      <3>1. \A z \in Op : own[z] = "timer" => pos2[z] # pos2[o]
        BY <2>4, <2>8
      <3>2. own[x] = "timer" /\ own[y] = "timer" => pos[x] = pos[y]
        BY <2>4, <2>8, <2>11
      <3>3. QED
        BY <2>1, <2>6, <2>11, <3>1, <3>2
    <2>12. next'[tail'["timer"]] = NULL
      BY <1>4, <2>2, <2>3, <2>7, <2>8
    <2>13. QED
      BY <1>4, <2>1, <2>2, <2>9, <2>10, <2>11, <2>12 DEF Chain, Chained, Op, NULL
  <1>8. \A x \in Op : own2[x] = "running" <=> x = cur'
    BY <1>1, <1>2 DEF Linked
  <1>9. ASSUME NEW p \in Queue PROVE Chain(p, own2, pos2)'
    BY <1>6, <1>7
  <1>10. Linked(own2, pos2)'
    BY <1>5, <1>8, <1>9 DEF Linked
  <1>11. QED
    BY <1>10 DEF OwnedAs

LEMMA InsertLinked ==
  ASSUME TypeOK, head["free"] # tail["free"], NEW o \in Op, o = Allocated,
         NEW t, NEW stamp, Insert(o, t, stamp), cur' = cur,
         NEW own, NEW pos, Linked(own, pos)
  PROVE  OwnedAs([own EXCEPT ![o] = "timer"])'
  <1>1. CASE InsertFirst(o)
    BY <1>1, InsertFirstLinked
  <1>2. ASSUME head["timer"] # NULL, NEW b \in Visited(t, stamp),
               InsertAfter(o, b)
        PROVE  OwnedAs([own EXCEPT ![o] = "timer"])'
    <2>1. b \in Op /\ own[b] = "timer"
      BY <1>2, WalkOnList
    <2>2. QED
      BY <1>2, <2>1, InsertAfterLinked
  <1>3. QED
    BY <1>1, <1>2 DEF Insert

LEMMA InitLinked == Init => Labelled
  <1> SUFFICES ASSUME Init PROVE Labelled
    OBVIOUS
  <1> PICK own : own = [o \in Op |-> "free"]
    OBVIOUS
  <1> PICK pos : pos = [o \in Op |-> o]
    OBVIOUS
  <1>1. own \in [Op -> Queue \cup {"running"}] /\ pos \in [Op -> Int]
    BY DEF Queue, Op
  <1>2. \A o \in Op : own[o] = "running" <=> o = cur
    BY DEF Init, Op, NULL
  <1>3. Chain("free", own, pos)
    <2>1. head["free"] = 1 /\ tail["free"] = PoolSize
      BY DEF Init, Queue
    <2>2. 1 \in Op /\ PoolSize \in Op /\ PoolSize # NULL
      BY PoolAssumption DEF Op, NULL
    <2>3. \A o \in Op : o # PoolSize => next[o] = o + 1 /\ next[o] \in Op
      BY PoolAssumption DEF Init, Op
    <2>4. \A o \in Op : 1 <= o /\ o <= PoolSize
      BY DEF Op
    <2>5. QED
      BY <2>1, <2>2, <2>3, <2>4 DEF Chain, Chained, NULL
  <1>4. ASSUME NEW q \in Queue, q # "free" PROVE Chain(q, own, pos)
    BY <1>4 DEF Init, Chain, Chained, Queue
  <1>5. QED
    BY <1>1, <1>2, <1>3, <1>4 DEF Labelled, OwnedAs, Linked

\* Following the links from the head of a list visits exactly the blocks
\* labelled with it.
LEMMA BlocksOfList ==
  ASSUME TypeOK, NEW own, NEW pos, Linked(own, pos), NEW q \in Queue
  PROVE  Block(q) = {o \in Op : own[o] = q}
  <1> DEFINE S == {o \in Op : own[o] = q}
  <1>1. /\ Chain(q, own, pos) /\ pos \in [Op -> Int]
        /\ head[q] \in Ptr /\ tail[q] \in Ptr
    BY DEF Linked, TypeOK
  <1>2. Block(q) \subseteq S
    <2>1. S \in SUBSET Op
      OBVIOUS
    <2>2. head[q] \in S \cup {NULL}
      BY <1>1 DEF Chain, Chained
    <2>3. \A x \in S : x = tail[q] \/ next[x] \in S \cup {NULL}
      BY <1>1 DEF Chain, Chained
    <2>4. QED
      BY <2>1, <2>2, <2>3 DEF Block
  <1>3. ASSUME NEW o \in S, NEW C \in SUBSET Op, head[q] \in C \cup {NULL},
               \A x \in C : x = tail[q] \/ next[x] \in C \cup {NULL}, o \notin C
        PROVE  FALSE
    \* The block of C on the list closest before o is not the tail, so its
    \* successor is in C too and is closer.
    <2> DEFINE Near == {x \in C : own[x] = q /\ pos[x] < pos[o]}
               Gap  == {pos[o] - pos[x] : x \in Near}
    <2>1. head[q] \in Near
      <3>1. head[q] \in Op /\ own[head[q]] = q /\ head[q] # NULL
            /\ pos[head[q]] <= pos[o]
        BY <1>1 DEF Chain, Chained, Op, NULL
      <3>2. head[q] \in C /\ head[q] # o
        BY <1>3, <3>1
      <3>3. pos[head[q]] # pos[o]
        BY <1>1, <3>1, <3>2 DEF Chain, Chained
      <3>4. QED
        BY <1>1, <3>1, <3>2, <3>3
    <2>2. Gap \subseteq Nat /\ Gap # {}
      BY <1>1, <2>1
    <2>3. PICK g \in Gap : \A h \in Gap : ~(h < g)
      <3>1. PICK g \in Gap : \A h \in Gap : <<h, g>> \notin OpToRel(<, Nat)
        BY <2>2, NatLessThanWellFounded, WFMin
      <3>2. \A h \in Gap : ~(h < g)
        BY <2>2, <3>1 DEF OpToRel
      <3>3. QED
        BY <3>2
    <2>4. PICK x \in Near : g = pos[o] - pos[x]
      BY <2>3
    <2>5. x \in Op /\ own[x] = q /\ pos[x] < pos[o] /\ x \in C
      OBVIOUS
    <2>6. x # tail[q]
      BY <1>1, <2>5 DEF Chain, Chained
    <2>7. next[x] \in Op /\ own[next[x]] = q /\ pos[next[x]] = pos[x] + 1
      BY <1>1, <2>5, <2>6 DEF Chain, Chained
    <2>8. next[x] \in C
      BY <1>3, <2>5, <2>6, <2>7 DEF Op, NULL
    <2>9. next[x] # o
      BY <1>3, <2>8
    <2>10. pos[next[x]] # pos[o]
      BY <1>1, <2>7, <2>9 DEF Chain, Chained
    <2>11. next[x] \in Near
      BY <1>1, <2>5, <2>7, <2>8, <2>10
    <2>12. pos[o] - pos[next[x]] \in Gap /\ pos[o] - pos[next[x]] < g
      BY <1>1, <2>4, <2>5, <2>7, <2>11
    <2>13. QED
      BY <2>3, <2>12
  <1>4. S \subseteq Block(q)
    BY <1>3 DEF Block
  <1>5. QED
    BY <1>2, <1>4

BlocksBy(own) == \A q \in Queue : Block(q) = {o \in Op : own[o] = q}

LEMMA OwnedBlocks ==
  ASSUME NEW own
  PROVE  TypeOK /\ OwnedAs(own) => BlocksBy(own)
  BY BlocksOfList DEF OwnedAs, BlocksBy

LEMMA OwnedBlocksAfter ==
  ASSUME NEW own
  PROVE  TypeOK' /\ OwnedAs(own)' => BlocksBy(own)'
  <1>1. TypeOK /\ OwnedAs(own) => BlocksBy(own)
    BY OwnedBlocks
  <1>2. QED
    BY <1>1, PTL

(***************************************************************************)
(* The steps in terms of the lists: each moves at most one block, from one *)
(* list to another or between a list and the running operation.            *)
(***************************************************************************)
Passes(o, q) ==
  \A r \in Queue :
    Block(r)' = IF r = q THEN Block(r) \cup {o} ELSE Block(r) \ {o}

LEMMA Relabelled ==
  ASSUME TypeOK, TypeOK', NEW own, OwnedAs(own), NEW o \in Op,
         NEW q \in Queue \cup {"running"},
         OwnedAs([own EXCEPT ![o] = q])'
  PROVE  Labelled' /\ Passes(o, q)
  <1>1. PICK own2 : own2 = [own EXCEPT ![o] = q]
    OBVIOUS
  <1>2. OwnedAs(own2)'
    BY <1>1
  <1>3. BlocksBy(own) /\ BlocksBy(own2)'
    BY <1>2, OwnedBlocks, OwnedBlocksAfter
  <1>4. own \in [Op -> Queue \cup {"running"}]
    BY DEF OwnedAs, Linked
  <1>5. ASSUME NEW r \in Queue
        PROVE  Block(r)' = IF r = q THEN Block(r) \cup {o} ELSE Block(r) \ {o}
    <2>1. Block(r) = {x \in Op : own[x] = r}
      BY <1>3 DEF BlocksBy
    <2>2. Block(r)' = {x \in Op : own2[x] = r}
      BY <1>3 DEF BlocksBy
    <2>3. \A x \in Op : own2[x] = IF x = o THEN q ELSE own[x]
      BY <1>1, <1>4
    <2>4. QED
      BY <2>1, <2>2, <2>3
  <1>6. QED
    BY <1>2, <1>5 DEF Labelled, Passes

\* Starting the head of list q.
LEMMA StartPasses ==
  ASSUME TypeOK, TypeOK', Labelled, cur = NULL, NEW q \in {"timer", "main"},
         NEW o, o = head[q], o # NULL, StartHead(q)
  PROVE  Labelled' /\ o \in Block(q) /\ Passes(o, "running")
  <1>0. PICK own : OwnedAs(own)
    BY DEF Labelled
  <1>1. PICK pos : Linked(own, pos)
    BY <1>0 DEF OwnedAs
  <1>2. o \in Op
    BY DEF TypeOK, Ptr, Queue
  <1>3. OwnedAs([own EXCEPT ![o] = "running"])'
    BY <1>1, <1>2, StartHeadLinked
  <1>4. o \in Block(q)
    <2>1. own[o] = q
      BY <1>1 DEF Linked, Chain, Chained, Queue
    <2>2. QED
      BY <1>0, <1>2, <2>1, OwnedBlocks DEF BlocksBy, Queue
  <1>5. QED
    BY <1>0, <1>2, <1>3, <1>4, Relabelled

\* Freeing the block of the operation that returns.
LEMMA FreePasses ==
  ASSUME TypeOK, TypeOK', Labelled, NEW o \in Op, cur = o, Free(o), cur' = NULL
  PROVE  Labelled' /\ Passes(o, "free") /\ \A q \in Queue : o \notin Block(q)
  <1>0. PICK own : OwnedAs(own)
    BY DEF Labelled
  <1>1. PICK pos : Linked(own, pos)
    BY <1>0 DEF OwnedAs
  <1>2. OwnedAs([own EXCEPT ![o] = "free"])'
    BY <1>1, FreeLinked
  <1>3. \A q \in Queue : o \notin Block(q)
    <2>1. own[o] = "running"
      BY <1>1 DEF Linked
    <2>2. QED
      BY <1>0, <2>1, OwnedBlocks DEF BlocksBy, Queue
  <1>4. QED
    BY <1>0, <1>2, <1>3, Relabelled DEF Queue

\* Registering, when a block is left in reserve: the first free block is used.
LEMMA ReserveAllocates ==
  ASSUME TypeOK, Labelled, head["free"] # tail["free"]
  PROVE  Allocated # NULL /\ Allocated \in Block("free")
  <1>0. PICK own : OwnedAs(own)
    BY DEF Labelled
  <1>1. PICK pos : Linked(own, pos)
    BY <1>0 DEF OwnedAs
  <1>2. Allocated # NULL /\ Allocated \in Op /\ own[Allocated] = "free"
    BY <1>1 DEF Linked, Chain, Chained, Queue, Allocated, Op, NULL
  <1>3. QED
    BY <1>0, <1>2, OwnedBlocks DEF BlocksBy, Queue

LEMMA RunWhenIdlePasses ==
  ASSUME TypeOK, TypeOK', Labelled, head["free"] # tail["free"],
         NEW o \in Op, o = Allocated, NEW f, RunWhenIdle(f), cur' = cur
  PROVE  Labelled' /\ Passes(o, "main")
  <1>0. PICK own : OwnedAs(own)
    BY DEF Labelled
  <1>1. PICK pos : Linked(own, pos)
    BY <1>0 DEF OwnedAs
  <1>2. OwnedAs([own EXCEPT ![o] = "main"])'
    BY <1>1, RunWhenIdleLinked
  <1>3. QED
    BY <1>0, <1>2, Relabelled DEF Queue

LEMMA RunAtTimePasses ==
  ASSUME TypeOK, TypeOK', Labelled, head["free"] # tail["free"],
         NEW o \in Op, o = Allocated, NEW t, NEW stamp,
         Insert(o, t, stamp), cur' = cur
  PROVE  Labelled' /\ Passes(o, "timer")
  <1>0. PICK own : OwnedAs(own)
    BY DEF Labelled
  <1>1. PICK pos : Linked(own, pos)
    BY <1>0 DEF OwnedAs
  <1>2. OwnedAs([own EXCEPT ![o] = "timer"])'
    BY <1>1, InsertLinked
  <1>3. QED
    BY <1>0, <1>2, Relabelled DEF Queue

LEMMA NothingPasses ==
  ASSUME Labelled, UNCHANGED <<next, head, tail, cur>>
  PROVE  Labelled' /\ \A q \in Queue : Block(q)' = Block(q)
  BY DEF Labelled, OwnedAs, Linked, Chain, Block

\* Every step relabels the blocks, as long as callers leave one block in
\* reserve.
LEMMA StepLinked ==
  ASSUME ~Overcommit, TypeOK, TypeOK', Labelled, [Next]_vars
  PROVE  Labelled'
  <1>2. CASE RunDue
    <2>1. sel \in {"timer", "main"} /\ head[sel] # NULL /\ StartHead(sel)
          /\ cur = NULL
      BY <1>2 DEF RunDue, HeadIsDue, TypeOK
    <2>2. QED
      BY <2>1, StartPasses
  <1>3. CASE PickIdle
    <2>1. head["main"] # NULL /\ StartHead("main") /\ cur = NULL
      BY <1>3 DEF PickIdle, TypeOK
    <2>2. QED
      BY <2>1, StartPasses
  <1>4. CASE Return
    <2>1. Free(cur) /\ cur' = NULL /\ cur \in Op
      BY <1>4 DEF Return, TypeOK, Ptr
    <2>2. QED
      BY <2>1, FreePasses
  <1>5. ASSUME NEW c \in Context, NEW f \in Task, PostIdle(c, f)
        PROVE  Labelled'
    <2>1. RunWhenIdle(f) /\ cur' = cur /\ head["free"] # tail["free"]
      BY <1>5 DEF PostIdle, Register, MayAllocate, thread
    <2>2. Allocated \in Op
      BY <2>1, ReserveAllocates DEF Block
    <2>3. QED
      BY <2>1, <2>2, RunWhenIdlePasses
  <1>6. ASSUME NEW c \in Context, NEW f \in Task, NEW d \in Delay,
               PostTimed(c, f, d)
        PROVE  Labelled'
    <2>1. RunAtTime(f, Shift(now, d)) /\ cur' = cur /\ head["free"] # tail["free"]
      BY <1>6 DEF PostTimed, Register, MayAllocate, thread
    <2>2. Allocated \in Op /\ Allocated # NULL
      BY <2>1, ReserveAllocates DEF Block
    <2>3. Insert(Allocated, Shift(now, d), time')
      BY <2>1, <2>2 DEF RunAtTime
    <2>4. QED
      BY <2>1, <2>2, <2>3, RunAtTimePasses
  <1>7. CASE Wake \/ NothingDue \/ PickNothing \/ Finish \/ Sleep \/ Tick
              \/ UNCHANGED vars
    <2>1. UNCHANGED <<next, head, tail, cur>>
      BY <1>7 DEF Wake, NothingDue, PickNothing, Finish, Sleep, Tick, vars,
                  blocks, lists, thread
    <2>2. QED
      BY <2>1, NothingPasses
  <1>8. QED
    BY <1>2, <1>3, <1>4, <1>5, <1>6, <1>7 DEF Next, MainThread, Callers

LEMMA LinkedPartition == TypeOK /\ Labelled => Partition
  <1> SUFFICES ASSUME TypeOK, Labelled PROVE Partition
    OBVIOUS
  <1>1. PICK own, pos : Linked(own, pos)
    BY DEF Labelled, OwnedAs
  <1>2. \A q \in Queue : Block(q) = {o \in Op : own[o] = q}
    BY <1>1, BlocksOfList
  <1>3. own \in [Op -> Queue \cup {"running"}]
        /\ \A o \in Op : own[o] = "running" <=> o = cur
    BY <1>1 DEF Linked
  <1>4. \A p, q \in Queue : p # q => Block(p) \cap Block(q) = {}
    BY <1>2
  <1>5. \A q \in Queue : cur \notin Block(q)
    BY <1>2, <1>3 DEF Queue
  <1>6. Running \subseteq Op
    BY DEF Running, TypeOK, Ptr
  <1>7. \A o \in Op : o \in Running \/ \E q \in Queue : o \in Block(q)
    BY <1>2, <1>3 DEF Running, Op, NULL
  <1>8. Op = Running \cup UNION {Block(q) : q \in Queue}
    BY <1>2, <1>6, <1>7
  <1>9. QED
    BY <1>4, <1>5, <1>8 DEF Partition

\* While callers leave one free block in reserve, no block is ever lost or
\* handed out twice, for every pool size and every interleaving of interrupts,
\* callbacks and the clock.
THEOREM PoolPartitioned == ~Overcommit => (Spec => []Partition)
  <1> SUFFICES ASSUME ~Overcommit PROVE Spec => []Partition
    OBVIOUS
  <1>1. Init => Labelled
    BY InitLinked
  <1>2. TypeOK /\ TypeOK' /\ Labelled /\ [Next]_vars => Labelled'
    BY StepLinked
  <1>3. TypeOK /\ Labelled => Partition
    BY LinkedPartition
  <1>4. QED
    BY <1>1, <1>2, <1>3, TypeCorrect, PTL DEF Spec

(***************************************************************************)
(* No registration is lost: a pending task is the function of a block on   *)
(* one of the two lists dispatch() serves.                                 *)
(***************************************************************************)
Queued == Block("main") \cup Block("timer")

LEMMA StartCarries ==
  ASSUME TypeOK, TypeOK', Labelled, NothingLost, cur = NULL,
         NEW q \in {"timer", "main"}, head[q] # NULL, StartHead(q)
  PROVE  NothingLost'
  <1>1. PICK o : o = head[q]
    OBVIOUS
  <1>2. Passes(o, "running") /\ UNCHANGED func /\ pending' = pending \ {func[o]}
    BY <1>1, StartPasses DEF StartHead, blocks
  <1>3. Queued' = Queued \ {o}
    BY <1>2 DEF Passes, Queued, Queue
  <1>4. ASSUME NEW f \in pending' PROVE \E x \in Queued' : func'[x] = f
    <2>1. PICK x \in Queued : func[x] = f
      BY <1>2 DEF NothingLost, Queued
    <2>2. x # o
      BY <1>2, <2>1
    <2>3. QED
      BY <1>2, <1>3, <2>1, <2>2
  <1>5. QED
    BY <1>4 DEF NothingLost, Queued

\* A block taken from the free list carries the new task and no other.
LEMMA RegisterCarries ==
  ASSUME NothingLost, TypeOK, NEW o \in Block("free"), NEW f,
         Queued' = Queued \cup {o}, o \notin Queued,
         func' = [func EXCEPT ![o] = f], pending' = pending \cup {f}
  PROVE  NothingLost'
  <1>1. o \in Op /\ func'[o] = f
    BY DEF Block, TypeOK
  <1>2. ASSUME NEW g \in pending PROVE \E x \in Queued' : func'[x] = g
    <2>1. PICK x \in Queued : func[x] = g
      BY DEF NothingLost, Queued
    <2>2. x # o /\ x \in Op
      BY DEF Queued, Block
    <2>3. QED
      BY <2>1, <2>2 DEF TypeOK
  <1>3. QED
    BY <1>1, <1>2 DEF NothingLost, Queued

LEMMA StepCarries ==
  ASSUME ~Overcommit, TypeOK, TypeOK', Labelled, NothingLost, [Next]_vars
  PROVE  NothingLost'
  <1>1. CASE RunDue
    <2>1. sel \in {"timer", "main"} /\ head[sel] # NULL /\ StartHead(sel)
          /\ cur = NULL
      BY <1>1 DEF RunDue, HeadIsDue, TypeOK
    <2>2. QED
      BY <2>1, StartCarries
  <1>2. CASE PickIdle
    <2>1. head["main"] # NULL /\ StartHead("main") /\ cur = NULL
      BY <1>2 DEF PickIdle, TypeOK
    <2>2. QED
      BY <2>1, StartCarries
  <1>3. CASE Return
    <2>1. Free(cur) /\ cur' = NULL /\ cur \in Op /\ pending' = pending
      BY <1>3 DEF Return, TypeOK, Ptr
    <2>2. Passes(cur, "free") /\ \A q \in Queue : cur \notin Block(q)
      BY <2>1, FreePasses
    <2>3. Queued' = Queued
      BY <2>2 DEF Passes, Queued, Queue
    <2>4. func' = func
      BY <2>1 DEF Free
    <2>5. QED
      BY <2>1, <2>3, <2>4 DEF NothingLost, Queued
  <1>4. ASSUME NEW c \in Context, NEW f \in Task, PostIdle(c, f)
        PROVE  NothingLost'
    <2>1. RunWhenIdle(f) /\ cur' = cur /\ head["free"] # tail["free"]
          /\ pending' = pending \cup {f}
      BY <1>4 DEF PostIdle, Register, MayAllocate, thread
    <2>2. PICK o : o = Allocated /\ o # NULL /\ o \in Block("free")
      BY <2>1, ReserveAllocates
    <2>3. func' = [func EXCEPT ![o] = f]
      BY <2>1, <2>2 DEF RunWhenIdle
    <2>4. Passes(o, "main")
      BY <2>1, <2>2, RunWhenIdlePasses DEF Block
    <2>5. o \notin Queued
      BY <2>2, LinkedPartition DEF Partition, Queued, Queue
    <2>6. Queued' = Queued \cup {o}
      BY <2>4, <2>5 DEF Passes, Queued, Queue
    <2>7. QED
      BY <2>1, <2>2, <2>3, <2>5, <2>6, RegisterCarries
  <1>5. ASSUME NEW c \in Context, NEW f \in Task, NEW d \in Delay,
               PostTimed(c, f, d)
        PROVE  NothingLost'
    <2>1. RunAtTime(f, Shift(now, d)) /\ cur' = cur /\ head["free"] # tail["free"]
          /\ pending' = pending \cup {f}
      BY <1>5 DEF PostTimed, Register, MayAllocate, thread
    <2>2. PICK o : o = Allocated /\ o # NULL /\ o \in Block("free")
      BY <2>1, ReserveAllocates
    <2>3. func' = [func EXCEPT ![o] = f] /\ Insert(o, Shift(now, d), time')
      BY <2>1, <2>2 DEF RunAtTime
    <2>4. Passes(o, "timer")
      BY <2>1, <2>2, <2>3, RunAtTimePasses DEF Block
    <2>5. o \notin Queued
      BY <2>2, LinkedPartition DEF Partition, Queued, Queue
    <2>6. Queued' = Queued \cup {o}
      BY <2>4, <2>5 DEF Passes, Queued, Queue
    <2>7. QED
      BY <2>1, <2>2, <2>3, <2>5, <2>6, RegisterCarries
  <1>6. CASE Wake \/ NothingDue \/ PickNothing \/ Finish \/ Sleep \/ Tick
              \/ UNCHANGED vars
    <2>1. UNCHANGED <<next, head, tail, cur, func, pending>>
      BY <1>6 DEF Wake, NothingDue, PickNothing, Finish, Sleep, Tick, vars,
                  blocks, lists, thread
    <2>2. \A q \in Queue : Block(q)' = Block(q)
      BY <2>1, NothingPasses
    <2>3. QED
      BY <2>1, <2>2 DEF NothingLost, Queue
  <1>7. QED
    BY <1>1, <1>2, <1>3, <1>4, <1>5, <1>6 DEF Next, MainThread, Callers

\* While callers leave a free block in reserve, no task that run_when_idle or
\* run_at_time accepted is dropped before dispatch() starts it, although the
\* next pointer of the last free block is stale.
THEOREM TasksAreKept == ~Overcommit => (Spec => []NothingLost)
  <1> SUFFICES ASSUME ~Overcommit PROVE Spec => []NothingLost
    OBVIOUS
  <1>1. Init => Labelled
    BY InitLinked
  <1>2. Init => NothingLost
    BY DEF Init, NothingLost
  <1>3. TypeOK /\ TypeOK' /\ Labelled /\ [Next]_vars => Labelled'
    BY StepLinked
  <1>4. TypeOK /\ TypeOK' /\ Labelled /\ NothingLost /\ [Next]_vars
          => NothingLost'
    BY StepCarries
  <1>5. QED
    BY <1>1, <1>2, <1>3, <1>4, TypeCorrect, PTL DEF Spec

(***************************************************************************)
(* Sleeping.  From the end of dispatch() on, only an interrupt can put an  *)
(* operation on the idle list, and it leaves an event behind.              *)
(***************************************************************************)
Drained ==
  line \in {"reset", "serial", "wait"} /\ ~wake => head["main"] = NULL

LEMMA RunAtTimeMain ==
  ASSUME TypeOK, NEW f, NEW t, RunAtTime(f, t)
  PROVE  head'["main"] = head["main"]
  BY DEF RunAtTime, Insert, InsertFirst, InsertAfter, HeadsLeft, TypeOK, lists,
         Queue

LEMMA StepDrained ==
  ASSUME <<"serial", "idle">> \notin Posts, TypeOK, Drained, [Next]_vars
  PROVE  Drained'
  <1>1. CASE RunDue \/ PickIdle \/ Wake \/ NothingDue
    BY <1>1 DEF RunDue, PickIdle, StartHead, Wake, NothingDue, Drained
  <1>2. CASE PickNothing
    BY <1>2 DEF PickNothing, Drained, lists
  <1>3. CASE Return
    BY <1>3 DEF Return, Drained
  <1>4. CASE Finish \/ Sleep
    BY <1>4 DEF Finish, Sleep, Drained, lists
  <1>5. ASSUME NEW c \in Context, NEW f \in Task, PostIdle(c, f)
        PROVE  Drained'
    <2>1. c \in {"idle", "timer"} => line' = "func"
      BY <1>5 DEF PostIdle, Register, Calling, thread
    <2>2. c = "interrupt" => wake'
      BY <1>5 DEF PostIdle, Register
    <2>3. c # "serial"
      BY <1>5 DEF PostIdle, Register
    <2>4. QED
      BY <2>1, <2>2, <2>3 DEF Drained, Context
  <1>6. ASSUME NEW c \in Context, NEW f \in Task, NEW d \in Delay,
               PostTimed(c, f, d)
        PROVE  Drained'
    <2>1. RunAtTime(f, Shift(now, d)) /\ line' = line /\ (~wake' => ~wake)
      BY <1>6 DEF PostTimed, Register, thread, TypeOK
    <2>2. head'["main"] = head["main"]
      BY <2>1, RunAtTimeMain
    <2>3. QED
      BY <2>1, <2>2 DEF Drained
  <1>7. CASE Tick
    BY <1>7 DEF Tick, Drained, lists, thread, TypeOK
  <1>8. CASE UNCHANGED vars
    BY <1>8 DEF vars, lists, thread, Drained
  <1>9. QED
    BY <1>1, <1>2, <1>3, <1>4, <1>5, <1>6, <1>7, <1>8
       DEF Next, MainThread, Callers

\* The processor never goes to sleep on a registered idle operation, as long as
\* the serial callback of the main loop registers none: what an interrupt adds
\* after dispatch() looked at the list also ends the sleep.
THEOREM SleepsDrained ==
  <<"serial", "idle">> \notin Posts => (Spec => []IdleDrained)
  <1> SUFFICES ASSUME <<"serial", "idle">> \notin Posts
               PROVE  Spec => []IdleDrained
    OBVIOUS
  <1>1. Init => Drained
    BY DEF Init, Drained
  <1>2. TypeOK /\ Drained /\ [Next]_vars => Drained'
    BY StepDrained
  <1>3. Drained => IdleDrained
    BY DEF Drained, IdleDrained
  <1>4. QED
    BY <1>1, <1>2, <1>3, TypeCorrect, PTL DEF Spec

-----------------------------------------------------------------------------
(***************************************************************************)
(* The timed operations: the timer list is in order across the wrap of the *)
(* counter, and the processor never sleeps through one.                    *)
(*                                                                         *)
(* The counter is cyclic, so an order of times only makes sense within a   *)
(* window.  The invariant labels every timed block with its lead, how far  *)
(* ahead of the clock it is (negative when it is overdue), and the compare *)
(* register with the time left to sleep.  Leads are integers, and Later    *)
(* compares them because they stay within half a turn of each other.       *)
(***************************************************************************)

\* How late a timed operation can be: as late as the processor gets while it
\* is awake, and the shortest sleep the compare register allows.
Slack == MaxLag + MinDelay

\* The window: callers set operations less than half a turn ahead, reckoned
\* from the latest one still waiting.
Roomy ==
  /\ MinDelay > 0
  /\ Slack + MinDelay < TimeMod \div 2 - 1
  /\ \A d \in Delay : Slack + d < TimeMod \div 2 - 1

Timers == Block("timer")
Reach  == TimeMod \div 2 - 2 - Slack

\* Leads and the time left to sleep are what the registers say.
Reckoned(lead, sleep) ==
  /\ sleep \in Time
  /\ cc = Shift(now, sleep)
  /\ \A o \in Timers : /\ lead[o] \in (-Slack)..Reach
                       /\ time[o] = Shift(now, lead[o])

Ascending(lead) ==
  /\ lead \in [Op -> Int]
  /\ \A o \in Timers : o # tail["timer"] => lead[o] <= lead[next[o]]

\* Once a dispatch() has found no timed operation due, they get no later than
\* MaxLag until the processor sleeps.
Prompt(lead) ==
  sel = "main" /\ line # "wait" => \A o \in Timers : lead[o] >= -MaxLag

\* The alarm goes off before the first operation is due, or after at most
\* MinDelay and before any of them is later than Slack.
Armed(lead, sleep) ==
  line \in {"serial", "wait"} /\ ~wake =>
    /\ sleep > 0
    /\ \A o \in Timers : \/ sleep <= lead[o]
                         \/ sleep <= MinDelay /\ lead[o] >= sleep - Slack

Timely(lead, sleep) ==
  /\ Reckoned(lead, sleep)
  /\ Ascending(lead)
  /\ Prompt(lead)
  /\ Armed(lead, sleep)

InMain == line \in {"pick", "reset", "serial"} => sel = "main"

TimersKept == InMain /\ \E lead, sleep : Timely(lead, sleep)

(***************************************************************************)
(* Arithmetic of the counter.                                              *)
(***************************************************************************)
LEMMA ModSmall ==
  ASSUME NEW m \in Nat, m > 0, NEW x \in Int, -m <= x, x < 2 * m
  PROVE  x % m = IF x < 0 THEN x + m ELSE IF x < m THEN x ELSE x - m
  <1>1. CASE x < 0
    BY <1>1
  <1>2. CASE 0 <= x /\ x < m
    BY <1>2
  <1>3. CASE m <= x
    BY <1>3
  <1>4. QED
    BY <1>1, <1>2, <1>3

LEMMA ShiftWraps ==
  ASSUME NEW n \in Time, NEW a \in Int, -TimeMod < a, a <= TimeMod
  PROVE  /\ Shift(n, a) = IF n + a < 0 THEN n + a + TimeMod
                          ELSE IF n + a < TimeMod THEN n + a
                          ELSE n + a - TimeMod
         /\ Shift(n, a) \in Time
  <1>1. /\ TimeMod \in Nat /\ TimeMod > 0 /\ n + a \in Int
        /\ -TimeMod <= n + a /\ n + a < 2 * TimeMod
    BY ClockAssumption DEF Time
  <1>2. (n + a) % TimeMod = IF n + a < 0 THEN n + a + TimeMod
                            ELSE IF n + a < TimeMod THEN n + a
                            ELSE n + a - TimeMod
    <2>1. PICK x \in Int : x = n + a
      BY <1>1
    <2>2. x % TimeMod = IF x < 0 THEN x + TimeMod
                        ELSE IF x < TimeMod THEN x ELSE x - TimeMod
      BY <1>1, <2>1, ModSmall
    <2>3. n \in Int
      BY DEF Time
    <2>4. QED
      BY <1>1, <2>1, <2>2, <2>3
  <1>3. QED
    BY <1>1, <1>2 DEF Shift, Time

\* A lead is what the difference of the registers shows, modulo the turn.
LEMMA Difference ==
  ASSUME NEW n \in Time, NEW a \in Int, NEW b \in Int,
         -TimeMod < a, a < TimeMod, -TimeMod < b, b < TimeMod,
         -TimeMod < a - b, a - b < TimeMod
  PROVE  (Shift(n, a) - Shift(n, b)) % TimeMod
           = IF a >= b THEN a - b ELSE a - b + TimeMod
  <1>1. PICK x \in Time : /\ x = Shift(n, a)
                          /\ x = IF n + a < 0 THEN n + a + TimeMod
                                 ELSE IF n + a < TimeMod THEN n + a
                                 ELSE n + a - TimeMod
    BY ShiftWraps, ClockAssumption
  <1>2. PICK y \in Time : /\ y = Shift(n, b)
                          /\ y = IF n + b < 0 THEN n + b + TimeMod
                                 ELSE IF n + b < TimeMod THEN n + b
                                 ELSE n + b - TimeMod
    BY ShiftWraps, ClockAssumption
  <1>3. TimeMod \in Nat /\ TimeMod > 0 /\ n \in Int /\ x \in Int /\ y \in Int
        /\ 0 <= x /\ x < TimeMod /\ 0 <= y /\ y < TimeMod
    BY ClockAssumption DEF Time
  <1>4. (x - y) % TimeMod = IF x - y < 0 THEN x - y + TimeMod ELSE x - y
    BY <1>3, ModSmall
  <1>5. x - y = a - b \/ x - y = a - b + TimeMod \/ x - y = a - b - TimeMod
        \/ x - y = a - b + 2 * TimeMod \/ x - y = a - b - 2 * TimeMod
    BY <1>1, <1>2, <1>3
  <1>6. QED
    BY <1>1, <1>2, <1>3, <1>4, <1>5

LEMMA LaterByLead ==
  ASSUME NEW n \in Time, NEW a \in Int, NEW b \in Int,
         -TimeMod < a, a < TimeMod, -TimeMod < b, b < TimeMod,
         -(TimeMod \div 2 + 1) <= a - b, a - b <= TimeMod \div 2 - 2
  PROVE  Later(Shift(n, a), Shift(n, b)) <=> a >= b
  <1>1. PICK h \in Nat : h = TimeMod \div 2 /\ 2 * h <= TimeMod
                         /\ TimeMod <= 2 * h + 1
    BY ClockAssumption
  <1>2. -TimeMod < a - b /\ a - b < TimeMod
    BY <1>1, ClockAssumption
  <1>3. (Shift(n, a) - Shift(n, b)) % TimeMod
          = IF a >= b THEN a - b ELSE a - b + TimeMod
    BY <1>2, Difference
  <1>4. QED
    BY <1>1, <1>3, ClockAssumption DEF Later

LEMMA ShiftZero ==
  ASSUME NEW n \in Time
  PROVE  Shift(n, 0) = n
  BY ShiftWraps, ClockAssumption DEF Time

LEMMA ShiftOn ==
  ASSUME NEW n \in Time, NEW a \in Int, -TimeMod + 1 < a, a <= TimeMod
  PROVE  Shift(Shift(n, 1), a - 1) = Shift(n, a)
  <1>1. PICK x \in Time : x = Shift(n, 1)
                          /\ x = IF n + 1 < TimeMod THEN n + 1 ELSE 0
    BY ShiftWraps, ClockAssumption DEF Time
  <1>2. TimeMod \in Nat /\ TimeMod > 3 /\ n \in Int /\ 0 <= n /\ n < TimeMod
    BY ClockAssumption DEF Time
  <1>3. Shift(x, a - 1) = IF x + a - 1 < 0 THEN x + a - 1 + TimeMod
                          ELSE IF x + a - 1 < TimeMod THEN x + a - 1
                          ELSE x + a - 1 - TimeMod
    <2>1. PICK c \in Int : c = a - 1
      OBVIOUS
    <2>2. -TimeMod < c /\ c <= TimeMod
      BY <1>2, <2>1
    <2>3. Shift(x, c) = IF x + c < 0 THEN x + c + TimeMod
                        ELSE IF x + c < TimeMod THEN x + c
                        ELSE x + c - TimeMod
      BY <2>2, ShiftWraps
    <2>4. x \in Int
      BY DEF Time
    <2>5. QED
      BY <1>2, <2>1, <2>3, <2>4
  <1>4. Shift(n, a) = IF n + a < 0 THEN n + a + TimeMod
                      ELSE IF n + a < TimeMod THEN n + a
                      ELSE n + a - TimeMod
    BY <1>2, ShiftWraps
  <1>5. QED
    BY <1>1, <1>2, <1>3, <1>4

LEMMA Room ==
  ASSUME Roomy
  PROVE  /\ Slack \in Nat /\ MinDelay \in Nat /\ MaxLag \in Nat /\ Reach \in Nat
         /\ MinDelay > 0 /\ Slack = MaxLag + MinDelay
         /\ Slack + Reach = TimeMod \div 2 - 2
         /\ MinDelay <= Reach
         /\ TimeMod \in Nat /\ TimeMod \div 2 \in Nat
         /\ 2 * (TimeMod \div 2) <= TimeMod
         /\ TimeMod <= 2 * (TimeMod \div 2) + 1
         /\ \A d \in Delay : d \in 0..Reach
  <1>1. TimeMod \div 2 \in Nat /\ 2 * (TimeMod \div 2) <= TimeMod
        /\ TimeMod <= 2 * (TimeMod \div 2) + 1
    BY ClockAssumption
  <1>2. QED
    BY <1>1, ClockAssumption DEF Roomy, Slack, Reach

(***************************************************************************)
(* The shape of a list, without the labels.                                *)
(***************************************************************************)
LEMMA ListShape ==
  ASSUME TypeOK, Labelled, NEW q \in Queue
  PROVE  /\ head[q] = NULL => Block(q) = {} /\ tail[q] = NULL
         /\ head[q] # NULL => head[q] \in Block(q) /\ tail[q] \in Block(q)
         /\ \A o \in Block(q) : o # tail[q] => next[o] \in Block(q)
         /\ q # "free" /\ tail[q] # NULL => next[tail[q]] = NULL
         /\ Block(q) \subseteq Op
  <1>0. PICK own : OwnedAs(own)
    BY DEF Labelled
  <1>1. PICK pos : Linked(own, pos)
    BY <1>0 DEF OwnedAs
  <1>2. Chain(q, own, pos)
    BY <1>1 DEF Linked
  <1>3. Block(q) = {o \in Op : own[o] = q}
    BY <1>1, BlocksOfList
  <1>4. QED
    BY <1>2, <1>3 DEF Chain, Chained

\* The lists have no block in common.
LEMMA ListsApart ==
  ASSUME TypeOK, Labelled, NEW p \in Queue, NEW q \in Queue, p # q
  PROVE  Block(p) \cap Block(q) = {}
  BY LinkedPartition DEF Partition

\* Leads rise along the links, so the head's is the least.
\* Block first, if there is one, has the least lead of the blocks in T.
Least(first, T, lead) ==
  IF first = NULL THEN T = {}
  ELSE first \in T /\ \A o \in T : lead[first] <= lead[o]

LeastHead(lead) == Least(head["timer"], Timers, lead)

LEMMA HeadLeast ==
  ASSUME NEW lead
  PROVE  TypeOK /\ Labelled /\ Ascending(lead) => LeastHead(lead)
  <1> SUFFICES ASSUME TypeOK, Labelled, Ascending(lead) PROVE LeastHead(lead)
    OBVIOUS
  <1> DEFINE S == {o \in Timers : lead[head["timer"]] <= lead[o]}
  <1>1. CASE head["timer"] = NULL
    BY <1>1, ListShape DEF LeastHead, Least, Timers, Queue
  <1>2. CASE head["timer"] # NULL
    <2>1. head["timer"] \in Timers /\ Timers \subseteq Op
      BY <1>2, ListShape DEF Timers, Queue
    <2>2. head["timer"] \in S
      BY <2>1 DEF Ascending
    <2>3. ASSUME NEW x \in S, x # tail["timer"] PROVE next[x] \in S
      <3>1. next[x] \in Timers
        BY <2>3, ListShape DEF Timers, Queue
      <3>2. lead[x] <= lead[next[x]]
        BY <2>3 DEF Ascending
      <3>3. QED
        BY <2>1, <3>1, <3>2 DEF Ascending
    <2>4. S \in SUBSET Op
      BY <2>1
    <2>5. Timers \subseteq S
      BY <2>2, <2>3, <2>4 DEF Timers, Block
    <2>6. QED
      BY <1>2, <2>1, <2>5 DEF LeastHead, Least
  <1>3. QED
    BY <1>1, <1>2

LEMMA HeadLeastAfter ==
  ASSUME NEW lead
  PROVE  TypeOK' /\ Labelled' /\ Ascending(lead)' => LeastHead(lead)'
  <1>1. TypeOK /\ Labelled /\ Ascending(lead) => LeastHead(lead)
    BY HeadLeast
  <1>2. QED
    BY <1>1, PTL

(***************************************************************************)
(* Reading the registers through the labels.                               *)
(***************************************************************************)
LEMMA LaterTimers ==
  ASSUME Roomy, TypeOK, NEW lead, NEW sleep, Reckoned(lead, sleep),
         NEW a \in Timers, NEW b \in Timers
  PROVE  Later(time[a], time[b]) <=> lead[a] >= lead[b]
  <1>1. /\ lead[a] \in (-Slack)..Reach /\ time[a] = Shift(now, lead[a])
        /\ lead[b] \in (-Slack)..Reach /\ time[b] = Shift(now, lead[b])
        /\ now \in Time
    BY DEF Reckoned, TypeOK
  <1>2. PICK x \in Int, y \in Int : x = lead[a] /\ y = lead[b]
    BY <1>1, Room
  <1>3. /\ -TimeMod < x /\ x < TimeMod /\ -TimeMod < y /\ y < TimeMod
        /\ -(TimeMod \div 2 + 1) <= x - y /\ x - y <= TimeMod \div 2 - 2
    BY <1>1, <1>2, Room
  <1>4. QED
    BY <1>1, <1>2, <1>3, LaterByLead

LEMMA DueByLead ==
  ASSUME Roomy, TypeOK, NEW lead, NEW sleep, Reckoned(lead, sleep),
         NEW a \in Timers
  PROVE  Later(now, time[a]) <=> lead[a] <= 0
  <1>1. /\ lead[a] \in (-Slack)..Reach /\ time[a] = Shift(now, lead[a])
        /\ now \in Time
    BY DEF Reckoned, TypeOK
  <1>2. PICK x \in Int : x = lead[a]
    BY <1>1, Room
  <1>3. /\ -TimeMod < x /\ x < TimeMod
        /\ -(TimeMod \div 2 + 1) <= 0 - x /\ 0 - x <= TimeMod \div 2 - 2
    BY <1>1, <1>2, Room
  <1>4. Later(Shift(now, 0), Shift(now, x)) <=> 0 >= x
    BY <1>1, <1>3, LaterByLead, ClockAssumption
  <1>5. Shift(now, 0) = now
    BY <1>1, ShiftZero
  <1>6. QED
    BY <1>1, <1>2, <1>4, <1>5

LEMMA TimersLater ==
  ASSUME Roomy, TypeOK, NEW lead, NEW sleep, Timely(lead, sleep), Labelled
  PROVE  TimersInOrder
  <1>1. ASSUME NEW o \in Timers, o # tail["timer"]
        PROVE  Later(time[next[o]], time[o])
    <2>1. next[o] \in Timers
      BY <1>1, ListShape DEF Timers, Queue
    <2>2. lead[o] <= lead[next[o]] /\ Reckoned(lead, sleep)
      BY <1>1 DEF Timely, Ascending
    <2>3. lead[o] \in Int /\ lead[next[o]] \in Int
      BY <2>1, <2>2, ListShape, <1>1 DEF Timely, Ascending, Timers, Queue
    <2>4. QED
      BY <2>1, <2>2, <2>3, LaterTimers
  <1>2. QED
    BY <1>1 DEF TimersInOrder, Timers

LEMMA TimersAlarm ==
  ASSUME Roomy, TypeOK, NEW lead, NEW sleep, Timely(lead, sleep)
  PROVE  AlarmArmed
  <1> SUFFICES ASSUME line = "wait", ~wake, NEW o \in Timers
               PROVE  LET s == (cc - now) % TimeMod
                      IN \/ s <= MinDelay
                         \/ ~Later(now, time[o]) /\ s <= (time[o] - now) % TimeMod
    BY DEF AlarmArmed, Timers
  <1>0. now \in Time
    BY DEF TypeOK
  <1>1. Reckoned(lead, sleep) /\ Armed(lead, sleep)
    BY DEF Timely
  <1>2. PICK s \in Time : s = sleep
    BY <1>1 DEF Reckoned
  <1>3. PICK x \in Int : x = lead[o] /\ x \in (-Slack)..Reach
    BY <1>1, Room DEF Reckoned
  <1>4. cc = Shift(now, s) /\ time[o] = Shift(now, x) /\ Shift(now, 0) = now
    BY <1>0, <1>1, <1>2, <1>3, ShiftZero DEF Reckoned
  <1>5. (cc - now) % TimeMod = s
    <2>1. s \in Int /\ 0 <= s /\ s < TimeMod
      BY ClockAssumption DEF Time
    <2>2. (Shift(now, s) - Shift(now, 0)) % TimeMod = s
      BY <1>0, <2>1, Difference, ClockAssumption
    <2>3. QED
      BY <1>4, <2>2
  <1>6. CASE s <= x
    <2>1. s > 0 /\ s \in Int
      BY <1>1, <1>2 DEF Armed, Time
    <2>2. ~Later(now, time[o])
      BY <1>1, <1>3, <1>6, <2>1, DueByLead
    <2>3. (time[o] - now) % TimeMod = x
      <3>1. 0 <= x /\ x < TimeMod
        BY <1>3, <1>6, <2>1, Room
      <3>2. (Shift(now, x) - Shift(now, 0)) % TimeMod = x
        BY <1>0, <3>1, Difference, ClockAssumption
      <3>3. QED
        BY <1>4, <3>2
    <2>4. QED
      BY <1>5, <1>6, <2>2, <2>3
  <1>7. QED
    BY <1>1, <1>2, <1>3, <1>5, <1>6 DEF Armed

(***************************************************************************)
(* The steps that insert no timed operation.                               *)
(***************************************************************************)
LEMMA FewerTimers ==
  ASSUME NEW lead, NEW sleep, Reckoned(lead, sleep), Ascending(lead),
         Timers' \subseteq Timers, UNCHANGED <<now, cc>>,
         \A o \in Timers' : /\ time'[o] = time[o] /\ next'[o] = next[o]
                            /\ o = tail["timer"] => o = tail'["timer"]
  PROVE  Reckoned(lead, sleep)' /\ Ascending(lead)'
  BY DEF Reckoned, Ascending

LEMMA StartTimely ==
  ASSUME TypeOK, TypeOK', Labelled, cur = NULL, line # "wait",
         NEW q \in {"timer", "main"}, head[q] # NULL, StartHead(q),
         NEW lead, NEW sleep, Timely(lead, sleep)
  PROVE  Timely(lead, sleep)'
  <1>1. PICK o : o = head[q]
    OBVIOUS
  <1>2. Passes(o, "running") /\ o \in Block(q)
    BY <1>1, StartPasses
  <1>3. /\ UNCHANGED <<next, time, now, cc, sel, wake>> /\ line' = "func"
        /\ tail' = IF next[o] = NULL THEN [tail EXCEPT ![q] = NULL] ELSE tail
    BY <1>1 DEF StartHead, blocks
  <1>4. Timers' = Timers \ {o}
    BY <1>2 DEF Passes, Timers, Queue
  <1>5. ASSUME NEW x \in Timers', x = tail["timer"] PROVE x = tail'["timer"]
    <2>1. CASE q = "main"
      BY <1>3, <1>5, <2>1 DEF TypeOK, Queue
    <2>2. CASE q = "timer"
      <3>1. o \in Timers /\ o # tail["timer"]
        BY <1>2, <1>4, <1>5, <2>2 DEF Timers
      <3>2. next[o] \in Timers
        BY <3>1, ListShape DEF Timers, Queue
      <3>3. next[o] # NULL
        BY <3>2 DEF Timers, Block, Op, NULL
      <3>4. QED
        BY <1>3, <1>5, <3>3
    <2>3. QED
      BY <2>1, <2>2
  <1>6. Reckoned(lead, sleep)' /\ Ascending(lead)'
    BY <1>3, <1>4, <1>5, FewerTimers DEF Timely
  <1>7. Prompt(lead)' /\ Armed(lead, sleep)'
    BY <1>3, <1>4 DEF Timely, Prompt, Armed
  <1>8. QED
    BY <1>6, <1>7 DEF Timely

LEMMA ReturnTimely ==
  ASSUME TypeOK, TypeOK', Labelled, Return,
         NEW lead, NEW sleep, Timely(lead, sleep)
  PROVE  Timely(lead, sleep)'
  <1>1. /\ Free(cur) /\ cur' = NULL /\ cur \in Op
        /\ line = "func" /\ line' = "due" /\ UNCHANGED <<now, cc, sel, wake, time>>
    BY DEF Return, Free, TypeOK, Ptr
  <1>2. Passes(cur, "free") /\ cur \notin Block("timer")
    BY <1>1, FreePasses DEF Queue
  <1>3. Timers' = Timers
    BY <1>2 DEF Passes, Timers, Queue
  <1>4. tail'["timer"] = tail["timer"]
    BY <1>1 DEF Free, TypeOK, Queue
  <1>5. ASSUME NEW x \in Timers PROVE next'[x] = next[x]
    <2>1. tail["free"] = NULL \/ tail["free"] \in Block("free")
      BY ListShape DEF Queue
    <2>2. x # tail["free"] /\ x \in Op
      BY <2>1, ListsApart DEF Timers, Queue, Block, Op, NULL
    <2>3. QED
      BY <1>1, <2>2 DEF Free, TypeOK
  <1>6. Reckoned(lead, sleep)' /\ Ascending(lead)'
    BY <1>1, <1>3, <1>4, <1>5, FewerTimers DEF Timely
  <1>7. Prompt(lead)' /\ Armed(lead, sleep)'
    BY <1>1, <1>3 DEF Timely, Prompt, Armed
  <1>8. QED
    BY <1>6, <1>7 DEF Timely

LEMMA PostIdleTimely ==
  ASSUME ~Overcommit, TypeOK, TypeOK', Labelled, NEW c \in Context,
         NEW f \in Task, PostIdle(c, f),
         NEW lead, NEW sleep, Timely(lead, sleep)
  PROVE  Timely(lead, sleep)'
  <1>1. /\ RunWhenIdle(f) /\ head["free"] # tail["free"]
        /\ UNCHANGED <<now, cc, sel, line, cur>> /\ (~wake' => ~wake)
    BY DEF PostIdle, Register, MayAllocate, thread, TypeOK
  <1>2. PICK o : o = Allocated /\ o # NULL /\ o \in Block("free")
    BY <1>1, ReserveAllocates
  <1>3. PICK last \in Ptr : last = tail["main"]
    BY DEF TypeOK, Queue
  <1>4. /\ next' = IF last = NULL THEN [next EXCEPT ![o] = NULL]
                   ELSE [next EXCEPT ![o] = NULL, ![last] = o]
        /\ tail' = [TailsLeft EXCEPT !["main"] = o]
        /\ time' = [time EXCEPT ![o] = 0]
    BY <1>1, <1>2, <1>3 DEF RunWhenIdle
  <1>5. Passes(o, "main")
    BY <1>1, <1>2, RunWhenIdlePasses DEF Block
  <1>6. o \notin Timers
    BY <1>2, ListsApart DEF Timers, Queue
  <1>7. Timers' = Timers
    BY <1>5, <1>6 DEF Passes, Timers, Queue
  <1>8. tail'["timer"] = tail["timer"]
    BY <1>4 DEF TypeOK, Queue, TailsLeft
  <1>9. ASSUME NEW x \in Timers PROVE next'[x] = next[x] /\ time'[x] = time[x]
    <2>1. last = NULL \/ last \in Block("main")
      BY <1>3, ListShape DEF Queue
    <2>2. x # last /\ x # o /\ x \in Op
      BY <1>6, <2>1, ListsApart DEF Timers, Queue, Block, Op, NULL
    <2>3. QED
      BY <1>4, <2>2 DEF TypeOK
  <1>10. Reckoned(lead, sleep)' /\ Ascending(lead)'
    BY <1>1, <1>7, <1>8, <1>9, FewerTimers DEF Timely
  <1>11. Prompt(lead)' /\ Armed(lead, sleep)'
    BY <1>1, <1>7 DEF Timely, Prompt, Armed
  <1>12. QED
    BY <1>10, <1>11 DEF Timely

\* The rest of the main thread's steps leave the lists and the clock alone.
LEMMA ThreadTimely ==
  ASSUME Roomy, TypeOK, TypeOK', Labelled, InMain,
         Wake \/ NothingDue \/ PickNothing \/ Sleep \/ UNCHANGED vars,
         NEW lead, NEW sleep, Timely(lead, sleep)
  PROVE  Timely(lead, sleep)'
  <1>1. UNCHANGED <<next, head, tail, cur, time, now, cc>>
    BY DEF Wake, NothingDue, PickNothing, Sleep, vars, blocks, lists, thread
  <1>2. Timers' = Timers
    BY <1>1 DEF Timers, Block
  <1>3. Reckoned(lead, sleep)' /\ Ascending(lead)'
    BY <1>1, <1>2, FewerTimers DEF Timely
  <1>4. Armed(lead, sleep)'
    BY <1>1, <1>2 DEF Timely, Armed, Wake, NothingDue, PickNothing, Sleep, vars,
                      thread
  <1>5. Prompt(lead)'
    <2>1. CASE Wake \/ Sleep
      BY <2>1 DEF Wake, Sleep, Prompt
    <2>2. CASE PickNothing \/ UNCHANGED vars
      BY <1>2, <2>2 DEF PickNothing, vars, thread, Timely, Prompt
    <2>3. CASE NothingDue /\ sel = "main"
      BY <1>2, <2>3 DEF NothingDue, Timely, Prompt
    <2>4. CASE NothingDue /\ sel = "timer"
      <3>1. LeastHead(lead)
        BY HeadLeast DEF Timely
      <3>2. head["timer"] = NULL \/ ~Later(now, time[head["timer"]])
        BY <2>4 DEF NothingDue, HeadIsDue
      <3>3. ASSUME NEW o \in Timers PROVE lead[o] >= -MaxLag
        <4>1. head["timer"] \in Timers /\ lead[head["timer"]] <= lead[o]
              /\ head["timer"] # NULL
          BY <3>1 DEF LeastHead, Least
        <4>2. ~(lead[head["timer"]] <= 0)
          BY <3>2, <4>1, DueByLead DEF Timely
        <4>3. lead[head["timer"]] \in Int /\ lead[o] \in Int
          BY <4>1, Room DEF Timely, Reckoned
        <4>4. QED
          BY <4>1, <4>2, <4>3, Room
      <3>4. QED
        BY <1>2, <3>3 DEF Prompt
    <2>5. QED
      BY <2>1, <2>2, <2>3, <2>4 DEF TypeOK
  <1>6. QED
    BY <1>3, <1>4, <1>5 DEF Timely

(***************************************************************************)
(* The clock.  Every lead shrinks by one, and so does the time to sleep.   *)
(***************************************************************************)
LEMMA LagByLead ==
  ASSUME Roomy, TypeOK, NEW lead, NEW sleep, Reckoned(lead, sleep),
         NEW a \in Timers, Lag(a) < MaxLag
  PROVE  lead[a] > -MaxLag
  <1>1. PICK x \in Int : x = lead[a] /\ x \in (-Slack)..Reach
    BY Room DEF Reckoned
  <1>2. time[a] = Shift(now, x) /\ Shift(now, 0) = now /\ now \in Time
    BY <1>1, ShiftZero DEF Reckoned, TypeOK
  <1>3. CASE x > 0
    BY <1>1, <1>3, Room
  <1>4. CASE x <= 0
    <2>1. Later(now, time[a])
      BY <1>1, <1>4, DueByLead
    <2>2. -TimeMod < x
      BY <1>1, Room
    <2>3. (Shift(now, 0) - Shift(now, x)) % TimeMod = 0 - x
      BY <1>1, <1>2, <1>4, <2>2, Difference, ClockAssumption
    <2>4. QED
      BY <1>1, <1>2, <2>1, <2>3, Room DEF Lag
  <1>5. QED
    BY <1>1, <1>3, <1>4

LEMMA TickTimely ==
  ASSUME Roomy, TypeOK, TypeOK', Labelled, Tick,
         NEW lead, NEW sleep, Timely(lead, sleep)
  PROVE  \E lead2, sleep2 : Timely(lead2, sleep2)'
  <1>1. /\ UNCHANGED <<next, head, tail, cur, time, cc, line, sel>>
        /\ now' = Shift(now, 1) /\ wake' = (wake \/ now' = cc)
    BY DEF Tick, blocks, lists, thread
  <1>2. Timers' = Timers
    BY <1>1 DEF Timers, Block
  <1>3. PICK s \in Time : s = sleep
    BY DEF Timely, Reckoned
  <1>4. s \in Int /\ 0 <= s /\ s < TimeMod /\ TimeMod \in Nat /\ TimeMod > 3
    BY ClockAssumption DEF Time
  <1> DEFINE lead2  == [o \in Op |-> lead[o] - 1]
             sleep2 == IF s = 0 THEN TimeMod - 1 ELSE s - 1
  <1>5. lead \in [Op -> Int] /\ Timers \subseteq Op
    BY DEF Timely, Ascending, Timers, Block
  <1>6. Reckoned(lead, sleep) /\ now \in Time /\ cc = Shift(now, s)
    BY <1>3 DEF Timely, Reckoned, TypeOK
  <1>7. ASSUME NEW o \in Timers
        PROVE  /\ lead2[o] \in (-Slack)..Reach
               /\ (sel = "main" /\ line # "wait") => lead2[o] >= -MaxLag
               /\ (line \in {"serial", "wait"} /\ ~wake) =>
                    \/ s - 1 <= lead2[o]
                    \/ s <= MinDelay /\ lead2[o] >= s - 1 - Slack
    <2>1. PICK x \in Int : x = lead[o] /\ x \in (-Slack)..Reach
      BY <1>6, Room DEF Reckoned
    <2>2. lead2[o] = x - 1
      BY <1>5, <2>1
    <2>3. CASE line = "wait" /\ ~wake
      <3>1. s > 0 /\ (s <= x \/ (s <= MinDelay /\ x >= s - Slack))
        BY <1>3, <2>1, <2>3 DEF Timely, Armed
      <3>2. QED
        BY <1>4, <2>1, <2>2, <2>3, <3>1, Room
    <2>4. CASE ~(line = "wait" /\ ~wake)
      <3>1. x > -MaxLag
        <4>1. Lag(o) < MaxLag
          BY <2>4 DEF Tick, Timers
        <4>2. QED
          BY <1>6, <2>1, <4>1, LagByLead
      <3>2. line = "serial" /\ ~wake => s <= x \/ s <= MinDelay
        BY <1>3, <2>1 DEF Timely, Armed
      <3>3. QED
        BY <1>4, <2>1, <2>2, <2>4, <3>1, <3>2, Room
    <2>5. QED
      BY <2>3, <2>4
  <1>8. Reckoned(lead2, sleep2)'
    <2>1. sleep2 \in Time
      BY <1>4 DEF Time
    <2>2. cc' = Shift(now', sleep2)
      <3>1. CASE s = 0
        <4>1. Shift(Shift(now, 1), TimeMod - 1) = Shift(now, TimeMod)
          BY <1>4, <1>6, ShiftOn
        <4>2. Shift(now, TimeMod) = now /\ Shift(now, 0) = now
          BY <1>4, <1>6, ShiftZero, ShiftWraps DEF Time
        <4>3. QED
          BY <1>1, <1>6, <3>1, <4>1, <4>2
      <3>2. CASE s # 0
        BY <1>1, <1>4, <1>6, <3>2, ShiftOn
      <3>3. QED
        BY <3>1, <3>2
    <2>3. ASSUME NEW o \in Timers PROVE time'[o] = Shift(now', lead2[o])
      <3>1. PICK x \in Int : x = lead[o] /\ x \in (-Slack)..Reach
        BY <1>6, Room DEF Reckoned
      <3>2. -TimeMod + 1 < x /\ x <= TimeMod
        BY <3>1, Room DEF Roomy
      <3>3. Shift(Shift(now, 1), x - 1) = Shift(now, x)
        BY <1>6, <3>2, ShiftOn
      <3>4. QED
        BY <1>1, <1>5, <1>6, <3>1, <3>3 DEF Reckoned
    <2>4. QED
      BY <1>2, <1>7, <2>1, <2>2, <2>3 DEF Reckoned
  <1>9. Ascending(lead2)'
    <2>1. ASSUME NEW o \in Timers, o # tail["timer"]
          PROVE  lead2[o] <= lead2[next[o]]
      <3>1. lead[o] <= lead[next[o]]
        BY <2>1 DEF Timely, Ascending
      <3>2. next[o] \in Op
        BY <2>1, ListShape DEF Timers, Queue
      <3>3. QED
        BY <1>5, <3>1, <3>2
    <2>2. lead2 \in [Op -> Int]
      BY <1>5
    <2> HIDE DEF lead2
    <2>3. QED
      BY <1>1, <1>2, <2>1, <2>2 DEF Ascending
  <1>10. Prompt(lead2)'
    BY <1>1, <1>2, <1>7 DEF Prompt
  <1>11. Armed(lead2, sleep2)'
    <2>1. SUFFICES ASSUME line \in {"serial", "wait"}, ~wake, now' # cc
                   PROVE  /\ sleep2 > 0
                          /\ \A o \in Timers :
                               \/ sleep2 <= lead2[o]
                               \/ sleep2 <= MinDelay /\ lead2[o] >= sleep2 - Slack
      BY <1>1, <1>2 DEF Armed
    <2>2. s > 0
      BY <1>3, <2>1 DEF Timely, Armed
    <2>3. s # 1
      BY <1>1, <1>6, <2>1
    <2>4. sleep2 = s - 1 /\ sleep2 > 0 /\ sleep2 < s
      BY <1>4, <2>2, <2>3
    <2>5. ASSUME NEW o \in Timers
          PROVE  \/ sleep2 <= lead2[o]
                 \/ sleep2 <= MinDelay /\ lead2[o] >= sleep2 - Slack
      <3>1. s - 1 <= lead2[o] \/ (s <= MinDelay /\ lead2[o] >= s - 1 - Slack)
        BY <1>7, <2>1
      <3>2. QED
        BY <1>4, <2>4, <3>1, Room
    <2>6. QED
      BY <2>4, <2>5
  <1>12. QED
    BY <1>8, <1>9, <1>10, <1>11 DEF Timely

(***************************************************************************)
(* Setting the compare register.                                           *)
(***************************************************************************)
\* Leads agree with the times of the blocks in T.
Placed(T, lead, stamp) ==
  \A o \in T : lead[o] \in (-Slack)..Reach /\ stamp[o] = Shift(now, lead[o])

LEMMA ResetArms ==
  ASSUME Roomy, TypeOK, NEW first, NEW stamp, NEW T, NEW lead,
         Least(first, T, lead), Placed(T, lead, stamp), ResetRtc(first, stamp)
  PROVE  \E s \in Time : /\ cc' = Shift(now, s)
                         /\ s > 0
                         /\ \A o \in T : s <= lead[o] \/ s = MinDelay
  <1>0. now \in Time /\ TimeMod \in Nat /\ TimeMod > 3
    BY ClockAssumption DEF TypeOK
  <1>1. CASE first = NULL
    <2>1. cc' = Shift(now, -1)
      BY <1>1 DEF ResetRtc
    <2>2. Shift(now, -1) = Shift(now, TimeMod - 1)
      <3>1. PICK c \in Int : c = TimeMod - 1 /\ -TimeMod < c /\ c <= TimeMod
        BY <1>0
      <3>2. now \in Int /\ 0 <= now /\ now < TimeMod
        BY <1>0 DEF Time
      <3>3. Shift(now, c) = IF now + c < 0 THEN now + c + TimeMod
                            ELSE IF now + c < TimeMod THEN now + c
                            ELSE now + c - TimeMod
        BY <1>0, <3>1, ShiftWraps
      <3>4. Shift(now, -1) = IF now + -1 < 0 THEN now + -1 + TimeMod
                             ELSE IF now + -1 < TimeMod THEN now + -1
                             ELSE now + -1 - TimeMod
        BY <1>0, ShiftWraps
      <3>5. QED
        BY <1>0, <3>1, <3>2, <3>3, <3>4
    <2>3. TimeMod - 1 \in Time /\ TimeMod - 1 > 0
      BY <1>0 DEF Time
    <2>4. QED
      BY <1>1, <2>1, <2>2, <2>3 DEF Least
  <1>2. CASE first # NULL
    <2>1. PICK x \in Int : x = lead[first] /\ x \in (-Slack)..Reach
      BY <1>2, Room DEF Least, Placed
    <2>2. stamp[first] = Shift(now, x) /\ \A o \in T : x <= lead[o]
      BY <1>2, <2>1 DEF Least, Placed
    <2>3. Later(stamp[first], Shift(now, MinDelay)) <=> x >= MinDelay
      <3>1. /\ -TimeMod < x /\ x < TimeMod
            /\ -TimeMod < MinDelay /\ MinDelay < TimeMod
            /\ -(TimeMod \div 2 + 1) <= x - MinDelay
            /\ x - MinDelay <= TimeMod \div 2 - 2
        BY <2>1, Room DEF Roomy
      <3>2. QED
        BY <1>0, <2>2, <3>1, LaterByLead, Room
    <2>4. CASE x >= MinDelay
      <3>1. cc' = Shift(now, x)
        BY <1>2, <2>2, <2>3, <2>4 DEF ResetRtc
      <3>2. x \in Time /\ x > 0
        BY <2>1, <2>4, Room DEF Time
      <3>3. QED
        BY <2>2, <3>1, <3>2
    <2>5. CASE ~(x >= MinDelay)
      <3>1. cc' = Shift(now, MinDelay)
        BY <1>2, <2>3, <2>5 DEF ResetRtc
      <3>2. MinDelay \in Time /\ MinDelay > 0
        BY Room DEF Time
      <3>3. QED
        BY <3>1, <3>2
    <2>6. QED
      BY <2>4, <2>5
  <1>3. QED
    BY <1>1, <1>2

LEMMA FinishTimely ==
  ASSUME Roomy, TypeOK, TypeOK', Labelled, InMain, Finish,
         NEW lead, NEW sleep, Timely(lead, sleep)
  PROVE  \E sleep2 : Timely(lead, sleep2)'
  <1>1. /\ UNCHANGED <<next, head, tail, cur, time, now, sel, wake>>
        /\ sel = "main" /\ line = "reset" /\ line' = "serial"
        /\ ResetRtc(head["timer"], time)
    BY DEF Finish, InMain, blocks, lists
  <1>2. Timers' = Timers
    BY <1>1 DEF Timers, Block
  <1>3. lead \in [Op -> Int] /\ LeastHead(lead)
    BY HeadLeast DEF Timely, Ascending
  <1>4. PICK s \in Time : /\ cc' = Shift(now, s)
                          /\ s > 0
                          /\ \A o \in Timers : s <= lead[o] \/ s = MinDelay
    <2>1. Least(head["timer"], Timers, lead)
      BY <1>3 DEF LeastHead
    <2>2. Placed(Timers, lead, time)
      BY DEF Timely, Reckoned, Placed
    <2>3. QED
      BY <1>1, <2>1, <2>2, ResetArms
  <1>5. Reckoned(lead, s)'
    BY <1>1, <1>2, <1>4 DEF Timely, Reckoned
  <1>6. Ascending(lead)' /\ Prompt(lead)'
    BY <1>1, <1>2 DEF Timely, Ascending, Prompt
  <1>7. Armed(lead, s)'
    <2>1. ASSUME NEW o \in Timers
          PROVE  s <= lead[o] \/ (s <= MinDelay /\ lead[o] >= s - Slack)
      <3>1. lead[o] >= -MaxLag /\ lead[o] \in Int
        BY <1>1, Room DEF Timely, Prompt, Reckoned
      <3>2. s <= lead[o] \/ s = MinDelay
        BY <1>4
      <3>3. QED
        BY <3>1, <3>2, Room
    <2>2. QED
      BY <1>2, <1>4, <2>1 DEF Armed
  <1>8. QED
    BY <1>5, <1>6, <1>7 DEF Timely

(***************************************************************************)
(* Inserting a timed operation.                                            *)
(***************************************************************************)
\* The walk has passed every block that comes before the time it looks for.
LEMMA WalkPasses ==
  ASSUME TypeOK, Labelled, NEW t, NEW stamp, head["timer"] # NULL,
         ~Later(stamp[head["timer"]], t), NEW b \in Visited(t, stamp)
  PROVE  b \in Timers /\ ~Later(stamp[b], t)
  <1> DEFINE S == {x \in Timers : ~Later(stamp[x], t)}
  <1>1. head["timer"] \in S
    BY ListShape DEF Timers, Queue
  <1>2. ASSUME NEW x \in S, ~Stops(x, t, stamp) PROVE next[x] \in S
    <2>1. next[x] # NULL /\ ~Later(stamp[next[x]], t)
      BY <1>2 DEF Stops
    <2>2. tail["timer"] # NULL
      BY ListShape DEF Timers, Queue, Block, Op, NULL
    <2>3. x # tail["timer"]
      BY <2>1, <2>2, ListShape DEF Queue
    <2>4. next[x] \in Timers
      BY <2>3, ListShape DEF Timers, Queue
    <2>5. QED
      BY <2>1, <2>4
  <1>3. S \in SUBSET Op
    BY ListShape DEF Timers, Queue
  <1>4. b \in S
    BY <1>1, <1>2, <1>3 DEF Visited
  <1>5. QED
    BY <1>4

LEMMA LaterThanNew ==
  ASSUME Roomy, TypeOK, NEW lead, NEW sleep, Reckoned(lead, sleep),
         NEW a \in Timers, NEW d \in 0..Reach
  PROVE  Later(time[a], Shift(now, d)) <=> lead[a] >= d
  <1>1. PICK x \in Int : x = lead[a] /\ x \in (-Slack)..Reach
    BY Room DEF Reckoned
  <1>2. time[a] = Shift(now, x) /\ now \in Time /\ d \in Int
    BY <1>1, Room DEF Reckoned, TypeOK
  <1>3. /\ -TimeMod < x /\ x < TimeMod /\ -TimeMod < d /\ d < TimeMod
        /\ -(TimeMod \div 2 + 1) <= x - d /\ x - d <= TimeMod \div 2 - 2
    BY <1>1, Room
  <1>4. QED
    BY <1>1, <1>2, <1>3, LaterByLead

\* The block taken when one is left in reserve.
LEMMA ReserveLeft ==
  ASSUME TypeOK, Labelled, head["free"] # tail["free"]
  PROVE  /\ TailsLeft = tail
         /\ HeadsLeft["timer"] = head["timer"]
         /\ HeadsLeft \in [Queue -> Ptr]
  <1>1. head["free"] # NULL
    BY ListShape DEF Queue
  <1>2. next[head["free"]] \in Block("free")
    BY <1>1, ListShape DEF Queue
  <1>3. next[head["free"]] # NULL /\ next[head["free"]] \in Ptr
    BY <1>2 DEF Block, Op, NULL, Ptr
  <1>4. QED
    BY <1>3 DEF TailsLeft, HeadsLeft, Allocated, TypeOK, Queue

\* The block goes where its lead belongs.
LEMMA InsertAscends ==
  ASSUME Roomy, TypeOK, TypeOK', Labelled, head["free"] # tail["free"],
         NEW lead, NEW sleep, Reckoned(lead, sleep), Ascending(lead),
         NEW o \in Op, o \notin Timers, NEW d \in 0..Reach, NEW stamp,
         stamp = [time EXCEPT ![o] = Shift(now, d)],
         Insert(o, Shift(now, d), stamp), Timers' = Timers \cup {o}
  PROVE  Ascending([lead EXCEPT ![o] = d])'
  <1>1. PICK lead2 : lead2 = [lead EXCEPT ![o] = d]
    OBVIOUS
  <1>2. /\ lead2 \in [Op -> Int] /\ lead \in [Op -> Int] /\ d \in Int
        /\ lead2[o] = d /\ \A x \in Timers : lead2[x] = lead[x] /\ x # o
    BY <1>1, Room, ListShape DEF Ascending, Timers, Queue
  <1>3. \A x \in Timers : stamp[x] = time[x]
    BY ListShape DEF TypeOK, Timers, Queue
  <1>4. \A x \in Timers : Later(stamp[x], Shift(now, d)) <=> lead[x] >= d
    BY <1>3, LaterThanNew
  <1>5. Timers \subseteq Op /\ \A x \in Timers : x # tail["timer"] =>
          next[x] \in Timers /\ lead[x] <= lead[next[x]]
    BY ListShape DEF Ascending, Timers, Queue
  <1>6. CASE InsertFirst(o) /\ (head["timer"] # NULL =>
                                  Later(stamp[head["timer"]], Shift(now, d)))
    <2>1. /\ next' = [next EXCEPT ![o] = head["timer"]]
          /\ tail' = IF tail["timer"] = NULL THEN [tail EXCEPT !["timer"] = o]
                                             ELSE tail
      BY <1>6, ReserveLeft DEF InsertFirst
    <2>2. ASSUME NEW x \in Timers \cup {o}, x # tail'["timer"]
          PROVE  lead2[x] <= lead2[next'[x]]
      <3>1. CASE x = o
        <4>1. tail["timer"] # NULL
          BY <2>1, <2>2, <3>1 DEF TypeOK, Queue
        <4>2. head["timer"] # NULL /\ head["timer"] \in Timers
          BY <4>1, ListShape DEF Timers, Queue
        <4>3. lead[head["timer"]] >= d
          BY <1>4, <1>6, <4>2
        <4>4. next'[o] = head["timer"]
          BY <2>1 DEF TypeOK
        <4>5. QED
          BY <1>2, <1>5, <3>1, <4>2, <4>3, <4>4
      <3>2. CASE x # o
        <4>1. x \in Timers /\ tail["timer"] # NULL
          BY <2>2, <3>2, ListShape DEF Timers, Queue, Block, Op, NULL
        <4>2. x # tail["timer"] /\ next'[x] = next[x]
          BY <1>5, <2>1, <2>2, <3>2, <4>1 DEF TypeOK
        <4>3. QED
          BY <1>2, <1>5, <4>1, <4>2
      <3>3. QED
        BY <3>1, <3>2
    <2>3. QED
      BY <1>1, <1>2, <2>2 DEF Ascending
  <1>7. ASSUME head["timer"] # NULL,
               ~Later(stamp[head["timer"]], Shift(now, d)),
               NEW b \in Visited(Shift(now, d), stamp),
               Stops(b, Shift(now, d), stamp), InsertAfter(o, b)
        PROVE  Ascending([lead EXCEPT ![o] = d])'
    <2>1. b \in Timers /\ ~Later(stamp[b], Shift(now, d))
      BY <1>7, WalkPasses
    <2>2. lead[b] < d /\ b # o /\ b \in Op
      BY <1>2, <1>4, <1>5, <2>1
    <2>3. /\ next' = [next EXCEPT ![o] = next[b], ![b] = o]
          /\ tail' = IF tail["timer"] = b THEN [tail EXCEPT !["timer"] = o]
                                          ELSE tail
      BY <1>7, ReserveLeft DEF InsertAfter
    <2>4. /\ next'[b] = o /\ next'[o] = next[b]
          /\ \A x \in Timers : x # b => next'[x] = next[x]
          /\ tail'["timer"] = IF tail["timer"] = b THEN o ELSE tail["timer"]
      BY <1>2, <1>5, <2>2, <2>3 DEF TypeOK, Queue
    <2>5. ASSUME NEW x \in Timers \cup {o}, x # tail'["timer"]
          PROVE  lead2[x] <= lead2[next'[x]]
      <3>1. CASE x = b
        BY <1>2, <1>5, <2>1, <2>2, <2>4, <3>1
      <3>2. CASE x = o
        <4>1. b # tail["timer"]
          BY <2>4, <2>5, <3>2
        <4>2. next[b] \in Timers
          BY <1>5, <2>1, <4>1
        <4>3. next[b] # NULL
          BY <1>5, <4>2 DEF Op, NULL
        <4>4. lead[next[b]] >= d
          BY <1>4, <1>7, <4>2, <4>3 DEF Stops
        <4>5. QED
          BY <1>2, <1>5, <2>4, <3>2, <4>2, <4>4
      <3>3. CASE x # o /\ x # b
        BY <1>2, <1>5, <2>4, <2>5, <3>3
      <3>4. QED
        BY <3>1, <3>2, <3>3
    <2>6. QED
      BY <1>1, <1>2, <2>5 DEF Ascending
  <1>8. QED
    BY <1>6, <1>7 DEF Insert

LEMMA PostTimedTimely ==
  ASSUME Roomy, ~Overcommit, TypeOK, TypeOK', Labelled, InMain,
         NEW c \in Context, NEW f \in Task, NEW d \in Delay,
         PostTimed(c, f, d), NEW lead, NEW sleep, Timely(lead, sleep)
  PROVE  \E lead2, sleep2 : Timely(lead2, sleep2)'
  <1>1. /\ RunAtTime(f, Shift(now, d)) /\ head["free"] # tail["free"]
        /\ UNCHANGED <<now, sel, line, cur>> /\ Calling(c)
        /\ wake' = (wake \/ c = "interrupt")
    BY DEF PostTimed, Register, MayAllocate, thread
  <1>2. PICK o : o = Allocated /\ o # NULL /\ o \in Block("free")
    BY <1>1, ReserveAllocates
  <1>3. PICK stamp : stamp = [time EXCEPT ![o] = Shift(now, d)]
    OBVIOUS
  <1>4. /\ time' = stamp /\ Insert(o, Shift(now, d), stamp)
        /\ ResetRtc(head'["timer"], stamp)
    BY <1>1, <1>2, <1>3 DEF RunAtTime
  <1>5. o \in Op /\ o \notin Timers
    BY <1>2, ListsApart DEF Timers, Queue, Block
  <1>6. Labelled' /\ Timers' = Timers \cup {o}
    <2>1. Labelled' /\ Passes(o, "timer")
      BY <1>1, <1>2, <1>4, <1>5, RunAtTimePasses
    <2>2. QED
      BY <2>1 DEF Passes, Timers, Queue
  <1>7. d \in 0..Reach /\ d \in Int
    BY Room
  <1>8. PICK lead2 : lead2 = [lead EXCEPT ![o] = d]
    OBVIOUS
  <1>9. Ascending(lead2)'
    BY <1>1, <1>3, <1>4, <1>5, <1>6, <1>7, <1>8, InsertAscends DEF Timely
  <1>10. lead2 \in [Op -> Int] /\ LeastHead(lead2)'
    BY <1>6, <1>9, HeadLeastAfter DEF Ascending
  <1>11. ASSUME NEW x \in Timers'
         PROVE  /\ lead2[x] \in (-Slack)..Reach
                /\ stamp[x] = Shift(now, lead2[x])
                /\ lead2[x] = d \/ (x \in Timers /\ lead2[x] = lead[x])
    <2>1. CASE x = o
      BY <1>3, <1>5, <1>7, <1>8, <2>1, Room DEF TypeOK, Timely, Ascending
    <2>2. CASE x # o
      <3>1. x \in Timers /\ x \in Op
        BY <1>6, <1>11, <2>2, ListShape DEF Timers, Queue
      <3>2. lead2[x] = lead[x] /\ stamp[x] = time[x]
        BY <1>3, <1>8, <2>2, <3>1 DEF TypeOK, Timely, Ascending
      <3>3. QED
        BY <3>1, <3>2 DEF Timely, Reckoned
    <2>3. QED
      BY <2>1, <2>2
  <1>12. PICK s \in Time : /\ cc' = Shift(now, s)
                           /\ s > 0
                           /\ \A x \in Timers' : s <= lead2[x] \/ s = MinDelay
    <2>1. PICK first, T : first = head'["timer"] /\ T = Timers'
      OBVIOUS
    <2>2. Least(first, T, lead2)
      BY <1>10, <2>1 DEF LeastHead, Least
    <2>3. Placed(T, lead2, stamp)
      BY <1>11, <2>1 DEF Placed
    <2>4. ResetRtc(first, stamp)
      BY <1>4, <2>1
    <2>5. PICK s \in Time : /\ cc' = Shift(now, s)
                            /\ s > 0
                            /\ \A x \in T : s <= lead2[x] \/ s = MinDelay
      BY <2>2, <2>3, <2>4, ResetArms
    <2>6. QED
      BY <2>1, <2>5
  <1>13. Reckoned(lead2, s)'
    BY <1>1, <1>4, <1>11, <1>12 DEF Reckoned
  <1>14. ASSUME NEW x \in Timers', sel = "main", line # "wait"
         PROVE  lead2[x] >= -MaxLag
    BY <1>7, <1>11, <1>14, Room DEF Timely, Prompt
  <1>15. Prompt(lead2)'
    BY <1>1, <1>14 DEF Prompt
  <1>16. Armed(lead2, s)'
    <2>1. SUFFICES ASSUME line \in {"serial", "wait"}, ~wake',
                          NEW x \in Timers'
                   PROVE  s <= lead2[x] \/ (s <= MinDelay /\ lead2[x] >= s - Slack)
      BY <1>1, <1>12 DEF Armed
    <2>2. line = "serial" /\ sel = "main"
      BY <1>1, <2>1 DEF Calling, InMain
    <2>3. lead2[x] >= -MaxLag /\ lead2[x] \in Int
      BY <1>11, <1>14, <2>2, Room
    <2>4. s <= lead2[x] \/ s = MinDelay
      BY <1>12
    <2>5. QED
      BY <2>3, <2>4, Room
  <1>17. QED
    BY <1>9, <1>13, <1>15, <1>16 DEF Timely

(***************************************************************************)
(* The invariant and what it implies.                                      *)
(***************************************************************************)
LEMMA InitTimely == Init => TimersKept
  <1> SUFFICES ASSUME Init PROVE TimersKept
    OBVIOUS
  <1>1. InMain
    BY DEF Init, InMain
  <1>2. Timers = {}
    <2>1. head["timer"] = NULL
      BY DEF Init, Queue
    <2>2. {} \in SUBSET Op
      OBVIOUS
    <2>3. QED
      BY <2>1, <2>2 DEF Timers, Block
  <1>3. 0 \in Time /\ cc = 0 /\ now = 0
    BY ClockAssumption DEF Init, Time
  <1>4. PICK lead : lead = [o \in Op |-> 0]
    OBVIOUS
  <1>5. Reckoned(lead, 0)
    BY <1>2, <1>3, ShiftZero DEF Reckoned
  <1>6. Ascending(lead) /\ Prompt(lead) /\ Armed(lead, 0)
    BY <1>2, <1>4 DEF Init, Ascending, Prompt, Armed
  <1>7. QED
    BY <1>1, <1>5, <1>6 DEF TimersKept, Timely

LEMMA StepInMain ==
  ASSUME TypeOK, InMain, [Next]_vars
  PROVE  InMain'
  <1>1. CASE RunDue \/ PickIdle \/ Return \/ Wake
    BY <1>1 DEF RunDue, PickIdle, StartHead, Return, Wake, InMain
  <1>2. CASE NothingDue \/ PickNothing \/ Finish \/ Sleep
    BY <1>2 DEF NothingDue, PickNothing, Finish, Sleep, InMain
  <1>3. CASE Callers \/ Tick \/ UNCHANGED vars
    BY <1>3 DEF Callers, PostIdle, PostTimed, Register, Tick, vars, thread, InMain
  <1>4. QED
    BY <1>1, <1>2, <1>3 DEF Next, MainThread

LEMMA StepTimely ==
  ASSUME Roomy, ~Overcommit, TypeOK, TypeOK', Labelled, TimersKept, [Next]_vars
  PROVE  TimersKept'
  <1>0. InMain /\ InMain'
    BY StepInMain DEF TimersKept
  <1>1. PICK lead, sleep : Timely(lead, sleep)
    BY DEF TimersKept
  <1>2. ASSUME NEW lead2, NEW sleep2, Timely(lead2, sleep2)'
        PROVE  TimersKept'
    BY <1>0, <1>2 DEF TimersKept
  <1>3. CASE RunDue
    <2>1. sel \in {"timer", "main"} /\ head[sel] # NULL /\ StartHead(sel)
          /\ cur = NULL /\ line # "wait"
      BY <1>3 DEF RunDue, HeadIsDue, TypeOK
    <2>2. QED
      BY <1>1, <1>2, <2>1, StartTimely
  <1>4. CASE PickIdle
    <2>1. head["main"] # NULL /\ StartHead("main") /\ cur = NULL /\ line # "wait"
      BY <1>4 DEF PickIdle, TypeOK
    <2>2. QED
      BY <1>1, <1>2, <2>1, StartTimely
  <1>5. CASE Return
    BY <1>1, <1>2, <1>5, ReturnTimely
  <1>6. CASE Wake \/ NothingDue \/ PickNothing \/ Sleep \/ UNCHANGED vars
    BY <1>0, <1>1, <1>2, <1>6, ThreadTimely
  <1>7. CASE Finish
    BY <1>0, <1>1, <1>2, <1>7, FinishTimely
  <1>8. CASE Tick
    BY <1>1, <1>2, <1>8, TickTimely
  <1>9. ASSUME NEW c \in Context, NEW f \in Task, PostIdle(c, f)
        PROVE  TimersKept'
    BY <1>1, <1>2, <1>9, PostIdleTimely
  <1>10. ASSUME NEW c \in Context, NEW f \in Task, NEW d \in Delay,
                PostTimed(c, f, d)
         PROVE  TimersKept'
    BY <1>0, <1>1, <1>2, <1>10, PostTimedTimely
  <1>11. QED
    BY <1>3, <1>4, <1>5, <1>6, <1>7, <1>8, <1>9, <1>10
       DEF Next, MainThread, Callers

\* The assumptions: callers leave a free block in reserve and set operations
\* less than half a turn of the counter ahead, reckoned from the latest one.
Punctual == ~Overcommit /\ Roomy

LEMMA AlwaysTimely ==
  ASSUME Punctual
  PROVE  Spec => [](TypeOK /\ Labelled /\ TimersKept)
  <1>1. Init => Labelled /\ TimersKept
    BY InitLinked, InitTimely
  <1>2. TypeOK /\ TypeOK' /\ Labelled /\ TimersKept /\ [Next]_vars
          => Labelled' /\ TimersKept'
    BY StepLinked, StepTimely DEF Punctual
  <1>3. QED
    BY <1>1, <1>2, TypeCorrect, PTL DEF Spec

\* The timer list is sorted at every step, across the wrap of the counter and
\* for every pool size and set of callers: dispatch() may look at the head only.
THEOREM TimerListSorted == Punctual => (Spec => []TimersInOrder)
  <1> SUFFICES ASSUME Punctual PROVE Spec => []TimersInOrder
    OBVIOUS
  <1>1. TypeOK /\ Labelled /\ TimersKept => TimersInOrder
    BY TimersLater DEF TimersKept, Punctual
  <1>2. QED
    BY <1>1, AlwaysTimely, PTL

\* The processor sleeps through no timed operation: whenever it is asleep with
\* no event latched, the compare register goes off before the first one is due
\* or within MinDelay, whoever registered it, in whatever order.
THEOREM NoAlarmIsMissed == Punctual => (Spec => []AlarmArmed)
  <1> SUFFICES ASSUME Punctual PROVE Spec => []AlarmArmed
    OBVIOUS
  <1>1. TypeOK /\ Labelled /\ TimersKept => AlarmArmed
    BY TimersAlarm DEF TimersKept, Punctual
  <1>2. QED
    BY <1>1, AlwaysTimely, PTL

-----------------------------------------------------------------------------
(***************************************************************************)
(* The promise of Scheduler.  The idle tasks are those of the blocks of    *)
(* the idle list, in link order; there is one sequence of blocks in that   *)
(* order (OrderIs), so that each step gives the next one by naming it.     *)
(***************************************************************************)

LEMMA LeastOf ==
  ASSUME NEW S \in SUBSET Nat, S # {}
  PROVE  \E g \in S : \A h \in S : ~(h < g)
  <1>1. PICK g \in S : \A h \in S : <<h, g>> \notin OpToRel(<, Nat)
    BY NatLessThanWellFounded, WFMin
  <1>2. QED
    BY <1>1 DEF OpToRel

LEMMA EmptyByLen ==
  ASSUME NEW S, NEW s \in Seq(S)
  PROVE  Len(s) \in Nat /\ (s = <<>> <=> Len(s) = 0)
  BY EmptySeq, LenProperties

\* Every place of a list up to its tail's has a block.
LEMMA NoGap ==
  ASSUME TypeOK, NEW own, NEW pos, Linked(own, pos), NEW q \in Queue, head[q] # NULL,
         NEW k \in 0..(pos[tail[q]] - pos[head[q]])
  PROVE  \E o \in Op : own[o] = q /\ pos[o] = pos[head[q]] + k
  <1> DEFINE first == head[q]
             last  == tail[q]
             At(i) == {o \in Op : own[o] = q /\ pos[o] = pos[first] + i}
             Gaps  == {i \in 0..(pos[last] - pos[first]) : At(i) = {}}
  <1>1. /\ Chain(q, own, pos) /\ pos \in [Op -> Int]
        /\ first \in Op /\ last \in Op /\ own[first] = q /\ own[last] = q
    BY DEF Linked, Chain, Chained
  <1>2. pos[first] \in Int /\ pos[last] \in Int
    BY <1>1
  <1>3. SUFFICES ASSUME At(k) = {} PROVE FALSE
    OBVIOUS
  <1>4. Gaps \in SUBSET Nat /\ k \in Gaps
    BY <1>2, <1>3
  <1>5. PICK g \in Gaps : \A h \in Gaps : ~(h < g)
    <2> HIDE DEF Gaps
    <2>1. QED
      BY <1>4, LeastOf
  <1>6. g \in Nat /\ g <= pos[last] - pos[first] /\ At(g) = {}
    BY <1>2
  <1>7. g # 0
    BY <1>1, <1>2, <1>6
  <1>8. PICK o \in At(g - 1) : TRUE
    <2>1. g - 1 \in 0..(pos[last] - pos[first]) /\ g - 1 < g
      BY <1>2, <1>6, <1>7
    <2>2. QED
      BY <1>5, <2>1
  <1>9. o \in Op /\ own[o] = q /\ pos[o] = pos[first] + g - 1
    BY <1>2, <1>6, <1>7, <1>8
  <1>10. o # last
    BY <1>2, <1>6, <1>9
  <1>11. next[o] \in Op /\ own[next[o]] = q /\ pos[next[o]] = pos[o] + 1
    BY <1>1, <1>9, <1>10 DEF Chain, Chained
  <1>12. next[o] \in At(g)
    BY <1>2, <1>6, <1>9, <1>11
  <1>13. QED
    BY <1>6, <1>12

\* A sequence in order starts at the first place and leaves none out.
LEMMA InOrderPlaces ==
  ASSUME TypeOK, NEW own, NEW pos, Linked(own, pos),
         NEW s \in Seq(Op), InOrder(s), NEW i \in 1..Len(s)
  PROVE  own[s[i]] = "main" /\ pos[s[i]] = pos[head["main"]] + i - 1
  <1> DEFINE first == head["main"]
             last  == tail["main"]
             Right(j) == own[s[j]] = "main" /\ pos[s[j]] = pos[first] + j - 1
             Wrong == {j \in 1..Len(s) : ~Right(j)}
  <1>0. /\ Len(s) \in Nat /\ s # <<>> /\ \A j \in 1..Len(s) : s[j] \in Op
        /\ first # NULL /\ s[1] = first /\ s[Len(s)] = last
        /\ \A j \in 1..(Len(s) - 1) : s[j + 1] = next[s[j]]
    BY EmptySeq, ElementOfSeq, LenProperties DEF InOrder
  <1>1. /\ Chain("main", own, pos) /\ pos \in [Op -> Int]
        /\ first \in Op /\ last \in Op /\ own[first] = "main"
    BY <1>0 DEF Linked, Chain, Chained, Queue
  <1>2. pos[first] \in Int
    BY <1>1
  <1>3. SUFFICES ASSUME ~Right(i) PROVE FALSE
    OBVIOUS
  <1>4. Wrong \in SUBSET Nat /\ i \in Wrong
    BY <1>0, <1>3
  <1>5. PICK g \in Wrong : \A h \in Wrong : ~(h < g)
    <2> HIDE DEF Wrong
    <2>1. QED
      BY <1>4, LeastOf
  <1>6. g \in 1..Len(s) /\ ~Right(g)
    OBVIOUS
  <1>7. g # 1
    BY <1>0, <1>1, <1>2, <1>6
  <1>8. Right(g - 1) /\ g - 1 \in 1..(Len(s) - 1)
    <2>1. g - 1 \in 1..(Len(s) - 1) /\ g - 1 \in 1..Len(s) /\ g - 1 < g
      BY <1>0, <1>6, <1>7
    <2>2. g - 1 \notin Wrong
      BY <1>5, <2>1
    <2>3. QED
      BY <2>1, <2>2
  <1>9. s[g - 1] \in Op /\ s[g] = next[s[g - 1]] /\ s[g] \in Op
    BY <1>0, <1>6, <1>8
  <1>10. s[g - 1] # last
    BY <1>0, <1>1, <1>9 DEF Chain, Chained, Op, NULL
  <1>11. own[s[g]] = "main" /\ pos[s[g]] = pos[s[g - 1]] + 1
    BY <1>1, <1>8, <1>9, <1>10 DEF Chain, Chained
  <1>12. Right(g)
    <2>1. pos[s[g - 1]] = pos[first] + (g - 1) - 1
      BY <1>8
    <2>2. g \in Int
      BY <1>6
    <2>3. pos[s[g]] = pos[first] + g - 1
      BY ONLY <1>2, <1>11, <2>1, <2>2
    <2>4. QED
      BY <1>11, <2>3
  <1>13. QED
    BY <1>6, <1>12


Orders == UNION {[1..n -> Block("main")] : n \in 0..PoolSize}

LEMMA OrderExists ==
  ASSUME TypeOK, Labelled
  PROVE  \E s \in Orders : InOrder(s)
  <1> DEFINE first == head["main"]
             last  == tail["main"]
  <1>0. PICK own : OwnedAs(own)
    BY DEF Labelled
  <1>1. PICK pos : Linked(own, pos)
    BY <1>0 DEF OwnedAs
  <1>2. /\ Chain("main", own, pos) /\ pos \in [Op -> Int]
        /\ Block("main") = {o \in Op : own[o] = "main"}
    BY <1>1, BlocksOfList DEF Linked, Queue
  <1>3. CASE first = NULL
    <2>1. InOrder(<<>>)
      BY <1>3 DEF InOrder
    <2>2. <<>> \in [1..0 -> Block("main")] /\ 0 \in 0..PoolSize
      BY PoolAssumption
    <2>3. QED
      BY <2>1, <2>2 DEF Orders
  <1>4. CASE first # NULL
    <2>1. /\ first \in Op /\ last \in Op /\ own[first] = "main" /\ own[last] = "main"
          /\ pos[first] \in Int /\ pos[last] \in Int /\ pos[first] <= pos[last]
      BY <1>2, <1>4 DEF Chain, Chained
    <2> DEFINE m == pos[last] - pos[first] + 1
               s == [i \in 1..m |-> CHOOSE o \in Op : own[o] = "main"
                                                /\ pos[o] = pos[first] + (i - 1)]
    <2>2. m \in Nat \ {0}
      BY <2>1
    <2>3. ASSUME NEW i \in 1..m
          PROVE  s[i] \in Op /\ own[s[i]] = "main" /\ pos[s[i]] = pos[first] + (i - 1)
      <3>1. i - 1 \in 0..(pos[last] - pos[first])
        BY <2>1
      <3>2. \E o \in Op : own[o] = "main" /\ pos[o] = pos[first] + (i - 1)
        BY <1>1, <1>4, <3>1, NoGap DEF Queue
      <3>3. QED
        BY <3>2
    <2>4. s \in [1..m -> Block("main")]
      BY <1>2, <2>3
    <2> HIDE DEF s
    <2>5. m <= PoolSize
      <3>1. ASSUME NEW i \in 1..m, NEW j \in 1..m, s[i] = s[j] PROVE i = j
        BY <2>1, <2>3, <3>1
      <3>2. s \in Injection(1..m, Op)
        <4>1. s \in [1..m -> Op]
          BY <1>2, <2>4
        <4>2. QED
          BY <3>1, <4>1 DEF Injection, IsInjective
      <3>3. IsFiniteSet(Op) /\ Cardinality(Op) = PoolSize
        <4>1. PoolSize \in Int /\ PoolSize >= 1
          BY PoolAssumption
        <4>2. QED
          BY <4>1, FS_Interval DEF Op
      <3>4. Cardinality(1..m) = m
        <4>1. m \in Int /\ m >= 1
          BY <2>2
        <4> HIDE DEF m
        <4>2. QED
          BY <4>1, FS_Interval
      <3>5. QED
        BY <3>2, <3>3, <3>4, FS_Injection
    <2>6. s \in Seq(Block("main")) /\ Len(s) = m /\ s \in Orders
      <3>1. m \in Nat /\ m \in 0..PoolSize
        BY <2>2, <2>5, PoolAssumption
      <3>2. s \in Seq(Block("main")) /\ Len(s) = m
        BY <2>4, <3>1, SeqDef
      <3>3. QED
        BY <2>4, <3>1, <3>2 DEF Orders
    <2>7. s # <<>> /\ s[1] = first /\ s[m] = last
      <3>1. own[s[1]] = "main" /\ pos[s[1]] = pos[first] /\ s[1] \in Op
        BY <2>1, <2>2, <2>3
      <3>2. own[s[m]] = "main" /\ pos[s[m]] = pos[last] /\ s[m] \in Op
        BY <2>1, <2>2, <2>3
      <3>3. QED
        BY <1>2, <2>1, <2>2, <2>6, <3>1, <3>2 DEF Chain, Chained
    <2>8. ASSUME NEW i \in 1..(m - 1) PROVE s[i + 1] = next[s[i]]
      <3>1. /\ s[i] \in Op /\ own[s[i]] = "main" /\ pos[s[i]] = pos[first] + (i - 1)
            /\ s[i + 1] \in Op /\ own[s[i + 1]] = "main"
            /\ pos[s[i + 1]] = pos[first] + i
        BY <2>2, <2>3
      <3>2. s[i] # last
        BY <2>1, <2>2, <3>1
      <3>3. next[s[i]] \in Op /\ own[next[s[i]]] = "main"
            /\ pos[next[s[i]]] = pos[s[i]] + 1
        BY <1>2, <3>1, <3>2 DEF Chain, Chained
      <3>4. pos[next[s[i]]] = pos[s[i + 1]]
        BY <2>1, <3>1, <3>3
      <3>5. QED
        BY <1>2, <3>1, <3>3, <3>4 DEF Chain, Chained
    <2>9. InOrder(s)
      BY <1>4, <2>6, <2>7, <2>8 DEF InOrder
    <2>10. QED
      BY <2>6, <2>9
  <1>5. QED
    BY <1>3, <1>4

LEMMA OneOrder ==
  ASSUME TypeOK, Labelled, NEW s \in Seq(Op), NEW t \in Seq(Op),
         InOrder(s), InOrder(t)
  PROVE  s = t
  <1> DEFINE first == head["main"]
             last  == tail["main"]
  <1>0. PICK own : OwnedAs(own)
    BY DEF Labelled
  <1>1. PICK pos : Linked(own, pos)
    BY <1>0 DEF OwnedAs
  <1>2. Chain("main", own, pos) /\ pos \in [Op -> Int]
    BY <1>1 DEF Linked, Queue
  <1>3. CASE first = NULL
    BY <1>3 DEF InOrder
  <1>4. CASE first # NULL
    <2>1. /\ s # <<>> /\ t # <<>> /\ s[Len(s)] = last /\ t[Len(t)] = last
          /\ Len(s) \in Nat \ {0} /\ Len(t) \in Nat \ {0} /\ pos[first] \in Int
      BY <1>2, <1>4, EmptySeq DEF InOrder, Chain, Chained
    <2>2. ASSUME NEW r \in Seq(Op), InOrder(r), NEW i \in 1..Len(r)
          PROVE  /\ r[i] \in Op /\ own[r[i]] = "main"
                 /\ pos[r[i]] = pos[first] + i - 1
      BY <1>1, <2>2, InOrderPlaces, ElementOfSeq
    <2>3. Len(s) = Len(t)
      <3>1. pos[last] = pos[first] + Len(s) - 1 /\ pos[last] = pos[first] + Len(t) - 1
        BY <2>1, <2>2
      <3>2. QED
        BY <2>1, <3>1
    <2>4. ASSUME NEW i \in 1..Len(s) PROVE s[i] = t[i]
      <3>1. /\ s[i] \in Op /\ own[s[i]] = "main" /\ pos[s[i]] = pos[first] + i - 1
            /\ t[i] \in Op /\ own[t[i]] = "main" /\ pos[t[i]] = pos[first] + i - 1
        BY <2>2, <2>3
      <3>2. QED
        BY <1>2, <3>1 DEF Chain, Chained
    <2>5. QED
      BY <2>3, <2>4, SeqEqual
  <1>5. QED
    BY <1>3, <1>4

OrderedAs(s) == Order = s

\* There is an order, and no other.
LEMMA OrderIs ==
  ASSUME NEW s \in Seq(Op)
  PROVE  TypeOK /\ Labelled /\ InOrder(s) => OrderedAs(s)
  <1> SUFFICES ASSUME TypeOK, Labelled, InOrder(s) PROVE Order = s
    BY DEF OrderedAs
  <1>1. Order \in Orders /\ InOrder(Order)
    <2>1. Order = CHOOSE r \in Orders : InOrder(r)
      BY DEF Order, Orders
    <2>2. QED
      BY <2>1, OrderExists
  <1>2. Order \in Seq(Op)
    <2>1. PICK n \in 0..PoolSize : Order \in [1..n -> Block("main")]
      BY <1>1 DEF Orders
    <2>2. n \in Nat /\ Order \in [1..n -> Op]
      BY <2>1, PoolAssumption DEF Block
    <2>3. QED
      BY <2>2, SeqDef
  <1>3. QED
    BY <1>1, <1>2, OneOrder


LEMMA OrderIsAfter ==
  ASSUME NEW s \in Seq(Op)
  PROVE  TypeOK' /\ Labelled' /\ InOrder(s)' => Order' = s
  <1>1. TypeOK /\ Labelled /\ InOrder(s) => OrderedAs(s)
    BY OrderIs
  <1>2. TypeOK' /\ Labelled' /\ InOrder(s)' => OrderedAs(s)'
    BY <1>1, PTL
  <1>3. QED
    BY <1>2 DEF OrderedAs

\* What the order says of the blocks in it.
LEMMA OrderRight ==
  ASSUME TypeOK, Labelled
  PROVE  /\ Order \in Seq(Op) /\ InOrder(Order) /\ Len(Order) \in Nat
         /\ \A i \in 1..Len(Order) : Order[i] \in Block("main") /\ Order[i] \in Op
         /\ \A i \in 1..(Len(Order) - 1) : Order[i] # tail["main"]
  <1>1. PICK s \in Orders : InOrder(s)
    BY OrderExists
  <1>2. PICK n \in 0..PoolSize : s \in [1..n -> Block("main")]
    BY DEF Orders
  <1>3. n \in Nat /\ s \in [1..n -> Op]
    BY <1>2, PoolAssumption DEF Block
  <1>4. s \in Seq(Op) /\ Len(s) = n
    BY <1>3, SeqDef
  <1>5. Order = s
    BY <1>1, <1>4, OrderIs DEF OrderedAs
  <1>6. \A i \in 1..n : s[i] \in Block("main") /\ s[i] \in Op
    BY <1>2, <1>3
  <1>7. ASSUME NEW i \in 1..(n - 1), s[i] = tail["main"] PROVE FALSE
    <2>1. s # <<>> /\ i \in 1..n /\ i + 1 \in 1..n
      BY <1>3, <1>4, EmptySeq
    <2>2. s[i + 1] = next[s[i]] /\ s[i] \in Op /\ s[i + 1] \in Op
      BY <1>1, <1>4, <1>6, <2>1 DEF InOrder
    <2>3. next[tail["main"]] = NULL
      BY <1>7, <2>2, ListShape DEF Queue, Op, NULL
    <2>4. QED
      BY <1>7, <2>2, <2>3 DEF Op, NULL
  <1>8. QED
    BY <1>1, <1>3, <1>4, <1>5, <1>6, <1>7

\* A step that does not touch the idle list.
LEMMA SameOrder ==
  ASSUME TypeOK, TypeOK', Labelled, Labelled',
         head'["main"] = head["main"], tail'["main"] = tail["main"],
         \A o \in Block("main") : next'[o] = next[o]
  PROVE  Order' = Order
  <1>1. PICK s \in Seq(Op) : s = Order
    BY OrderRight
  <1>2. InOrder(s) /\ Len(s) \in Nat /\ \A i \in 1..Len(s) : s[i] \in Block("main")
    BY <1>1, OrderRight
  <1>3. InOrder(s)'
    BY <1>2 DEF InOrder
  <1>4. QED
    BY <1>1, <1>3, OrderIsAfter

\* Starting the head of the idle list.
LEMMA StartOrder ==
  ASSUME TypeOK, TypeOK', Labelled, cur = NULL, head["main"] # NULL,
         StartHead("main")
  PROVE  Order # <<>> /\ Order' = Tail(Order)
  <1>1. PICK s \in Seq(Op) : s = Order
    BY OrderRight
  <1>2. /\ InOrder(s) /\ s # <<>> /\ Len(s) \in Nat \ {0}
        /\ \A i \in 1..Len(s) : s[i] \in Op
        /\ \A i \in 1..(Len(s) - 1) : s[i] # tail["main"]
    BY <1>1, OrderRight, EmptySeq DEF InOrder
  <1>3. PICK o \in Op : o = head["main"]
    BY <1>2 DEF InOrder
  <1>4. /\ next' = next /\ head'["main"] = next[o]
        /\ tail'["main"] = IF next[o] = NULL THEN NULL ELSE tail["main"]
    BY <1>3 DEF StartHead, blocks, TypeOK, Queue
  <1>5. Labelled'
    BY StartPasses
  <1>6. /\ Tail(s) \in Seq(Op) /\ Len(Tail(s)) = Len(s) - 1
        /\ \A i \in 1..(Len(s) - 1) : Tail(s)[i] = s[i + 1]
    BY <1>2, HeadTailProperties
  <1>7. InOrder(Tail(s))'
    <2>1. CASE Len(s) = 1
      <3>1. o = tail["main"]
        BY <1>2, <1>3, <2>1 DEF InOrder
      <3>2. next[o] = NULL
        BY <1>3, <3>1, ListShape DEF Queue, Op, NULL
      <3>3. Tail(s) = <<>>
        BY <1>6, <2>1, EmptyByLen
      <3>4. QED
        BY <1>4, <3>2, <3>3 DEF InOrder
    <2>2. CASE Len(s) # 1
      <3>1. next[o] = s[2] /\ s[2] \in Op /\ 1 \in 1..(Len(s) - 1)
        <4>0. PICK n \in Nat : n = Len(s) /\ n # 0 /\ n # 1
          BY <1>2, <2>2
        <4>1. 1 \in 1..(Len(s) - 1) /\ 2 \in 1..Len(s) /\ 1 + 1 = 2
          BY <4>0
        <4>2. s[1] = o /\ s[1 + 1] = next[s[1]]
          BY <1>2, <1>3, <4>1 DEF InOrder
        <4>3. QED
          BY <1>2, <4>1, <4>2
      <3>2. next[o] # NULL
        BY <3>1 DEF Op, NULL
      <3>3. Tail(s) # <<>> /\ Tail(s)[1] = s[2]
        <4>1. Tail(s)[1] = s[1 + 1] /\ Len(Tail(s)) # 0
          BY <1>2, <1>6, <2>2, <3>1
        <4>2. Tail(s) # <<>>
          BY <1>6, <4>1, EmptyByLen
        <4>3. 1 + 1 = 2
          OBVIOUS
        <4>4. QED
          BY <4>1, <4>2, <4>3
      <3>4. Tail(s)[Len(Tail(s))] = s[Len(s)]
        BY <1>2, <1>6, <2>2
      <3>5. ASSUME NEW i \in 1..(Len(Tail(s)) - 1)
            PROVE  Tail(s)[i + 1] = next[Tail(s)[i]]
        <4>1. /\ i \in 1..(Len(s) - 1) /\ i + 1 \in 1..(Len(s) - 1)
              /\ Tail(s)[i] = s[i + 1] /\ Tail(s)[i + 1] = s[i + 1 + 1]
          BY <1>2, <1>6
        <4>2. s[i + 1 + 1] = next[s[i + 1]]
          BY <1>2, <4>1 DEF InOrder
        <4>3. QED
          BY <4>1, <4>2
      <3>6. QED
        BY <1>2, <1>4, <3>1, <3>2, <3>3, <3>4, <3>5 DEF InOrder
    <2>3. QED
      BY <2>1, <2>2
  <1>8. QED
    BY <1>1, <1>2, <1>5, <1>6, <1>7, OrderIsAfter

\* run_when_idle, with a block in reserve.
LEMMA PostOrder ==
  ASSUME TypeOK, TypeOK', Labelled, head["free"] # tail["free"],
         NEW o \in Block("free"), o = Allocated, NEW f, RunWhenIdle(f), cur' = cur
  PROVE  Order' = Append(Order, o)
  <1>1. PICK s \in Seq(Op) : s = Order
    BY OrderRight
  <1>2. /\ InOrder(s) /\ Len(s) \in Nat
        /\ \A i \in 1..Len(s) : s[i] \in Block("main") /\ s[i] \in Op
        /\ \A i \in 1..(Len(s) - 1) : s[i] # tail["main"]
    BY <1>1, OrderRight
  <1>3. PICK last \in Ptr : last = tail["main"]
    BY DEF TypeOK, Queue
  <1>4. o \in Op /\ o # NULL /\ o \notin Block("main")
    BY ListsApart DEF Queue, Block, Op, NULL
  <1>5. /\ next' = IF last = NULL THEN [next EXCEPT ![o] = NULL]
                   ELSE [next EXCEPT ![o] = NULL, ![last] = o]
        /\ head'["main"] = IF last = NULL THEN o ELSE head["main"]
        /\ tail'["main"] = o
    BY <1>3, <1>4 DEF RunWhenIdle, HeadsLeft, TailsLeft, TypeOK, Queue
  <1>6. Labelled'
    BY <1>4, RunWhenIdlePasses
  <1>7. last = NULL <=> s = <<>>
    BY <1>2, <1>3, ListShape DEF InOrder, Queue, Block, Op, NULL
  <1>8. /\ Append(s, o) \in Seq(Op) /\ Len(Append(s, o)) = Len(s) + 1
        /\ \A i \in 1..Len(s) : Append(s, o)[i] = s[i]
        /\ Append(s, o)[Len(s) + 1] = o /\ Append(s, o) # <<>>
    BY <1>4, AppendProperties
  <1>9. Append(s, o)[1] = head'["main"] /\ head'["main"] # NULL
    <2>1. CASE s = <<>>
      BY <1>4, <1>5, <1>7, <1>8, <2>1, EmptySeq
    <2>2. CASE s # <<>>
      BY <1>2, <1>5, <1>7, <1>8, <2>2, EmptySeq DEF InOrder
    <2>3. QED
      BY <2>1, <2>2
  <1>10. ASSUME NEW i \in 1..Len(s) PROVE Append(s, o)[i + 1] = next'[Append(s, o)[i]]
    <2>1. Append(s, o)[i] = s[i] /\ s # <<>> /\ s[i] # o /\ s[i] \in Op
      BY <1>2, <1>4, <1>8, EmptySeq
    <2>2. CASE i = Len(s)
      <3>1. s[i] = last /\ last # NULL
        BY <1>2, <1>3, <1>7, <2>1, <2>2 DEF InOrder
      <3>2. QED
        BY <1>2, <1>5, <1>8, <2>1, <2>2, <3>1 DEF TypeOK
    <2>3. CASE i # Len(s)
      <3>1. i \in 1..(Len(s) - 1) /\ i + 1 \in 1..Len(s)
        BY <1>2, <2>3
      <3>2. s[i + 1] = next[s[i]] /\ s[i] # last
        BY <1>2, <1>3, <2>1, <3>1 DEF InOrder
      <3>3. QED
        BY <1>5, <1>8, <2>1, <3>1, <3>2 DEF TypeOK
    <2>4. QED
      BY <2>2, <2>3
  <1>11. InOrder(Append(s, o))'
    <2>1. Len(Append(s, o)) - 1 = Len(s)
      BY <1>2, <1>8
    <2>2. QED
      BY <1>5, <1>8, <1>9, <1>10, <2>1 DEF InOrder
  <1>12. QED
    BY <1>1, <1>6, <1>8, <1>11, OrderIsAfter


\* A queued block carries a task of the callers, and no two carry the same.
Faithful ==
  \A o \in Queued : /\ func[o] \in pending
                    /\ \A p \in Queued : func[p] = func[o] => p = o

LEMMA StartFaithful ==
  ASSUME TypeOK, TypeOK', Labelled, Faithful, cur = NULL,
         NEW q \in {"timer", "main"}, head[q] # NULL, StartHead(q)
  PROVE  Faithful'
  <1>1. PICK o : o = head[q]
    OBVIOUS
  <1>2. /\ Passes(o, "running") /\ o \in Block(q)
        /\ UNCHANGED func /\ pending' = pending \ {func[o]}
    BY <1>1, StartPasses DEF StartHead, blocks
  <1>3. Queued' = Queued \ {o} /\ o \in Queued
    BY <1>2 DEF Passes, Queued, Queue
  <1>4. ASSUME NEW x \in Queued'
        PROVE  /\ func'[x] \in pending'
               /\ \A p \in Queued' : func'[p] = func'[x] => p = x
    BY <1>2, <1>3, <1>4 DEF Faithful
  <1>5. QED
    BY <1>4 DEF Faithful

LEMMA RegisterFaithful ==
  ASSUME Faithful, TypeOK, NEW o \in Op, NEW f, f \notin pending,
         Queued' = Queued \cup {o}, o \notin Queued, Queued \subseteq Op,
         func' = [func EXCEPT ![o] = f], pending' = pending \cup {f}
  PROVE  Faithful'
  <1>1. func'[o] = f /\ \A x \in Queued : func'[x] = func[x] /\ func[x] # f
    BY DEF TypeOK, Faithful
  <1>2. ASSUME NEW x \in Queued'
        PROVE  /\ func'[x] \in pending'
               /\ \A p \in Queued' : func'[p] = func'[x] => p = x
    BY <1>1, <1>2 DEF Faithful
  <1>3. QED
    BY <1>2 DEF Faithful

LEMMA StepFaithful ==
  ASSUME ~Overcommit, TypeOK, TypeOK', Labelled, Faithful, [Next]_vars
  PROVE  Faithful'
  <1>1. CASE RunDue
    <2>1. sel \in {"timer", "main"} /\ head[sel] # NULL /\ StartHead(sel)
          /\ cur = NULL
      BY <1>1 DEF RunDue, HeadIsDue, TypeOK
    <2>2. QED
      BY <2>1, StartFaithful
  <1>2. CASE PickIdle
    <2>1. head["main"] # NULL /\ StartHead("main") /\ cur = NULL
      BY <1>2 DEF PickIdle, TypeOK
    <2>2. QED
      BY <2>1, StartFaithful
  <1>3. CASE Return
    <2>1. Free(cur) /\ cur' = NULL /\ cur \in Op /\ pending' = pending
      BY <1>3 DEF Return, TypeOK, Ptr
    <2>2. Passes(cur, "free") /\ \A q \in Queue : cur \notin Block(q)
      BY <2>1, FreePasses
    <2>3. Queued' = Queued /\ func' = func
      BY <2>1, <2>2 DEF Passes, Queued, Queue, Free
    <2>4. QED
      BY <2>1, <2>3 DEF Faithful
  <1>4. ASSUME NEW c \in Context, NEW f \in Task, PostIdle(c, f)
        PROVE  Faithful'
    <2>1. RunWhenIdle(f) /\ cur' = cur /\ head["free"] # tail["free"]
          /\ f \notin pending /\ pending' = pending \cup {f}
      BY <1>4 DEF PostIdle, Register, MayAllocate, thread
    <2>2. PICK o : o = Allocated /\ o # NULL /\ o \in Block("free")
      BY <2>1, ReserveAllocates
    <2>3. func' = [func EXCEPT ![o] = f]
      BY <2>1, <2>2 DEF RunWhenIdle
    <2>4. Passes(o, "main")
      BY <2>1, <2>2, RunWhenIdlePasses DEF Block
    <2>5. o \notin Queued /\ o \in Op /\ Queued \subseteq Op
      BY <2>2, ListsApart DEF Queued, Queue, Block
    <2>6. Queued' = Queued \cup {o}
      BY <2>4, <2>5 DEF Passes, Queued, Queue
    <2>7. QED
      BY <2>1, <2>3, <2>5, <2>6, RegisterFaithful
  <1>5. ASSUME NEW c \in Context, NEW f \in Task, NEW d \in Delay,
               PostTimed(c, f, d)
        PROVE  Faithful'
    <2>1. RunAtTime(f, Shift(now, d)) /\ cur' = cur /\ head["free"] # tail["free"]
          /\ f \notin pending /\ pending' = pending \cup {f}
      BY <1>5 DEF PostTimed, Register, MayAllocate, thread
    <2>2. PICK o : o = Allocated /\ o # NULL /\ o \in Block("free")
      BY <2>1, ReserveAllocates
    <2>3. func' = [func EXCEPT ![o] = f] /\ Insert(o, Shift(now, d), time')
      BY <2>1, <2>2 DEF RunAtTime
    <2>4. Passes(o, "timer")
      BY <2>1, <2>2, <2>3, RunAtTimePasses DEF Block
    <2>5. o \notin Queued /\ o \in Op /\ Queued \subseteq Op
      BY <2>2, ListsApart DEF Queued, Queue, Block
    <2>6. Queued' = Queued \cup {o}
      BY <2>4, <2>5 DEF Passes, Queued, Queue
    <2>7. QED
      BY <2>1, <2>3, <2>5, <2>6, RegisterFaithful
  <1>6. CASE Wake \/ NothingDue \/ PickNothing \/ Finish \/ Sleep \/ Tick
              \/ UNCHANGED vars
    <2>1. UNCHANGED <<next, head, tail, cur, func, pending>>
      BY <1>6 DEF Wake, NothingDue, PickNothing, Finish, Sleep, Tick, vars,
                  blocks, lists, thread
    <2>2. Queued' = Queued
      BY <2>1, NothingPasses DEF Queued, Queue
    <2>3. QED
      BY <2>1, <2>2 DEF Faithful
  <1>7. QED
    BY <1>1, <1>2, <1>3, <1>4, <1>5, <1>6 DEF Next, MainThread, Callers

\* What Scheduler sees of the idle list.
TasksListed ==
  /\ IdleTasks \in Seq(Task \cup {NoTask}) /\ Len(IdleTasks) = Len(Order)
  /\ DOMAIN IdleTasks = 1..Len(Order)
  /\ \A i \in 1..Len(Order) : IdleTasks[i] = func[Order[i]]

LEMMA TasksInOrder == TypeOK /\ Labelled => TasksListed
  <1> SUFFICES ASSUME TypeOK, Labelled PROVE TasksListed
    OBVIOUS
  <1>1. PICK n \in Nat : n = Len(Order) /\ \A i \in 1..n : Order[i] \in Op
    BY OrderRight
  <1>2. IdleTasks \in [1..n -> Task \cup {NoTask}]
    BY <1>1 DEF IdleTasks, TypeOK
  <1>3. IdleTasks \in Seq(Task \cup {NoTask}) /\ Len(IdleTasks) = n
    BY <1>2, SeqDef
  <1>4. QED
    BY <1>1, <1>3 DEF IdleTasks, TasksListed

LEMMA TasksInOrderAfter == TypeOK' /\ Labelled' => TasksListed'
  <1>1. TypeOK /\ Labelled => TasksListed
    BY TasksInOrder
  <1>2. QED
    BY <1>1, PTL

LEMMA SameIdle ==
  ASSUME TypeOK, Labelled, Order' = Order,
         \A o \in Block("main") : func'[o] = func[o]
  PROVE  IdleTasks' = IdleTasks
  <1>1. PICK s : s = Order /\ \A i \in 1..Len(s) : s[i] \in Block("main")
    BY OrderRight
  <1>2. \A i \in 1..Len(s) : func'[s[i]] = func[s[i]]
    BY <1>1
  <1>3. QED
    BY <1>1, <1>2 DEF IdleTasks

LEMMA SameTimed ==
  ASSUME Block("timer")' = Block("timer"),
         \A o \in Block("timer") : func'[o] = func[o] /\ time'[o] = time[o]
  PROVE  TimedTasks' = TimedTasks
  BY DEF TimedTasks

LEMMA WaitingPending ==
  ASSUME TypeOK, Labelled, Faithful
  PROVE  Promise!Waiting \subseteq pending
  <1>1. ASSUME NEW i \in DOMAIN IdleTasks PROVE IdleTasks[i] \in pending
    <2>1. i \in 1..Len(Order) /\ IdleTasks[i] = func[Order[i]]
      BY TasksInOrder DEF TasksListed
    <2>2. Order[i] \in Queued
      BY <2>1, OrderRight DEF Queued
    <2>3. QED
      BY <2>1, <2>2 DEF Faithful
  <1>2. ASSUME NEW a \in TimedTasks PROVE a[1] \in pending
    BY DEF TimedTasks, Faithful, Queued
  <1>3. QED
    BY <1>1, <1>2 DEF Promise!Waiting


\* A block that goes on no list and comes from none of the two queues leaves
\* what Scheduler sees.
LEMMA ReturnSeen ==
  ASSUME TypeOK, TypeOK', Labelled, Return
  PROVE  UNCHANGED <<IdleTasks, TimedTasks, now>>
  <1>1. Free(cur) /\ cur' = NULL /\ cur \in Op /\ now' = now
    BY DEF Return, TypeOK, Ptr
  <1>2. Labelled' /\ Passes(cur, "free") /\ \A q \in Queue : cur \notin Block(q)
    BY <1>1, FreePasses
  <1>3. /\ UNCHANGED <<func, time>>
        /\ head'["main"] = head["main"] /\ tail'["main"] = tail["main"]
    BY <1>1 DEF Free, TypeOK, Queue
  <1>4. ASSUME NEW x \in Block("main") PROVE next'[x] = next[x]
    <2>1. tail["free"] = NULL \/ tail["free"] \in Block("free")
      BY ListShape DEF Queue
    <2>2. x # tail["free"] /\ x \in Op
      BY <2>1, ListsApart DEF Queue, Block, Op, NULL
    <2>3. QED
      BY <1>1, <2>2 DEF Free, TypeOK
  <1>5. Order' = Order
    BY <1>2, <1>3, <1>4, SameOrder
  <1>6. Block("timer")' = Block("timer")
    BY <1>2 DEF Passes, Queue
  <1>7. QED
    BY <1>1, <1>3, <1>5, <1>6, SameIdle, SameTimed

\* The head of the idle list is the oldest idle task.
LEMMA StartIdleSeen ==
  ASSUME TypeOK, TypeOK', Labelled, cur = NULL, head["main"] # NULL,
         StartHead("main")
  PROVE  Promise!StartIdle
  <1>1. PICK o : o = head["main"]
    OBVIOUS
  <1>2. Labelled' /\ o \in Block("main") /\ Passes(o, "running")
    BY <1>1, StartPasses
  <1>3. UNCHANGED <<func, time, now>>
    BY DEF StartHead, blocks
  <1>4. Block("timer")' = Block("timer")
    BY <1>2, ListsApart DEF Passes, Queue
  <1>5. TimedTasks' = TimedTasks
    BY <1>3, <1>4, SameTimed
  <1>6. PICK s \in Seq(Op) : s = Order /\ s # <<>> /\ Order' = Tail(s)
                             /\ Len(s) \in Nat \ {0}
    BY StartOrder, OrderRight, EmptySeq
  <1>7. /\ Len(Tail(s)) = Len(s) - 1
        /\ \A i \in 1..(Len(s) - 1) : Tail(s)[i] = s[i + 1]
    BY <1>6, HeadTailProperties
  <1>8. PICK t \in Seq(Task \cup {NoTask}) :
          t = IdleTasks /\ Len(t) = Len(s) /\ \A i \in 1..Len(s) : t[i] = func[s[i]]
    BY <1>6, TasksInOrder DEF TasksListed
  <1>9. t # <<>>
    BY <1>6, <1>8, EmptySeq
  <1>10. /\ Tail(t) \in Seq(Task \cup {NoTask}) /\ Len(Tail(t)) = Len(s) - 1
         /\ \A i \in 1..(Len(s) - 1) : Tail(t)[i] = t[i + 1]
    BY <1>8, <1>9, HeadTailProperties
  <1>11. PICK u \in Seq(Task \cup {NoTask}) :
           /\ u = IdleTasks' /\ Len(u) = Len(s) - 1
           /\ \A i \in 1..(Len(s) - 1) : u[i] = func[Tail(s)[i]]
    <2>1. TasksListed'
      BY <1>2, TasksInOrderAfter
    <2>2. /\ IdleTasks' \in Seq(Task \cup {NoTask}) /\ Len(IdleTasks') = Len(Order')
          /\ \A i \in 1..Len(Order') : IdleTasks'[i] = func'[Order'[i]]
      BY <2>1 DEF TasksListed
    <2>3. Len(Order') = Len(s) - 1 /\ Order' = Tail(s)
      BY <1>6, <1>7
    <2>4. PICK v : v = IdleTasks'
      OBVIOUS
    <2>5. /\ v \in Seq(Task \cup {NoTask}) /\ Len(v) = Len(s) - 1
          /\ \A i \in 1..(Len(s) - 1) : v[i] = func[Tail(s)[i]]
      BY <1>3, <2>2, <2>3, <2>4
    <2>6. QED
      BY <2>4, <2>5
  <1>12. u = Tail(t)
    <2>1. ASSUME NEW i \in 1..(Len(s) - 1) PROVE u[i] = Tail(t)[i]
      <3>1. i + 1 \in 1..Len(s)
        BY <1>6
      <3>2. QED
        BY <1>7, <1>8, <1>10, <1>11, <3>1
    <2>2. QED
      BY <1>10, <1>11, <2>1, SeqEqual
  <1>13. QED
    BY <1>3, <1>5, <1>8, <1>9, <1>11, <1>12 DEF Promise!StartIdle

\* The head of the timer list, when it is due, is the earliest timed task.
LEMMA StartDueSeen ==
  ASSUME Roomy, TypeOK, TypeOK', Labelled, TimersKept, Faithful, cur = NULL,
         head["timer"] # NULL, Later(now, time[head["timer"]]), StartHead("timer")
  PROVE  \E a \in TimedTasks : Promise!StartDue(a)
  <1>1. PICK o : o = head["timer"]
    OBVIOUS
  <1>2. Labelled' /\ o \in Block("timer") /\ Passes(o, "running")
    BY <1>1, StartPasses
  <1>3. /\ UNCHANGED <<next, func, time, now>>
        /\ head'["main"] = head["main"] /\ tail'["main"] = tail["main"]
    BY DEF StartHead, blocks, TypeOK, Queue
  <1>4. Order' = Order
    BY <1>2, <1>3, SameOrder
  <1>5. IdleTasks' = IdleTasks
    BY <1>3, <1>4, SameIdle
  <1>6. Block("timer")' = Block("timer") \ {o}
    BY <1>2 DEF Passes, Queue
  <1>7. PICK a : a = <<func[o], time[o]>>
    OBVIOUS
  <1>8. a \in TimedTasks /\ a[2] = time[o]
    BY <1>2, <1>7 DEF TimedTasks
  <1>9. TimedTasks' = TimedTasks \ {a}
    <2>1. ASSUME NEW x \in Block("timer"), <<func[x], time[x]>> = a PROVE x = o
      BY <1>2, <1>7, <2>1 DEF Faithful, Queued
    <2>2. QED
      BY <1>3, <1>6, <1>7, <2>1 DEF TimedTasks
  <1>10. ASSUME NEW x \in Block("timer") PROVE Later(time[x], time[o])
    <2>1. PICK lead, sleep : Timely(lead, sleep)
      BY DEF TimersKept
    <2>2. lead[o] <= lead[x] /\ o \in Timers /\ x \in Timers
      BY <1>1, <1>2, <2>1, HeadLeast DEF Timely, LeastHead, Least, Timers
    <2>3. lead[o] \in Int /\ lead[x] \in Int
      BY <2>1, <2>2, Room DEF Timely, Reckoned
    <2>4. QED
      BY <2>1, <2>2, <2>3, LaterTimers DEF Timely
  <1>11. \A b \in TimedTasks : Later(b[2], a[2])
    BY <1>8, <1>10 DEF TimedTasks
  <1>12. Later(now, a[2])
    BY <1>1, <1>8
  <1>13. Promise!StartDue(a)
    BY <1>3, <1>5, <1>9, <1>11, <1>12 DEF Promise!StartDue, Promise!Later, Later
  <1>14. QED
    BY <1>8, <1>13

\* run_when_idle appends its task.
LEMMA PostIdleSeen ==
  ASSUME ~Overcommit, TypeOK, TypeOK', Labelled, Faithful, NEW c, NEW f \in Task,
         PostIdle(c, f)
  PROVE  Promise!Request(f)
  <1>1. /\ RunWhenIdle(f) /\ head["free"] # tail["free"]
        /\ UNCHANGED <<now, cur>> /\ f \notin pending
    BY DEF PostIdle, Register, MayAllocate, thread
  <1>2. PICK o : o = Allocated /\ o # NULL /\ o \in Block("free")
    BY <1>1, ReserveAllocates
  <1>3. func' = [func EXCEPT ![o] = f] /\ time' = [time EXCEPT ![o] = 0]
    BY <1>1, <1>2 DEF RunWhenIdle
  <1>4. /\ o \in Op /\ o \notin Block("main") /\ o \notin Block("timer")
        /\ Block("timer") \subseteq Op
    BY <1>2, ListsApart DEF Queue, Block
  <1>5. Labelled' /\ Block("timer")' = Block("timer")
    BY <1>1, <1>2, <1>4, RunWhenIdlePasses DEF Passes, Queue
  <1>6. TimedTasks' = TimedTasks
    BY <1>3, <1>4, <1>5, SameTimed DEF TypeOK
  <1>7. PICK s \in Seq(Op) : /\ s = Order /\ Order' = Append(s, o) /\ Len(s) \in Nat
                             /\ \A i \in 1..Len(s) : s[i] \in Block("main") /\ s[i] \in Op
    BY <1>1, <1>2, PostOrder, OrderRight
  <1>8. /\ Len(Append(s, o)) = Len(s) + 1 /\ Append(s, o)[Len(s) + 1] = o
        /\ \A i \in 1..Len(s) : Append(s, o)[i] = s[i]
    BY <1>4, <1>7, AppendProperties
  <1>9. PICK t \in Seq(Task \cup {NoTask}) :
          t = IdleTasks /\ Len(t) = Len(s) /\ \A i \in 1..Len(s) : t[i] = func[s[i]]
    BY <1>7, TasksInOrder DEF TasksListed
  <1>10. /\ Append(t, f) \in Seq(Task \cup {NoTask}) /\ Len(Append(t, f)) = Len(s) + 1
         /\ \A i \in 1..Len(s) : Append(t, f)[i] = t[i]
         /\ Append(t, f)[Len(s) + 1] = f
    BY <1>9, AppendProperties
  <1>11. PICK u \in Seq(Task \cup {NoTask}) :
           /\ u = IdleTasks' /\ Len(u) = Len(s) + 1
           /\ \A i \in 1..(Len(s) + 1) : u[i] = func'[Append(s, o)[i]]
    BY <1>5, <1>7, <1>8, TasksInOrderAfter DEF TasksListed
  <1>12. u = Append(t, f)
    <2>1. ASSUME NEW i \in 1..(Len(s) + 1) PROVE u[i] = Append(t, f)[i]
      <3>1. CASE i = Len(s) + 1
        <4>1. func'[o] = f
          BY <1>3, <1>4 DEF TypeOK
        <4>2. QED
          BY <1>8, <1>10, <1>11, <3>1, <4>1
      <3>2. CASE i # Len(s) + 1
        <4>1. i \in 1..Len(s)
          BY <1>7, <3>2
        <4>2. func'[s[i]] = func[s[i]]
          BY <1>3, <1>4, <1>7, <4>1 DEF TypeOK
        <4>3. QED
          BY <1>8, <1>9, <1>10, <1>11, <4>1, <4>2
      <3>3. QED
        BY <3>1, <3>2
    <2>2. QED
      BY <1>10, <1>11, <2>1, SeqEqual
  <1>13. f \notin Promise!Waiting
    BY <1>1, WaitingPending
  <1>14. QED
    BY <1>1, <1>6, <1>9, <1>11, <1>12, <1>13 DEF Promise!Request

\* run_at_time adds its task, with its time.
LEMMA PostTimedSeen ==
  ASSUME ~Overcommit, TypeOK, TypeOK', Labelled, Faithful, NEW c, NEW f \in Task,
         NEW d \in Delay, PostTimed(c, f, d)
  PROVE  Promise!RequestAt(f, d)
  <1> DEFINE t == Shift(now, d)
  <1>1. /\ RunAtTime(f, t) /\ head["free"] # tail["free"]
        /\ UNCHANGED <<now, cur>> /\ f \notin pending
    BY DEF PostTimed, Register, MayAllocate, thread
  <1>2. PICK o : o = Allocated /\ o # NULL /\ o \in Block("free")
    BY <1>1, ReserveAllocates
  <1>3. /\ func' = [func EXCEPT ![o] = f] /\ time' = [time EXCEPT ![o] = t]
        /\ Insert(o, t, time')
    BY <1>1, <1>2 DEF RunAtTime
  <1>4. /\ o \in Op /\ o \notin Block("main") /\ o \notin Block("timer")
        /\ Block("timer") \subseteq Op /\ Block("main") \subseteq Op
    BY <1>2, ListsApart DEF Queue, Block
  <1>5. Labelled' /\ Passes(o, "timer")
    BY <1>1, <1>2, <1>3, <1>4, RunAtTimePasses
  <1>6. Block("timer")' = Block("timer") \cup {o}
    BY <1>5 DEF Passes, Queue
  <1>7. head'["main"] = head["main"] /\ tail'["main"] = tail["main"]
    BY <1>3 DEF Insert, InsertFirst, InsertAfter, HeadsLeft, TailsLeft, TypeOK, Queue
  <1>8. ASSUME NEW x \in Block("main") PROVE next'[x] = next[x]
    <2>1. x \in Op /\ x # o
      BY <1>4
    <2>2. CASE InsertFirst(o)
      BY <1>4, <2>1, <2>2 DEF InsertFirst, TypeOK
    <2>3. ASSUME NEW b \in Visited(t, time'), head["timer"] # NULL, InsertAfter(o, b)
          PROVE  next'[x] = next[x]
      <3>1. PICK own : OwnedAs(own)
        BY DEF Labelled
      <3>2. PICK pos : Linked(own, pos)
        BY <3>1 DEF OwnedAs
      <3>3. b \in Op /\ own[b] = "timer"
        BY <2>3, <3>2, WalkOnList
      <3>4. b # x
        BY <3>2, <3>3, BlocksOfList DEF Queue
      <3>5. QED
        BY <1>4, <2>1, <2>3, <3>3, <3>4 DEF InsertAfter, TypeOK
    <2>4. QED
      BY <1>3, <2>2, <2>3 DEF Insert
  <1>9. Order' = Order
    BY <1>5, <1>7, <1>8, SameOrder
  <1>10. \A x \in Op : x # o => func'[x] = func[x] /\ time'[x] = time[x]
    BY <1>3, <1>4 DEF TypeOK
  <1>11. IdleTasks' = IdleTasks
    BY <1>4, <1>9, <1>10, SameIdle
  <1>12. func'[o] = f /\ time'[o] = t
    BY <1>3, <1>4 DEF TypeOK
  <1>13. TimedTasks' = TimedTasks \cup {<<f, t>>}
    BY <1>4, <1>6, <1>10, <1>12 DEF TimedTasks
  <1>14. f \notin Promise!Waiting
    BY <1>1, WaitingPending
  <1>15. QED
    BY <1>1, <1>11, <1>13, <1>14 DEF Promise!RequestAt, Shift


LEMMA InitSeen == Init => Promise!Init
  <1> SUFFICES ASSUME Init PROVE Promise!Init
    OBVIOUS
  <1>1. TypeOK
    BY InitTyped
  <1>2. Labelled /\ head["main"] = NULL /\ head["timer"] = NULL /\ now = 0
    BY InitLinked DEF Init, Queue
  <1>3. InOrder(Order) /\ Order = <<>>
    BY <1>1, <1>2, OrderRight DEF InOrder
  <1>4. IdleTasks = <<>>
    <2>1. IdleTasks \in Seq(Task \cup {NoTask}) /\ Len(IdleTasks) = 0
      BY <1>1, <1>2, <1>3, TasksInOrder, EmptySeq DEF TasksListed
    <2>2. QED
      BY <2>1, EmptySeq
  <1>5. TimedTasks = {}
    BY <1>1, <1>2, ListShape DEF TimedTasks, Queue
  <1>6. QED
    BY <1>2, <1>4, <1>5 DEF Promise!Init

LEMMA StepSeen ==
  Punctual /\ TypeOK /\ TypeOK' /\ Labelled /\ TimersKept /\ Faithful /\ [Next]_vars
    => [Promise!Next]_<<IdleTasks, TimedTasks, now>>
  <1> SUFFICES ASSUME Roomy, ~Overcommit, TypeOK, TypeOK', Labelled, TimersKept,
                      Faithful, [Next]_vars
               PROVE  Promise!Next \/ UNCHANGED <<IdleTasks, TimedTasks, now>>
    BY DEF Punctual
  <1>1. CASE RunDue
    <2>1. /\ sel \in {"timer", "main"} /\ head[sel] # NULL /\ StartHead(sel)
          /\ cur = NULL /\ Later(now, time[head[sel]])
      BY <1>1 DEF RunDue, HeadIsDue, TypeOK
    <2>2. CASE sel = "timer"
      BY <2>1, <2>2, StartDueSeen DEF Promise!Next
    <2>3. CASE sel = "main"
      BY <2>1, <2>3, StartIdleSeen DEF Promise!Next
    <2>4. QED
      BY <2>1, <2>2, <2>3
  <1>2. CASE PickIdle
    <2>1. head["main"] # NULL /\ StartHead("main") /\ cur = NULL
      BY <1>2 DEF PickIdle, TypeOK
    <2>2. QED
      BY <2>1, StartIdleSeen DEF Promise!Next
  <1>3. CASE Return
    BY <1>3, ReturnSeen
  <1>4. ASSUME NEW c \in Context, NEW f \in Task, PostIdle(c, f)
        PROVE  Promise!Next
    BY <1>4, PostIdleSeen DEF Promise!Next
  <1>5. ASSUME NEW c \in Context, NEW f \in Task, NEW d \in Delay,
               PostTimed(c, f, d)
        PROVE  Promise!Next
    BY <1>5, PostTimedSeen DEF Promise!Next
  <1>6. CASE Wake \/ NothingDue \/ PickNothing \/ Finish \/ Sleep \/ Tick
              \/ UNCHANGED vars
    <2>1. UNCHANGED <<next, head, tail, cur, func, time>>
      BY <1>6 DEF Wake, NothingDue, PickNothing, Finish, Sleep, Tick, vars,
                  blocks, lists, thread
    <2>2. Labelled' /\ Block("main")' = Block("main")
          /\ Block("timer")' = Block("timer")
      BY <2>1, NothingPasses DEF Queue
    <2>3. UNCHANGED <<IdleTasks, TimedTasks>>
      BY <2>1, <2>2, SameOrder, SameIdle, SameTimed
    <2>4. now' = now \/ now' = (now + 1) % TimeMod
      BY <1>6 DEF Wake, NothingDue, PickNothing, Finish, Sleep, Tick, vars, Shift
    <2>5. QED
      BY <2>3, <2>4 DEF Promise!Next, Promise!Pass
  <1>7. QED
    BY <1>1, <1>2, <1>3, <1>4, <1>5, <1>6 DEF Next, MainThread, Callers

\* The lists of pointers implement Scheduler: idle tasks start in the order they
\* were registered, timed ones when they are due and the earliest first, and
\* whatever is registered starts once, from every context and for every pool,
\* across the wrap of the counter (dispatch, run_when_idle, run_at_time).
THEOREM ImplementsScheduler == Punctual => (Spec => KeepsPromise)
  <1> SUFFICES ASSUME Punctual PROVE Spec => KeepsPromise
    OBVIOUS
  <1>1. Init => Faithful
    <2> SUFFICES ASSUME Init PROVE Faithful
      OBVIOUS
    <2>1. Queued = {}
      BY InitTyped, InitLinked, ListShape DEF Init, Queued, Queue
    <2>2. QED
      BY <2>1 DEF Faithful
  <1>2. TypeOK /\ TypeOK' /\ Labelled /\ Faithful /\ [Next]_vars => Faithful'
    BY StepFaithful DEF Punctual
  <1>3. TypeOK /\ TypeOK' /\ Labelled /\ TimersKept /\ Faithful /\ [Next]_vars
          => [Promise!Next]_<<IdleTasks, TimedTasks, now>>
    BY StepSeen
  <1>4. QED
    BY <1>1, <1>2, <1>3, InitSeen, AlwaysTimely, PTL DEF Spec, KeepsPromise,
       Promise!Spec

(***************************************************************************)
(* The labelling that the pointers give.  Counting the blocks on the way    *)
(* from the head to a block gives back its number, up to a shift.           *)
(***************************************************************************)

\* The links lead from one block of a list to another when the other is not
\* before it.
LEMMA LeadsOn ==
  ASSUME TypeOK, NEW own, NEW pos, Linked(own, pos), NEW q \in Queue,
         NEW x \in Op, NEW o \in Op, own[x] = q, own[o] = q
  PROVE  Leads(x, o, q) <=> pos[x] <= pos[o]
  <1>1. Chain(q, own, pos) /\ pos \in [Op -> Int]
    BY DEF Linked
  <1>2. ASSUME Leads(x, o, q) PROVE pos[x] <= pos[o]
    <2> DEFINE After == {y \in Op : own[y] = q /\ pos[x] <= pos[y]}
    <2>1. After \in SUBSET Op /\ x \in After
      BY <1>1
    <2>2. ASSUME NEW y \in After, y # tail[q] PROVE next[y] \in After
      <3>1. next[y] \in Op /\ own[next[y]] = q /\ pos[next[y]] = pos[y] + 1
        BY <1>1, <2>2 DEF Chain, Chained
      <3>2. pos[x] \in Int /\ pos[y] \in Int /\ pos[x] <= pos[y]
        BY <1>1
      <3>3. QED
        BY <3>1, <3>2
    <2>3. o \in After
      <3> HIDE DEF After
      <3>1. \A y \in After : y = tail[q] \/ next[y] \in After \cup {NULL}
        BY <2>2
      <3>2. QED
        BY <1>2, <2>1, <3>1 DEF Leads
    <2>4. QED
      BY <2>3
  <1>3. ASSUME pos[x] <= pos[o], NEW C \in SUBSET Op, x \in C,
               \A y \in C : y = tail[q] \/ next[y] \in C \cup {NULL}, o \notin C
        PROVE  FALSE
    \* The block of C closest before o has its successor in C, closer still.
    <2> DEFINE Near == {y \in C : own[y] = q /\ pos[y] < pos[o]}
               Gap  == {pos[o] - pos[y] : y \in Near}
    <2>1. x \in Near
      <3>1. pos[x] # pos[o]
        BY <1>1, <1>3 DEF Chain, Chained
      <3>2. QED
        BY <1>1, <1>3, <3>1
    <2>2. Gap \in SUBSET Nat /\ pos[o] - pos[x] \in Gap
      BY <1>1, <2>1
    <2>3. PICK g \in Gap : \A h \in Gap : ~(h < g)
      <3> HIDE DEF Gap
      <3>1. QED
        BY <2>2, LeastOf
    <2>4. PICK y \in Near : g = pos[o] - pos[y]
      BY <2>3
    <2>5. y \in Op /\ own[y] = q /\ pos[y] < pos[o] /\ y \in C
      OBVIOUS
    <2>6. y # tail[q]
      BY <1>1, <2>5 DEF Chain, Chained
    <2>7. next[y] \in Op /\ own[next[y]] = q /\ pos[next[y]] = pos[y] + 1
      BY <1>1, <2>5, <2>6 DEF Chain, Chained
    <2>8. next[y] \in C
      BY <1>3, <2>5, <2>6, <2>7 DEF Op, NULL
    <2>9. pos[next[y]] # pos[o]
      BY <1>1, <1>3, <2>7, <2>8 DEF Chain, Chained
    <2>10. next[y] \in Near
      BY <1>1, <2>5, <2>7, <2>8, <2>9
    <2>11. pos[o] - pos[next[y]] \in Gap /\ pos[o] - pos[next[y]] < g
      BY <1>1, <2>4, <2>5, <2>7, <2>10
    <2>12. QED
      BY <2>3, <2>11
  <1>4. QED
    BY <1>2, <1>3 DEF Leads

LEMMA PlaceIsNumber ==
  ASSUME TypeOK, NEW own, NEW pos, Linked(own, pos), NEW q \in Queue,
         NEW o \in Op, own[o] = q
  PROVE  Cardinality({x \in Block(q) : Leads(x, o, q)}) = pos[o] - pos[head[q]] + 1
  <1> DEFINE first == head[q]
             before == {x \in Block(q) : Leads(x, o, q)}
  <1>1. /\ Chain(q, own, pos) /\ pos \in [Op -> Int]
        /\ first \in Op /\ own[first] = q /\ first # NULL
        /\ pos[first] <= pos[o] /\ pos[o] <= pos[tail[q]] /\ tail[q] \in Op
    BY DEF Linked, Chain, Chained, Op, NULL
  <1>2. before = {x \in Op : own[x] = q /\ pos[x] <= pos[o]}
    BY BlocksOfList, LeadsOn
  <1>3. PICK a \in Int, b \in Int : a = pos[first] /\ b = pos[o]
    BY <1>1
  <1>4. PICK n \in Nat : n = b - a + 1
    BY <1>1, <1>3
  <1>5. ASSUME NEW i \in 1..n
        PROVE  \E x \in before : pos[x] = a + i - 1
    <2>1. i - 1 \in 0..(pos[tail[q]] - pos[first])
      BY <1>1, <1>3, <1>4
    <2>2. PICK x \in Op : own[x] = q /\ pos[x] = pos[first] + (i - 1)
      BY <1>1, <2>1, NoGap
    <2>3. pos[x] = a + i - 1 /\ pos[x] <= pos[o]
      BY <1>3, <1>4, <2>2
    <2>4. QED
      BY <1>2, <2>2, <2>3
  <1> HIDE DEF before
  <1>6. PICK f : f = [i \in 1..n |-> CHOOSE x \in before : pos[x] = a + i - 1]
    OBVIOUS
  <1>7. \A i \in 1..n : f[i] \in before /\ pos[f[i]] = a + i - 1
    BY <1>5, <1>6
  <1>8. f \in [1..n -> before]
    BY <1>6, <1>7
  <1>9. \A i, j \in 1..n : f[i] = f[j] => i = j
    BY <1>7
  <1>10. ASSUME NEW x \in before PROVE \E i \in 1..n : f[i] = x
    <2>1. x \in Op /\ own[x] = q /\ pos[x] <= pos[o] /\ pos[first] <= pos[x]
          /\ pos[x] \in Int
      BY <1>1, <1>2 DEF Chain, Chained
    <2>2. PICK i \in 1..n : i = pos[x] - a + 1
      BY <1>3, <1>4, <2>1
    <2>3. f[i] \in before /\ pos[f[i]] = pos[x]
      BY <1>7, <2>1, <2>2
    <2>4. f[i] = x
      BY <1>1, <1>2, <2>1, <2>3 DEF Chain, Chained
    <2>5. QED
      BY <2>4
  <1>11. f \in Bijection(1..n, before)
    BY <1>8, <1>9, <1>10 DEF Bijection, Injection, Surjection, IsInjective
  <1>12. ExistsBijection(1..n, before)
    BY <1>11 DEF ExistsBijection
  <1>13. Cardinality(before) = n
    BY <1>12, FS_CountingElements
  <1>14. QED
    BY <1>3, <1>4, <1>13 DEF before

LEMMA LabelledLinked ==
  ASSUME TypeOK, Labelled
  PROVE  ListsLinked
  <1>1. PICK own, pos : Linked(own, pos)
    BY DEF Labelled, OwnedAs
  <1>2. /\ own \in [Op -> Queue \cup {"running"}] /\ pos \in [Op -> Int]
        /\ \A o \in Op : own[o] = "running" <=> o = cur
        /\ \A q \in Queue : Chain(q, own, pos)
    BY <1>1 DEF Linked
  <1>3. \A q \in Queue : Block(q) = {o \in Op : own[o] = q}
    BY <1>1, BlocksOfList
  <1>4. Owner = own
    <2>1. ASSUME NEW o \in Op PROVE Owner[o] = own[o]
      <3>1. CASE o = cur
        BY <1>2, <3>1 DEF Owner
      <3>2. CASE o # cur
        <4>1. own[o] \in Queue
          BY <1>2, <3>2
        <4>2. \A q \in Queue : o \in Block(q) <=> q = own[o]
          BY <1>3
        <4>3. (CHOOSE q \in Queue : o \in Block(q)) = own[o]
          BY <4>1, <4>2
        <4>4. QED
          BY <3>2, <4>3 DEF Owner
      <3>3. QED
        BY <3>1, <3>2
    <2>2. Owner = [o \in Op |-> Owner[o]]
      BY DEF Owner
    <2>3. QED
      BY <1>2, <2>1, <2>2
  <1>5. ASSUME NEW q \in Queue, NEW o \in Op, own[o] = q
        PROVE  Place[o] = pos[o] - pos[head[q]] + 1
    <2>1. o # cur
      BY <1>2, <1>5 DEF Queue
    <2>2. Place[o] = Cardinality({x \in Block(q) : Leads(x, o, q)})
      BY <1>4, <1>5, <2>1 DEF Place
    <2>3. QED
      BY <1>1, <1>5, <2>2, PlaceIsNumber
  <1>6. Place \in [Op -> Int]
    <2>1. ASSUME NEW o \in Op PROVE Place[o] \in Int
      <3>1. CASE o = cur
        BY <3>1 DEF Place
      <3>2. CASE o # cur
        <4>1. PICK q \in Queue : own[o] = q
          BY <1>2, <3>2
        <4>2. head[q] \in Op
          BY <1>2, <4>1 DEF Chain, Chained
        <4>3. QED
          BY <1>2, <1>5, <4>1, <4>2
      <3>3. QED
        BY <3>1, <3>2
    <2>2. Place = [o \in Op |-> Place[o]]
      BY DEF Place
    <2>3. QED
      BY <2>1, <2>2
  <1>7. ASSUME NEW q \in Queue PROVE Chain(q, own, Place)
    <2>1. Chain(q, own, pos)
      BY <1>2
    <2>2. PICK place : place = Place
      OBVIOUS
    <2>3. CASE head[q] = NULL
      BY <2>1, <2>3 DEF Chain, Chained, Op, NULL
    <2>4. CASE head[q] # NULL
      <3>1. head[q] \in Op /\ tail[q] \in Op /\ pos[head[q]] \in Int
        BY <1>2, <2>1, <2>4 DEF Chain, Chained
      <3>2. PICK k \in Int : k = 1 - pos[head[q]]
        BY <3>1
      <3>3. \A o \in Op : own[o] = q => place[o] = pos[o] + k /\ pos[o] \in Int
        BY <1>2, <1>5, <2>2, <3>1, <3>2
      <3>4. Chain(q, own, place)
        BY <2>1, <2>4, <3>1, <3>3 DEF Chain, Chained
      <3>5. QED
        BY <2>2, <3>4
    <2>5. QED
      BY <2>3, <2>4
  <1>8. QED
    BY <1>2, <1>4, <1>6, <1>7 DEF ListsLinked, Linked

\* While callers leave one free block in reserve, the head, tail and next
\* pointers of the three lists agree after every step of dispatch, allocate,
\* free and run_at_time, although the last free block keeps a stale pointer.
THEOREM ListsStayLinked == ~Overcommit => (Spec => []ListsLinked)
  <1> SUFFICES ASSUME ~Overcommit PROVE Spec => []ListsLinked
    OBVIOUS
  <1>1. Init => Labelled
    BY InitLinked
  <1>2. TypeOK /\ TypeOK' /\ Labelled /\ [Next]_vars => Labelled'
    BY StepLinked
  <1>3. TypeOK /\ Labelled => ListsLinked
    BY LabelledLinked
  <1>4. QED
    BY <1>1, <1>2, <1>3, TypeCorrect, PTL DEF Spec

=============================================================================
