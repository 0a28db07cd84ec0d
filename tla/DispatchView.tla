---------------------------- MODULE DispatchView ----------------------------
(***************************************************************************)
(* A view for model checking Dispatch.  The blocks are interchangeable, so *)
(* two states that differ by a renaming of the blocks are one: a block is  *)
(* named by its place on the lists.  Its function and timestamp are read   *)
(* only while it is queued.                                                *)
(***************************************************************************)
EXTENDS Dispatch, SequencesExt

\* The blocks of a list in link order.
Walk(q) ==
  LET walk[w \in BoundedSeq(Op, PoolSize)] ==
        IF Last(w) = tail[q] \/ next[Last(w)] = NULL \/ Len(w) = PoolSize
        THEN w ELSE walk[Append(w, next[Last(w)])]
  IN IF head[q] = NULL THEN <<>> ELSE walk[<<head[q]>>]

Renamed ==
  LET queued == Walk("main") \o Walk("timer")
      order  == queued \o <<cur>> \o Walk("free")
      place  == [o \in Op |-> IF o \in ToSet(order)
                              THEN CHOOSE i \in DOMAIN order : order[i] = o
                              ELSE 4 * PoolSize + o]
      name   == [p \in Ptr |-> IF p = NULL THEN NULL ELSE place[p]]
      fields == [o \in Op |-> IF o \in ToSet(queued) THEN <<func[o], time[o]>>
                                                     ELSE <<>>]
  IN <<{<<name[o], name[next[o]], fields[o]>> : o \in Op},
       [q \in Queue |-> <<name[head[q]], name[tail[q]]>>],
       name[cur], line, sel, more, now, cc, wake, pending>>
=============================================================================
