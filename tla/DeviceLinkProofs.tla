--------------------------- MODULE DeviceLinkProofs ----------------------------
(***************************************************************************)
(* Theorems about DeviceLink: what the device hears is what was said.      *)
(*                                                                         *)
(* A mark <<id, n>> says that n bytes of message id are written.  The      *)
(* device stands at one mark, every write on the way leads from the mark   *)
(* before it to the next, and on a live link the last of them is where the *)
(* phone stands.  A step of the device moves its mark over one write, a    *)
(* step of the phone adds one at the end.                                  *)
(*                                                                         *)
(* All this lasts until the device takes a command that declares more than *)
(* its buffer holds; from there to the next reset it is Loose.             *)
(***************************************************************************)
EXTENDS DeviceLink, TLAPS

Byte == Nat \X Nat \X Nat
Message == [kind : Kinds, len : Lengths]
Reply == {"user", "id", "statue"} \X Nat
Chars == {"command", "bulkout"}
Buffers == [1 .. MaxMessage -> Byte]
Phones == [msgs : Seq(Message), sent : Seq(Nat), got : Seq(Reply)]
Receivers == [buffer : Buffers, offset : 0 .. MaxMessage, long : {FALSE}]

(* The variables' types. *)
Shape ==
    /\ app \in BOOLEAN /\ handle \in BOOLEAN
    /\ sd \in [up : BOOLEAN, closing : BOOLEAN, adv : BOOLEAN]
    /\ rx \in Receivers /\ Declared(rx.buffer) <= MaxMessage
    /\ air \in Seq(Chars \X Seq(Byte)) /\ Len(air) <= MaxAir
    /\ out \in Seq(Reply) /\ Len(out) <= TxBuffers
    /\ phone \in Phones /\ heard \in Seq(Seq(Byte))
    /\ ad = [name |-> ad.name, of |-> ad.of, made |-> ad.made,
             data |-> ad.data, spilled |-> ad.spilled]
    /\ ad.name \in Names

(* A link that is over leaves nothing behind, and an application is not     *)
(* needed to reach the device again.                                        *)
Quiet ==
    /\ ~handle => air = <<>> /\ phone = Silent /\ heard = <<>> /\ out = <<>>
    /\ ~sd.up => out = <<>>

(* How much of each message is written. *)
Written ==
    /\ Len(phone.sent) = Len(phone.msgs)
    /\ \A id \in 1 .. Len(phone.msgs) :
          phone.sent[id] \in Header .. Size(phone.msgs[id])

(* Which message a write belongs to, and which of its bytes it carries. *)
Of(a) == a[2][1][1]
From(a) == a[2][1][2]
Upto(a) == From(a) + Len(a[2]) - 1
ByteOf(p, id, i) == <<id, i, IF i = 2 THEN p.msgs[id].len ELSE 0>>
Carries(p, a) ==
    /\ Of(a) \in 1 .. Len(p.msgs) /\ From(a) \in Nat \ {0}
    /\ Len(a[2]) > 0 /\ Len(a[2]) <= Chunk
    /\ Upto(a) \in Header .. Size(p.msgs[Of(a)])
    /\ \A j \in 1 .. Len(a[2]) : a[2][j] = ByteOf(p, Of(a), From(a) + j - 1)

(* The message the device is at, and the marks of the device, of a write    *)
(* and of the phone.                                                        *)
At(r) == IF r.offset = 0 THEN 0 ELSE r.buffer[1][1]
Stands(r) == <<At(r), r.offset>>
Leads(a) == <<Of(a), Upto(a)>>
Reached(p) == IF p.msgs = <<>> THEN <<0, 0>>
              ELSE <<Len(p.msgs), p.sent[Len(p.msgs)]>>

(* A write begins the next message, goes on with this one, or says its last *)
(* byte once more.                                                          *)
Begins(p, mark, a) ==
    /\ a[1] = "command" /\ From(a) = 1 /\ Of(a) = mark[1] + 1
    /\ mark[1] > 0 => p.sent[mark[1]] = mark[2]
GoesOn(p, mark, a) ==
    /\ a[1] = "bulkout" /\ mark[1] > 0 /\ Of(a) = mark[1]
    /\ \/ From(a) = mark[2] + 1
       \/ From(a) = mark[2] /\ Upto(a) = mark[2] /\ mark[2] = Size(p.msgs[mark[1]])
Follows(p, mark, a) == Begins(p, mark, a) \/ GoesOn(p, mark, a)

Chain ==
    /\ \A i \in 1 .. Len(air) : Carries(phone, air[i])
    /\ air # <<>> => Follows(phone, Stands(rx), air[1])
    /\ \A i \in 1 .. Len(air) - 1 : Follows(phone, Leads(air[i]), air[i + 1])
Arriving ==
    (sd.up /\ handle) =>
        (IF air = <<>> THEN Stands(rx) ELSE Leads(air[Len(air)])) = Reached(phone)

(* The buffer holds the beginning of the message the device is at. *)
Holds(p, r) ==
    /\ At(r) \in 1 .. Len(p.msgs)
    /\ r.offset \in Header .. Size(p.msgs[At(r)])
    /\ \A i \in 1 .. r.offset : r.buffer[i] = ByteOf(p, At(r), i)
Buffered == (handle /\ rx.offset # 0) => Holds(phone, rx)

(* The messages heard are the complete ones up to where the device is. *)
Complete(p, r, id) ==
    (IF id = At(r) THEN r.offset ELSE p.sent[id]) = Size(p.msgs[id])
HeardSoFar(p, r, h) ==
    /\ \A i \in 1 .. Len(h) :
          h[i][1][1] <= At(r) /\ Complete(p, r, h[i][1][1])
    /\ \A id \in 1 .. At(r) :
          Complete(p, r, id) => \E i \in 1 .. Len(h) : h[i][1][1] = id
Heard == handle => HeardSoFar(phone, rx, heard)

Inv == /\ Shape /\ Quiet /\ Written /\ Chain /\ Arriving /\ Buffered /\ Heard
       /\ HeardWhole /\ RepliesTrue /\ Reachable

(* A command longer than the buffer has been taken. *)
Loose ==
    /\ rx = [buffer |-> rx.buffer, offset |-> rx.offset, long |-> TRUE]
    /\ app \in BOOLEAN /\ handle \in BOOLEAN
    /\ sd \in [up : BOOLEAN, closing : BOOLEAN, adv : BOOLEAN] /\ Reachable

(***************************************************************************)
(* Lemmas about the operators.                                             *)
(***************************************************************************)

LEMMA Sizes ==
  ASSUME NEW m \in Message
  PROVE  /\ m.len \in Nat /\ Size(m) \in Nat /\ Size(m) = 2 + m.len
         /\ Size(m) >= Header
<1>1. m.len \in Lengths
  BY DEF Message
<1>2. m.len \in Nat
  BY <1>1, LinkAssumption
<1> QED BY <1>2, LinkAssumption DEF Size, Header

(* A piece of a message. *)
LEMMA Cut ==
  ASSUME NEW id \in Nat, NEW m \in Message,
         NEW i \in 1 .. Size(m), NEW k \in i .. Size(m)
  PROVE  /\ SubSeq(Bytes(id, m), i, k) \in Seq(Byte)
         /\ Len(SubSeq(Bytes(id, m), i, k)) = k - i + 1
         /\ \A j \in 1 .. k - i + 1 : SubSeq(Bytes(id, m), i, k)[j] =
               <<id, i + j - 1, IF i + j - 1 = 2 THEN m.len ELSE 0>>
<1>1. PICK size \in Nat, len \in Nat : size = Size(m) /\ len = m.len
  BY Sizes
<1>2. PICK b : b = [n \in 1 .. size |-> <<id, n, IF n = 2 THEN len ELSE 0>>]
  OBVIOUS
<1>3. b \in Seq(Byte) /\ Len(b) = size
  BY <1>2 DEF Byte
<1>4. Bytes(id, m) = b
  BY <1>1, <1>2 DEF Bytes
<1>5. i \in 1 .. size /\ k \in i .. size
  BY <1>1
<1>6. SubSeq(b, i, k) \in Seq(Byte) /\ Len(SubSeq(b, i, k)) = k - i + 1
  BY <1>3, <1>5
<1>7. ASSUME NEW j \in 1 .. k - i + 1
      PROVE  SubSeq(b, i, k)[j] = <<id, i + j - 1, IF i + j - 1 = 2 THEN len ELSE 0>>
  <2>1. SubSeq(b, i, k)[j] = b[i + j - 1] /\ i + j - 1 \in 1 .. size
    BY <1>3, <1>5
  <2> QED BY <2>1, <1>2
<1> QED BY <1>1, <1>4, <1>6, <1>7

(* What the phone does to p makes q: messages are added, and only the last  *)
(* is written further.                                                      *)
Grows(p, q) ==
    /\ Len(p.msgs) <= Len(q.msgs)
    /\ \A id \in 1 .. Len(p.msgs) : q.msgs[id] = p.msgs[id]
    /\ \A id \in 1 .. Len(p.msgs) - 1 : q.sent[id] = p.sent[id]

LEMMA CarriesGrown ==
  ASSUME NEW p \in Phones, NEW q \in Phones, Grows(p, q),
         NEW a \in Chars \X Seq(Byte), Carries(p, a)
  PROVE  Carries(q, a)
<1>1. /\ Of(a) \in 1 .. Len(p.msgs) /\ Of(a) \in 1 .. Len(q.msgs)
      /\ q.msgs[Of(a)] = p.msgs[Of(a)]
  BY DEF Carries, Grows, Phones
<1>2. \A i \in Nat : ByteOf(q, Of(a), i) = ByteOf(p, Of(a), i)
  BY <1>1 DEF ByteOf
<1>3. ASSUME NEW j \in 1 .. Len(a[2])
      PROVE  a[2][j] = ByteOf(q, Of(a), From(a) + j - 1)
  BY <1>2 DEF Carries
<1> QED BY <1>1, <1>3 DEF Carries

LEMMA FollowsGrown ==
  ASSUME NEW p \in Phones, NEW q \in Phones, Grows(p, q),
         NEW a \in Chars \X Seq(Byte), Carries(p, a),
         NEW id \in Nat, NEW n \in Nat, Follows(p, <<id, n>>, a)
  PROVE  Follows(q, <<id, n>>, a)
<1>1. /\ Of(a) \in 1 .. Len(p.msgs) /\ q.msgs[Of(a)] = p.msgs[Of(a)]
  BY DEF Carries, Grows, Phones
<1>2. CASE Begins(p, <<id, n>>, a)
  BY <1>1, <1>2 DEF Begins, Follows, Grows, Phones
<1>3. CASE GoesOn(p, <<id, n>>, a)
  BY <1>1, <1>3 DEF GoesOn, Follows
<1> QED BY <1>2, <1>3 DEF Follows

LEMMA HoldsGrown ==
  ASSUME NEW p \in Phones, NEW q \in Phones, Grows(p, q),
         NEW r \in Receivers, Holds(p, r)
  PROVE  Holds(q, r)
<1>1. /\ At(r) \in 1 .. Len(p.msgs) /\ At(r) \in 1 .. Len(q.msgs)
      /\ q.msgs[At(r)] = p.msgs[At(r)]
  BY DEF Holds, Grows, Phones
<1>2. \A i \in Nat : ByteOf(q, At(r), i) = ByteOf(p, At(r), i)
  BY <1>1 DEF ByteOf
<1>3. ASSUME NEW i \in 1 .. r.offset
      PROVE  r.buffer[i] = ByteOf(q, At(r), i)
  BY <1>2 DEF Holds, Receivers
<1> QED BY <1>1, <1>3 DEF Holds

LEMMA HeardGrown ==
  ASSUME NEW p \in Phones, NEW q \in Phones, Grows(p, q),
         NEW r \in Receivers, At(r) \in 0 .. Len(p.msgs),
         NEW h \in Seq(Seq(Byte)), HeardSoFar(p, r, h),
         \A i \in 1 .. Len(h) : h[i][1][1] \in 1 .. Len(p.msgs)
  PROVE  HeardSoFar(q, r, h)
<1>1. ASSUME NEW id \in 1 .. At(r)
      PROVE  Complete(q, r, id) <=> Complete(p, r, id)
  <2>1. id \in 1 .. Len(p.msgs) /\ q.msgs[id] = p.msgs[id]
    BY DEF Grows, Phones
  <2>2. id # At(r) => q.sent[id] = p.sent[id]
    BY DEF Grows, Phones
  <2> QED BY <2>1, <2>2 DEF Complete
<1>2. \A i \in 1 .. Len(h) : h[i][1][1] \in 1 .. At(r)
  BY DEF HeardSoFar
<1> QED BY <1>1, <1>2 DEF HeardSoFar

(* A whole message in the buffer. *)
Spells(buffer, id, m) ==
    \A i \in 1 .. Size(m) : buffer[i] = <<id, i, IF i = 2 THEN m.len ELSE 0>>

Read(h, buffer, m) == h = [i \in 1 .. Size(m) |-> buffer[i]]

LEMMA Whole ==
  ASSUME NEW buffer \in Buffers, NEW id \in Nat, NEW m \in Message,
         Size(m) <= MaxMessage, Spells(buffer, id, m), NEW h, Read(h, buffer, m)
  PROVE  h \in Seq(Byte) /\ h = Bytes(id, m) /\ h[1][1] = id /\ Declared(h) = Size(m)
<1>1. PICK size \in 2 .. MaxMessage, len \in Nat :
         size = Size(m) /\ len = m.len /\ size = 2 + len
  BY Sizes, LinkAssumption DEF Header
<1>2. \A i \in 1 .. size : buffer[i] \in Byte
  BY <1>1, LinkAssumption DEF Buffers
<1>3. PICK g : g = [i \in 1 .. size |-> buffer[i]]
  OBVIOUS
<1>4. /\ g \in Seq(Byte) /\ Len(g) = size
      /\ \A i \in 1 .. size : g[i] = buffer[i]
  BY <1>1, <1>2, <1>3
<1>5. \A i \in 1 .. size : g[i] = <<id, i, IF i = 2 THEN len ELSE 0>>
  BY <1>1, <1>4 DEF Spells
<1>6. g = [i \in 1 .. size |-> g[i]]
  BY <1>4
<1>7. g = [i \in 1 .. size |-> <<id, i, IF i = 2 THEN len ELSE 0>>]
  BY <1>5, <1>6
<1>8. g = Bytes(id, m)
  BY <1>1, <1>7 DEF Bytes
<1>9. 1 \in 1 .. size /\ 2 \in 1 .. size
  BY <1>1
<1>10. g[1] = <<id, 1, 0>> /\ g[2] = <<id, 2, len>>
  <2>1. /\ g[1] = <<id, 1, IF 1 = 2 THEN len ELSE 0>>
        /\ g[2] = <<id, 2, IF 2 = 2 THEN len ELSE 0>>
    BY <1>5, <1>9
  <2> QED BY <2>1
<1>11. g[1][1] = id /\ Declared(g) = size
  <2>1. g[1][1] = id /\ g[2][3] = len
    BY <1>10
  <2> QED BY <1>1, <2>1 DEF Declared, Header
<1>12. h = g
  BY <1>1, <1>3 DEF Read
<1> QED BY <1>1, <1>4, <1>8, <1>11, <1>12

(* What the phone was told does not matter to what it says. *)
LEMMA SameSaid ==
  ASSUME NEW p, NEW q, q.msgs = p.msgs, q.sent = p.sent
  PROVE  /\ \A a : Carries(q, a) <=> Carries(p, a)
         /\ \A mark, a : Follows(q, mark, a) <=> Follows(p, mark, a)
         /\ Reached(q) = Reached(p)
         /\ \A r : Holds(q, r) <=> Holds(p, r)
         /\ \A r, h : HeardSoFar(q, r, h) <=> HeardSoFar(p, r, h)
<1>1. \A id, i : ByteOf(q, id, i) = ByteOf(p, id, i)
  BY DEF ByteOf
<1>2. \A r, id : Complete(q, r, id) <=> Complete(p, r, id)
  BY DEF Complete
<1>3. \A a : Carries(q, a) <=> Carries(p, a)
  BY <1>1 DEF Carries
<1>4. \A mark, a : Follows(q, mark, a) <=> Follows(p, mark, a)
  BY DEF Follows, Begins, GoesOn
<1>5. \A r : Holds(q, r) <=> Holds(p, r)
  BY <1>1 DEF Holds
<1>6. \A r, h : HeardSoFar(q, r, h) <=> HeardSoFar(p, r, h)
  BY <1>2 DEF HeardSoFar
<1> QED BY <1>3, <1>4, <1>5, <1>6 DEF Reached

(* The answers due are added to; the one added may be given. *)
LEMMA AnswersDue ==
  ASSUME NEW told \in Seq(Reply), NEW S, NEW due \in Seq(S), NEW more \in S,
         AnswersOf(told, due)
  PROVE  AnswersOf(told, Append(due, more))
<1>1. DOMAIN told = 1 .. Len(told) /\ DOMAIN due = 1 .. Len(due)
  OBVIOUS
<1>2. PICK f \in [DOMAIN told -> DOMAIN due] :
         /\ \A i, j \in DOMAIN told : i < j => f[i] < f[j]
         /\ \A i \in DOMAIN told : due[f[i]] = <<told[i]>>
  BY Zenon DEF AnswersOf
<1>3. /\ f \in [1 .. Len(told) -> 1 .. Len(due)]
      /\ \A i, j \in 1 .. Len(told) : i < j => f[i] < f[j]
      /\ \A i \in 1 .. Len(told) : due[f[i]] = <<told[i]>>
  BY <1>1, <1>2
<1>4. /\ DOMAIN Append(due, more) = 1 .. Len(due) + 1
      /\ \A i \in 1 .. Len(due) : Append(due, more)[i] = due[i]
      /\ DOMAIN told = 1 .. Len(told)
  OBVIOUS
<1>5. f \in [DOMAIN told -> DOMAIN Append(due, more)]
  BY <1>3, <1>4
<1>6. \A i \in DOMAIN told : Append(due, more)[f[i]] = <<told[i]>>
  BY <1>3, <1>4
<1>7. \A i, j \in DOMAIN told : i < j => f[i] < f[j]
  BY <1>2
<1> QED BY <1>5, <1>6, <1>7, Zenon DEF AnswersOf

LEMMA AnswerTold ==
  ASSUME NEW told \in Seq(Reply), NEW S, NEW due \in Seq(S), NEW reply \in Reply,
         <<reply>> \in S, AnswersOf(told, due)
  PROVE  AnswersOf(Append(told, reply), Append(due, <<reply>>))
<1>1. DOMAIN told = 1 .. Len(told) /\ DOMAIN due = 1 .. Len(due)
  OBVIOUS
<1>2. PICK f \in [DOMAIN told -> DOMAIN due] :
         /\ \A i, j \in DOMAIN told : i < j => f[i] < f[j]
         /\ \A i \in DOMAIN told : due[f[i]] = <<told[i]>>
  BY Zenon DEF AnswersOf
<1>3. /\ f \in [1 .. Len(told) -> 1 .. Len(due)]
      /\ \A i, j \in 1 .. Len(told) : i < j => f[i] < f[j]
      /\ \A i \in 1 .. Len(told) : due[f[i]] = <<told[i]>>
  BY <1>1, <1>2
<1> DEFINE now == Append(told, reply)
           then == Append(due, <<reply>>)
           g == [i \in 1 .. Len(told) + 1 |->
                   IF i = Len(told) + 1 THEN Len(due) + 1 ELSE f[i]]
<1>4. /\ DOMAIN then = 1 .. Len(due) + 1 /\ then[Len(due) + 1] = <<reply>>
      /\ \A i \in 1 .. Len(due) : then[i] = due[i]
  OBVIOUS
<1>5. /\ DOMAIN now = 1 .. Len(told) + 1 /\ now[Len(told) + 1] = reply
      /\ \A i \in 1 .. Len(told) : now[i] = told[i]
  OBVIOUS
<1> HIDE DEF now, then
<1>6. g \in [DOMAIN now -> DOMAIN then]
  BY <1>3, <1>4, <1>5
<1>7. \A i, j \in DOMAIN now : i < j => g[i] < g[j]
  BY <1>3, <1>5
<1>8. \A i \in DOMAIN now : then[g[i]] = <<now[i]>>
  BY <1>3, <1>4, <1>5
<1>9. AnswersOf(now, then)
  BY <1>6, <1>7, <1>8, Zenon DEF AnswersOf
<1> QED BY <1>9 DEF now, then

(* What a message is answered, if it is answered at all. *)
LEMMA AnswerIs ==
  ASSUME NEW kind, NEW len \in Nat
  PROVE  \/ Answer(kind, len) = <<>>
         \/ \E reply \in Reply : Answer(kind, len) = <<reply>>
<1>1. \A type \in {"user", "id", "statue"}, n \in Nat : Packet(type, n) \in Reply
  BY LinkAssumption DEF Packet, Reply, Header
<1>2. CASE kind = "user" /\ app
  BY <1>1, <1>2 DEF Answer
<1>3. CASE ~(kind = "user" /\ app) /\ kind = "id" /\ len = 1
  BY <1>1, <1>3 DEF Answer
<1>4. CASE ~(kind = "user" /\ app) /\ ~(kind = "id" /\ len = 1) /\ kind = "statue"
  BY <1>1, <1>4 DEF Answer
<1>5. CASE ~(kind = "user" /\ app) /\ ~(kind = "id" /\ len = 1) /\ kind # "statue"
  BY <1>5 DEF Answer
<1> QED BY <1>2, <1>3, <1>4, <1>5

(***************************************************************************)
(* The device handles a write.                                             *)
(***************************************************************************)

(* A sequence has a length, whatever it is of. *)
LEMMA LengthIsNat ==
  ASSUME NEW S, NEW s \in Seq(S)
  PROVE  Len(s) \in Nat
OBVIOUS

(* What the parts of the state are made of. *)
LEMMA Fields ==
  ASSUME Inv
  PROVE  /\ rx \in Receivers /\ rx.buffer \in Buffers /\ rx.offset \in 0 .. MaxMessage
         /\ rx.offset \in Nat /\ At(rx) \in Nat
         /\ air \in Seq(Chars \X Seq(Byte)) /\ out \in Seq(Reply)
         /\ phone \in Phones /\ phone.msgs \in Seq(Message) /\ phone.sent \in Seq(Nat)
         /\ phone.got \in Seq(Reply) /\ heard \in Seq(Seq(Byte))
<1>1. /\ rx \in Receivers /\ phone \in Phones
      /\ air \in Seq(Chars \X Seq(Byte)) /\ out \in Seq(Reply)
      /\ heard \in Seq(Seq(Byte))
  BY DEF Inv, Shape
<1>2. rx.buffer \in Buffers /\ rx.offset \in 0 .. MaxMessage /\ rx.offset \in Nat
  BY <1>1, LinkAssumption DEF Receivers
<1>3. 1 \in 1 .. MaxMessage
  BY LinkAssumption DEF Header
<1>4. rx.buffer[1] \in Byte
  BY <1>2, <1>3 DEF Buffers
<1>5. At(rx) \in Nat
  BY <1>2, <1>4 DEF At, Byte
<1> QED BY <1>1, <1>2, <1>5 DEF Phones

(* The write the device comes to. *)
LEMMA Coming ==
  ASSUME Inv, air # <<>>
  PROVE  /\ handle /\ air[1] \in Chars \X Seq(Byte) /\ Head(air) = air[1]
         /\ Carries(phone, air[1]) /\ Follows(phone, Stands(rx), air[1])
         /\ Of(air[1]) \in 1 .. Len(phone.msgs)
         /\ phone.msgs[Of(air[1])] \in Message
         /\ Upto(air[1]) \in Header .. Size(phone.msgs[Of(air[1])])
         /\ Len(air[1][2]) <= Chunk
<1>1. handle /\ air[1] \in Chars \X Seq(Byte) /\ Head(air) = air[1] /\ 1 \in 1 .. Len(air)
  BY DEF Inv, Shape, Quiet
<1>2. Carries(phone, air[1]) /\ Follows(phone, Stands(rx), air[1])
  BY <1>1 DEF Inv, Chain
<1>3. /\ Of(air[1]) \in 1 .. Len(phone.msgs)
      /\ Upto(air[1]) \in Header .. Size(phone.msgs[Of(air[1])])
  BY <1>2 DEF Carries
<1>4. phone.msgs[Of(air[1])] \in Message
  BY <1>3 DEF Inv, Shape, Phones
<1>5. Len(air[1][2]) <= Chunk
  BY <1>2 DEF Carries
<1> QED BY <1>1, <1>2, <1>3, <1>4, <1>5

(* The mark of the device has moved over the first write on the way. *)
Stored(r) ==
    /\ r \in Receivers /\ r.offset = Upto(air[1])
    /\ Size(phone.msgs[Of(air[1])]) <= MaxMessage
    /\ \A i \in 1 .. r.offset : r.buffer[i] = ByteOf(phone, Of(air[1]), i)

LEMMA StoredHolds ==
  ASSUME Inv, air # <<>>, NEW r, Stored(r)
  PROVE  /\ At(r) = Of(air[1]) /\ Stands(r) = Leads(air[1]) /\ r.offset # 0
         /\ Holds(phone, r) /\ Declared(r.buffer) <= MaxMessage
         /\ Declared(r.buffer) = Size(phone.msgs[Of(air[1])])
<1>1. r.offset \in Header .. Size(phone.msgs[Of(air[1])]) /\ r.offset # 0
  BY Coming DEF Stored, Header
<1>2. 1 \in 1 .. r.offset /\ 2 \in 1 .. r.offset
  BY <1>1, Coming, Sizes DEF Header
<1>3. r.buffer[1] = ByteOf(phone, Of(air[1]), 1) /\ r.buffer[2] = ByteOf(phone, Of(air[1]), 2)
  BY <1>2 DEF Stored
<1>4. At(r) = Of(air[1])
  BY <1>1, <1>3 DEF At, ByteOf
<1>5. Holds(phone, r)
  BY <1>1, <1>4, Coming DEF Holds, Stored
<1>6. Declared(r.buffer) = Size(phone.msgs[Of(air[1])])
  BY <1>3 DEF Declared, ByteOf, Size
<1>7. Declared(r.buffer) <= MaxMessage
  BY <1>6 DEF Stored
<1>8. Stands(r) = Leads(air[1])
  BY <1>4 DEF Stands, Leads, Stored
<1> QED BY <1>1, <1>4, <1>5, <1>6, <1>7, <1>8

LEMMA Moves ==
  ASSUME Inv, air # <<>>, Stored(rx'), air' = Tail(air),
         UNCHANGED <<handle, phone>>, sd'.up = sd.up
  PROVE  Chain' /\ Arriving' /\ Buffered'
<1>1. /\ Stands(rx') = Leads(air[1]) /\ Holds(phone', rx')
  BY StoredHolds
<1>2. PICK a \in Seq(Chars \X Seq(Byte)), t \in Seq(Chars \X Seq(Byte)) :
         a = air /\ t = air' /\ t = Tail(a) /\ a # <<>>
  <2>1. Tail(air) \in Seq(Chars \X Seq(Byte))
    BY Fields
  <2> QED BY Fields, <2>1
<1>3. /\ Len(air') = Len(air) - 1 /\ Len(air) \in Nat /\ Len(air) > 0
      /\ \A i \in 1 .. Len(air') : air'[i] = air[i + 1] /\ i + 1 \in 1 .. Len(air)
      /\ (air' = <<>>) <=> (Len(air) = 1)
  <2>1. Len(t) = Len(a) - 1 /\ Len(a) \in Nat /\ Len(a) > 0
    BY <1>2
  <2>2. \A i \in 1 .. Len(t) : t[i] = a[i + 1] /\ i + 1 \in 1 .. Len(a)
    BY <1>2
  <2>3. (t = <<>>) <=> (Len(a) = 1)
    <3>1. (t = <<>>) <=> (Len(t) = 0)
      OBVIOUS
    <3> QED BY <2>1, <3>1
  <2> QED BY <1>2, <2>1, <2>2, <2>3, Zenon
<1>4. \A i \in 1 .. Len(air') : Carries(phone', air'[i])
  BY <1>3 DEF Inv, Chain
<1>5. ASSUME air' # <<>> PROVE Follows(phone', Stands(rx'), air'[1])
  <2>1. 1 \in 1 .. Len(air) - 1 /\ 1 \in 1 .. Len(air')
    BY <1>3, <1>5
  <2>2. Follows(phone, Leads(air[1]), air[1 + 1])
    BY <2>1 DEF Inv, Chain
  <2> QED BY <1>1, <1>3, <2>1, <2>2
<1>6. ASSUME NEW i \in 1 .. Len(air') - 1
      PROVE  Follows(phone', Leads(air'[i]), air'[i + 1])
  <2>1. /\ i + 1 \in 1 .. Len(air) - 1
        /\ air'[i] = air[i + 1] /\ air'[i + 1] = air[i + 1 + 1]
    BY <1>3
  <2>2. Follows(phone, Leads(air[i + 1]), air[i + 1 + 1])
    BY <2>1 DEF Inv, Chain
  <2> QED BY <2>1, <2>2
<1>7. Chain'
  BY <1>4, <1>5, <1>6 DEF Chain
<1>8. Arriving'
  <2> SUFFICES ASSUME sd'.up, handle'
               PROVE  (IF air' = <<>> THEN Stands(rx') ELSE Leads(air'[Len(air')]))
                        = Reached(phone')
    BY DEF Arriving
  <2>1. Leads(air[Len(air)]) = Reached(phone)
    BY DEF Inv, Arriving
  <2>2. CASE air' = <<>>
    BY <1>1, <1>3, <2>1, <2>2
  <2>3. CASE air' # <<>>
    <3>1. Len(air') \in 1 .. Len(air') /\ air'[Len(air')] = air[Len(air)]
      BY <1>3, <2>3
    <3> QED BY <2>1, <2>3, <3>1
  <2> QED BY <2>2, <2>3
<1>9. Buffered'
  BY <1>1 DEF Buffered
<1> QED BY <1>7, <1>8, <1>9

(* What that does to the messages behind the mark. *)
LEMMA Progress ==
  ASSUME Inv, air # <<>>, NEW r, Stored(r)
  PROVE  /\ At(rx) \in Nat /\ At(rx) <= Of(air[1]) /\ Of(air[1]) <= At(rx) + 1
         /\ \A id \in 1 .. Of(air[1]) - 1 :
               Complete(phone, r, id) <=> Complete(phone, rx, id)
         /\ (Of(air[1]) = At(rx) /\ Complete(phone, rx, At(rx))) =>
               Upto(air[1]) = Size(phone.msgs[Of(air[1])]) /\ air[1][1] = "bulkout"
<1>1. At(r) = Of(air[1]) /\ r.offset = Upto(air[1])
  BY StoredHolds DEF Stored
<1>2. Of(air[1]) \in Nat /\ Upto(air[1]) \in Nat /\ From(air[1]) \in Nat /\ Len(air[1][2]) > 0
      /\ Upto(air[1]) = From(air[1]) + Len(air[1][2]) - 1 /\ Len(air[1][2]) \in Nat
      /\ Upto(air[1]) <= Size(phone.msgs[Of(air[1])])
      /\ Size(phone.msgs[Of(air[1])]) \in Nat
  BY Coming, Sizes DEF Carries, Upto, Header
<1>3. At(rx) \in Nat /\ rx.offset \in Nat
  BY Fields
<1>4. Stands(rx)[1] = At(rx) /\ Stands(rx)[2] = rx.offset
  BY DEF Stands
<1>5. CASE Begins(phone, Stands(rx), air[1])
  <2>1. Of(air[1]) = At(rx) + 1 /\ (At(rx) > 0 => phone.sent[At(rx)] = rx.offset)
    BY <1>4, <1>5 DEF Begins
  <2>2. ASSUME NEW id \in 1 .. Of(air[1]) - 1
        PROVE  Complete(phone, r, id) <=> Complete(phone, rx, id)
    BY <1>1, <1>2, <1>3, <2>1 DEF Complete
  <2> QED BY <1>3, <2>1, <2>2
<1>6. CASE GoesOn(phone, Stands(rx), air[1])
  <2>1. Of(air[1]) = At(rx) /\ air[1][1] = "bulkout"
    BY <1>4, <1>6 DEF GoesOn
  <2>2. \/ From(air[1]) = rx.offset + 1
        \/ Upto(air[1]) = rx.offset /\ rx.offset = Size(phone.msgs[At(rx)])
    BY <1>4, <1>6 DEF GoesOn
  <2>3. ASSUME NEW id \in 1 .. Of(air[1]) - 1
        PROVE  Complete(phone, r, id) <=> Complete(phone, rx, id)
    BY <1>1, <1>2, <1>3, <2>1 DEF Complete
  <2>4. ASSUME Complete(phone, rx, At(rx))
        PROVE  Upto(air[1]) = Size(phone.msgs[Of(air[1])])
    <3>1. rx.offset = Size(phone.msgs[At(rx)])
      BY <2>4 DEF Complete
    <3> QED BY <1>2, <1>3, <2>1, <2>2, <3>1
  <2> QED BY <1>2, <1>3, <2>1, <2>3, <2>4
<1> QED BY <1>5, <1>6, Coming DEF Follows

LEMMA AirShorter ==
  ASSUME Inv, air # <<>>
  PROVE  Tail(air) \in Seq(Chars \X Seq(Byte)) /\ Len(Tail(air)) <= MaxAir
<1>1. PICK a \in Seq(Chars \X Seq(Byte)) : a = air /\ a # <<>>
  BY Fields
<1>2. /\ Tail(a) \in Seq(Chars \X Seq(Byte)) /\ Len(Tail(a)) \in Nat
      /\ Len(Tail(a)) <= Len(a) /\ Len(a) \in Nat
  BY <1>1
<1> QED BY <1>1, <1>2, LinkAssumption DEF Inv, Shape

(* What is due to a message that was heard. *)
LEMMA DueIs ==
  ASSUME Inv, NEW i \in 1 .. Len(heard)
  PROVE  Due(heard[i]) \in {<<>>} \cup {<<reply>> : reply \in Reply}
<1>1. PICK id \in 1 .. Len(phone.msgs) :
         id = heard[i][1][1] /\ heard[i] = Bytes(id, phone.msgs[id])
  BY DEF Inv, HeardWhole
<1>2. PICK m \in Message : m = phone.msgs[id]
  <2>1. phone.msgs[id] \in Message
    BY Fields
  <2> QED BY <2>1
<1>3. m.len \in Nat /\ m.kind \in Kinds /\ Size(m) \in Nat /\ Size(m) >= 2
  BY Sizes DEF Message
<1>4. 2 \in 1 .. Size(m)
  BY <1>3
<1>5. Bytes(id, m)[2] = <<id, 2, m.len>>
  BY <1>4 DEF Bytes
<1>6. Declared(heard[i]) - Header = m.len
  <2>1. heard[i] = Bytes(id, m)
    BY <1>1, <1>2
  <2>2. heard[i][2][3] = m.len
    BY <1>5, <2>1
  <2> QED BY <1>3, <2>2 DEF Declared, Header
<1>7. Due(heard[i]) = Answer(m.kind, m.len)
  BY <1>1, <1>2, <1>6 DEF Due
<1> QED BY <1>3, <1>7, AnswerIs DEF Inv

(* A step that hears nothing and says nothing. *)
LEMMA SameTalk ==
  ASSUME HeardWhole, RepliesTrue, UNCHANGED <<app, phone, heard, out>>, sd'.up = sd.up
  PROVE  HeardWhole' /\ RepliesTrue'
<1>1. HeardWhole'
  BY DEF HeardWhole
<1>2. RepliesTrue'
  BY DEF RepliesTrue, Due, Answer, Declared
<1> QED BY <1>1, <1>2

(* A write is put into the buffer, or left out because it is there. *)
LEMMA KeptInv ==
  ASSUME Inv, air # <<>>, NEW r, Stored(r), Kept(r),
         r # rx => Upto(air[1]) # Size(phone.msgs[Of(air[1])])
  PROVE  Inv'
<1> USE DEF Kept
<1>1. Head(air) = air[1] /\ handle
  BY Coming
<1>2. Stored(rx')
  OBVIOUS
<1>3. Chain' /\ Arriving' /\ Buffered'
  BY <1>2, Moves
<1>4. Shape'
  <2>1. air' \in Seq(Chars \X Seq(Byte)) /\ Len(air') <= MaxAir
    BY AirShorter
  <2>2. rx' \in Receivers /\ Declared(rx'.buffer) <= MaxMessage
    BY StoredHolds DEF Stored
  <2> QED BY <2>1, <2>2 DEF Inv, Shape
<1>5. HeardSoFar(phone, r, heard)
  <2>1. HeardSoFar(phone, rx, heard)
    BY <1>1 DEF Inv, Heard
  <2>2. CASE r # rx
    <3>1. At(r) = Of(air[1]) /\ ~Complete(phone, r, Of(air[1]))
      BY <2>2, StoredHolds DEF Complete, Stored
    <3>2. Of(air[1]) = At(rx) => ~Complete(phone, rx, At(rx))
      BY <2>2, Progress
    <3>3. ASSUME NEW i \in 1 .. Len(heard)
          PROVE  heard[i][1][1] <= At(r) /\ Complete(phone, r, heard[i][1][1])
      <4>1. /\ heard[i][1][1] <= At(rx) /\ Complete(phone, rx, heard[i][1][1])
            /\ heard[i][1][1] \in 1 .. Len(phone.msgs)
        BY <2>1 DEF HeardSoFar, Inv, HeardWhole
      <4>2. heard[i][1][1] # Of(air[1]) /\ heard[i][1][1] <= Of(air[1])
        BY <4>1, <3>2, Progress, Coming
      <4>3. heard[i][1][1] \in 1 .. Of(air[1]) - 1
        BY <4>1, <4>2, Coming
      <4> QED BY <3>1, <4>1, <4>3, Progress, Coming
    <3>4. ASSUME NEW id \in 1 .. At(r), Complete(phone, r, id)
          PROVE  \E i \in 1 .. Len(heard) : heard[i][1][1] = id
      <4>1. id \in 1 .. Of(air[1]) - 1 /\ id \in 1 .. At(rx)
        BY <3>1, <3>4, Coming, Progress
      <4> QED BY <2>1, <3>4, <4>1, Progress DEF HeardSoFar
    <3> QED BY <3>3, <3>4 DEF HeardSoFar
  <2> QED BY <2>1, <2>2
<1>6. Heard'
  BY <1>5 DEF Heard
<1>7. HeardWhole' /\ RepliesTrue'
  BY SameTalk DEF Inv
<1>8. Quiet' /\ Written' /\ Reachable'
  BY <1>1 DEF Inv, Quiet, Written, Reachable
<1> QED BY <1>3, <1>4, <1>6, <1>7, <1>8 DEF Inv

(* Start-up, from a reset or at first. *)
LEMMA EmptyIs ==
  /\ Empty \in Receivers /\ Declared(Empty.buffer) <= MaxMessage
  /\ Stands(Empty) = <<0, 0>> /\ Empty.offset = 0 /\ At(Empty) = 0
<1>1. PICK e : e = [i \in 1 .. MaxMessage |-> Zero]
  OBVIOUS
<1>2. Zero \in Byte
  BY DEF Zero, Byte
<1>3. e \in Buffers
  BY <1>1, <1>2 DEF Buffers
<1>4. e[2] = Zero
  BY <1>1, LinkAssumption DEF Header
<1>5. Declared(e) <= MaxMessage
  BY <1>4, LinkAssumption DEF Declared, Zero, Header
<1>6. 0 \in 0 .. MaxMessage
  BY LinkAssumption
<1> QED BY <1>1, <1>3, <1>5, <1>6 DEF Empty, Receivers, Stands, At

LEMMA SilentIs ==
  /\ Silent \in Phones /\ Silent.msgs = <<>> /\ Silent.sent = <<>> /\ Silent.got = <<>>
BY DEF Silent, Phones

(* Nothing has been said. *)
LEMMA NothingSaid ==
  ASSUME phone = Silent, heard = <<>>, out = <<>>
  PROVE  HeardWhole /\ RepliesTrue
<1>1. Len(heard) = 0 /\ phone.got \o out = <<>>
  BY SilentIs
<1>2. HeardWhole
  BY <1>1 DEF HeardWhole
<1>3. AnswersOf(<<>>, [i \in 1 .. Len(heard) |-> Due(heard[i])])
  <2> DEFINE due == [i \in 1 .. Len(heard) |-> Due(heard[i])]
  <2>1. DOMAIN due = {} /\ DOMAIN <<>> = {}
    BY <1>1
  <2>2. [i \in {} |-> 0] \in [{} -> {}]
    OBVIOUS
  <2> HIDE DEF due
  <2>3. AnswersOf(<<>>, due)
    BY <2>1, <2>2, Zenon DEF AnswersOf
  <2> QED BY <2>3 DEF due
<1> QED BY <1>1, <1>2, <1>3 DEF RepliesTrue

Untold == phone = Silent /\ heard = <<>> /\ out = <<>>

LEMMA NothingSaidNext == Untold' => HeardWhole' /\ RepliesTrue'
<1>1. Untold => HeardWhole /\ RepliesTrue
  BY NothingSaid DEF Untold
<1> QED BY <1>1, PTL

(* A device that has just been started. *)
Fresh ==
    /\ app \in BOOLEAN
    /\ sd = [up |-> FALSE, closing |-> FALSE, adv |-> TRUE]
    /\ handle = FALSE /\ rx = Empty /\ air = <<>> /\ out = <<>>
    /\ phone = Silent /\ heard = <<>>
    /\ \E n \in Names : \E spilled :
          ad = Shown(OwnAd, n, Encoded(OwnAd, n).data, spilled)

LEMMA FreshInv == Fresh => Inv
<1> SUFFICES ASSUME Fresh PROVE Inv
  OBVIOUS
<1> USE DEF Fresh
<1>1. HeardWhole /\ RepliesTrue
  BY NothingSaid
<1>2. Len(air) = 0 /\ Len(out) = 0 /\ Len(phone.msgs) = 0 /\ Len(phone.sent) = 0
  BY SilentIs
<1>3. Shape
  <2>1. PICK n \in Names : \E spilled : ad = Shown(OwnAd, n, Encoded(OwnAd, n).data, spilled)
    OBVIOUS
  <2>2. /\ ad.name \in Names
        /\ ad = [name |-> ad.name, of |-> ad.of, made |-> ad.made,
                 data |-> ad.data, spilled |-> ad.spilled]
    BY <2>1 DEF Shown
  <2>3. /\ air \in Seq(Chars \X Seq(Byte)) /\ out \in Seq(Reply)
        /\ heard \in Seq(Seq(Byte)) /\ Len(air) <= MaxAir /\ Len(out) <= TxBuffers
    BY <1>2, LinkAssumption
  <2> QED BY <2>2, <2>3, EmptyIs, SilentIs DEF Shape
<1>4. Quiet /\ Written
  BY <1>2 DEF Quiet, Written
<1>5. Chain
  BY <1>2 DEF Chain
<1>6. Arriving /\ Buffered /\ Heard /\ Reachable
  BY DEF Arriving, Buffered, Heard, Reachable
<1> QED BY <1>1, <1>3, <1>4, <1>5, <1>6 DEF Inv

LEMMA InitInv == LinkInit => Inv
<1>1. LinkInit => Fresh
  BY DEF LinkInit, Fresh
<1> QED BY <1>1, FreshInv

LEMMA FreshInvNext == Fresh' => Inv'
<1>1. Fresh => Inv
  BY FreshInv
<1> QED BY <1>1, PTL

LEMMA StartedInv ==
  ASSUME app \in BOOLEAN, NEW n \in Names, NEW spilled, Started(n, spilled), UNCHANGED app
  PROVE  Inv'
<1>1. Fresh'
  BY DEF Started, Fresh
<1> QED BY <1>1, FreshInvNext

LEMMA ResetInv ==
  ASSUME app \in BOOLEAN, Reset
  PROVE  Inv'
BY StartedInv DEF Reset

(* A message is complete, and given to the handler. *)
LEMMA DeliverInv ==
  ASSUME Inv, air # <<>>, NEW buffer \in Buffers,
         Stored([buffer |-> buffer, offset |-> Upto(air[1]), long |-> FALSE]),
         Upto(air[1]) = Size(phone.msgs[Of(air[1])]),
         \A i \in 1 .. Len(heard) : heard[i][1][1] < Of(air[1]),
         Deliver(buffer)
  PROVE  Inv'
<1>1. PICK id \in Nat : id = Of(air[1])
  BY Coming
<1>2. PICK m \in Message : m = phone.msgs[id]
  BY <1>1, Coming
<1>3. /\ id \in 1 .. Len(phone.msgs) /\ Upto(air[1]) = Size(m) /\ Head(air) = air[1] /\ handle
      /\ m.len \in Nat /\ m.kind \in Kinds /\ Size(m) <= MaxMessage
      /\ Size(m) = 2 + m.len /\ Size(m) \in Nat
  BY <1>1, <1>2, Coming, Sizes DEF Message, Stored
<1> DEFINE r == [buffer |-> buffer, offset |-> Upto(air[1]), long |-> FALSE]
<1>4. /\ Declared(buffer) = Size(m) /\ buffer[1][1] = id
      /\ r.buffer = buffer /\ r.offset = Size(m)
  <2>1. /\ r.buffer = buffer /\ r.offset = Upto(air[1])
        /\ Declared(r.buffer) = Size(m) /\ At(r) = id /\ r.offset # 0
    BY <1>1, <1>2, StoredHolds
  <2> QED BY <2>1, <1>3 DEF At
<1>5. \A i \in 1 .. Size(m) : buffer[i] = ByteOf(phone, id, i)
  BY <1>1, <1>3, <1>4 DEF Stored
<1> HIDE DEF r
<1>6. Declared(buffer) - Header = m.len /\ buffer[1][2] = 1
  <2>1. buffer[1] = ByteOf(phone, id, 1)
    BY <1>3, <1>5
  <2> QED BY <1>3, <1>4, <2>1 DEF Header, ByteOf
<1> DEFINE h == Handed(buffer)
           option == Option(m.kind, m.len)
           answer == Answer(m.kind, m.len)
<1>7. CASE Reset
  BY <1>7, ResetInv DEF Inv, Shape
<1>8. CASE ~(option = "reset" \/ (option = "drop" /\ DisconnectFails))
  <2> HIDE DEF option
  <2>1. /\ heard' = Append(heard, h)
        /\ out' = IF answer = <<>> THEN out ELSE EventSend(answer[1])
        /\ sd' = IF option = "drop" THEN Closing ELSE sd
        /\ rx' = [rx EXCEPT !.buffer = buffer, !.offset = Declared(buffer)]
        /\ air' = Tail(air)
        /\ UNCHANGED <<app, handle, phone, ad>>
    BY <1>2, <1>4, <1>6, <1>8 DEF Deliver, option
  <2> HIDE DEF answer
  <2>2. rx' = [buffer |-> buffer, offset |-> Upto(air[1]), long |-> FALSE] /\ rx' = r
    BY <2>1, <1>3, <1>4, Fields DEF Receivers, r
  <2>3. Stored(rx')
    BY <2>2
  <2>4. /\ sd'.up = sd.up /\ sd'.adv = sd.adv
        /\ sd' \in [up : BOOLEAN, closing : BOOLEAN, adv : BOOLEAN]
    BY <2>1 DEF Closing, Inv, Shape
  <2>5. Chain' /\ Arriving' /\ Buffered'
    BY <2>1, <2>3, <2>4, Moves
  <2>6. h \in Seq(Byte) /\ h = Bytes(id, m) /\ h[1][1] = id /\ Declared(h) = Size(m)
    <3>1. Spells(buffer, id, m)
      BY <1>2, <1>5 DEF ByteOf, Spells
    <3>2. Read(h, buffer, m)
      <4>1. PICK size \in Nat : size = Size(m) /\ size <= MaxMessage
        BY <1>3
      <4>2. [i \in 1 .. size |-> IF i <= MaxMessage THEN buffer[i] ELSE Zero]
              = [i \in 1 .. size |-> buffer[i]]
        BY <4>1, LinkAssumption
      <4> QED BY <1>4, <4>1, <4>2 DEF Read, Handed
    <3> HIDE DEF h
    <3>3. id \in Nat /\ m \in Message /\ buffer \in Buffers /\ Size(m) <= MaxMessage
      BY <1>3
    <3> QED BY <3>1, <3>2, <3>3, Whole
  <2> HIDE DEF h
  <2>7. /\ heard' \in Seq(Seq(Byte)) /\ Len(heard') = Len(heard) + 1 /\ Len(heard) \in Nat
        /\ heard'[Len(heard) + 1] = h
        /\ \A i \in 1 .. Len(heard) : heard'[i] = heard[i]
    <3>1. PICK s \in Seq(Seq(Byte)), g \in Seq(Byte) :
             s = heard /\ g = h /\ heard' = Append(s, g)
      BY <2>1, <2>6, Fields, Zenon
    <3>2. /\ Append(s, g) \in Seq(Seq(Byte)) /\ Len(Append(s, g)) = Len(s) + 1
          /\ Len(s) \in Nat /\ Append(s, g)[Len(s) + 1] = g
          /\ \A i \in 1 .. Len(s) : Append(s, g)[i] = s[i]
      OBVIOUS
    <3> QED BY <3>1, <3>2, Zenon
  <2>8. HeardWhole'
    <3>1. ASSUME NEW i \in 1 .. Len(heard')
          PROVE  /\ heard'[i][1][1] \in 1 .. Len(phone.msgs)
                 /\ heard'[i] = Bytes(heard'[i][1][1], phone.msgs[heard'[i][1][1]])
      <4>1. CASE i = Len(heard) + 1
        BY <4>1, <1>2, <1>3, <2>6, <2>7
      <4>2. CASE i \in 1 .. Len(heard)
        BY <4>2, <2>7 DEF Inv, HeardWhole
      <4> QED BY <2>7, <4>1, <4>2
    <3>2. ASSUME NEW i \in 1 .. Len(heard'), NEW j \in 1 .. Len(heard'), i < j
          PROVE  heard'[i][1][1] < heard'[j][1][1]
      <4>1. i \in 1 .. Len(heard)
        BY <2>7, <3>2
      <4>2. CASE j = Len(heard) + 1
        BY <4>1, <4>2, <1>1, <2>6, <2>7
      <4>3. CASE j \in 1 .. Len(heard)
        BY <3>2, <4>1, <4>3, <2>7 DEF Inv, HeardWhole
      <4> QED BY <2>7, <4>2, <4>3
    <3> QED BY <2>1, <3>1, <3>2 DEF HeardWhole
  <2>9. Heard'
    <3>1. HeardSoFar(phone, rx, heard)
      BY <1>3 DEF Inv, Heard
    <3>2. At(r) = id /\ Complete(phone, r, id)
      BY <1>1, <1>2, <1>3, <2>2, <2>3, <1>4, StoredHolds DEF Complete
    <3>3. /\ \A k \in 1 .. id - 1 : Complete(phone, r, k) <=> Complete(phone, rx, k)
          /\ id - 1 <= At(rx) /\ At(rx) \in Nat
      <4>1. /\ At(rx) \in Nat /\ At(rx) <= Of(air[1]) /\ Of(air[1]) <= At(rx) + 1
            /\ \A k \in 1 .. Of(air[1]) - 1 : Complete(phone, r, k) <=> Complete(phone, rx, k)
        BY <2>2, <2>3, Progress
      <4> QED BY <1>1, <4>1
    <3>4. ASSUME NEW i \in 1 .. Len(heard')
          PROVE  heard'[i][1][1] <= At(r) /\ Complete(phone, r, heard'[i][1][1])
      <4>1. CASE i = Len(heard) + 1
        BY <4>1, <2>6, <2>7, <3>2
      <4>2. CASE i \in 1 .. Len(heard)
        <5>1. heard[i][1][1] \in 1 .. id - 1 /\ Complete(phone, rx, heard[i][1][1])
          BY <4>2, <1>1, <3>1 DEF HeardSoFar, Inv, HeardWhole
        <5>2. heard'[i] = heard[i]
          BY <4>2, <2>7
        <5>3. heard[i][1][1] <= At(r)
          BY <5>1, <3>2
        <5>4. Complete(phone, r, heard[i][1][1])
          BY <5>1, <3>3
        <5> QED BY <5>2, <5>3, <5>4
      <4> QED BY <2>7, <4>1, <4>2
    <3>5. ASSUME NEW k \in 1 .. At(r), Complete(phone, r, k)
          PROVE  \E i \in 1 .. Len(heard') : heard'[i][1][1] = k
      <4>1. CASE k = id
        <5>1. heard'[Len(heard) + 1][1][1] = k
          BY <4>1, <2>6, <2>7
        <5>2. Len(heard) + 1 \in 1 .. Len(heard')
          BY <2>7
        <5> QED BY <5>1, <5>2, Zenon
      <4>2. CASE k # id
        <5>1. k \in 1 .. At(rx) /\ Complete(phone, rx, k)
          BY <3>2, <3>3, <3>5, <4>2
        <5>2. PICK i \in 1 .. Len(heard) : heard[i][1][1] = k
          BY <3>1, <5>1 DEF HeardSoFar
        <5> QED BY <5>2, <2>7
      <4> QED BY <4>1, <4>2
    <3>6. HeardSoFar(phone, r, heard')
      BY <3>4, <3>5 DEF HeardSoFar
    <3> QED BY <2>1, <2>2, <3>6 DEF Heard
  <2>10. /\ out' \in Seq(Reply) /\ Len(out') <= TxBuffers
         /\ ~sd.up => out' = out
    <3>1. answer = <<>> \/ \E reply \in Reply : answer = <<reply>>
      BY <1>3, AnswerIs DEF Inv, answer
    <3>2. CASE out' = out
      BY <3>2 DEF Inv, Shape
    <3>3. CASE out' # out
      <4>1. /\ out' = Append(out, answer[1]) /\ Len(out) < TxBuffers
            /\ answer # <<>> /\ sd.up
        BY <2>1, <3>3 DEF EventSend
      <4>2. answer[1] \in Reply
        BY <3>1, <4>1
      <4>3. PICK o \in Seq(Reply) : o = out
        BY Fields
      <4>4. Append(o, answer[1]) \in Seq(Reply) /\ Len(Append(o, answer[1])) = Len(o) + 1
            /\ Len(o) \in Nat
        BY <4>2
      <4> QED BY <4>1, <4>3, <4>4, LinkAssumption
    <3> QED BY <3>2, <3>3
  <2>11. Shape'
    <3>1. air' \in Seq(Chars \X Seq(Byte)) /\ Len(air') <= MaxAir
      BY <2>1, AirShorter
    <3>2. rx' \in Receivers /\ Declared(rx'.buffer) <= MaxMessage
      BY <2>3, StoredHolds DEF Stored
    <3> QED BY <2>1, <2>4, <2>7, <2>10, <3>1, <3>2 DEF Inv, Shape
  <2>12. Quiet' /\ Written' /\ Reachable'
    BY <1>3, <2>1, <2>4, <2>10 DEF Inv, Quiet, Written, Reachable
  <2>13. RepliesTrue'
    <3> SUFFICES ASSUME sd.up
                 PROVE  AnswersOf(phone.got \o out',
                                  [i \in 1 .. Len(heard') |-> Due(heard'[i])])
      BY <2>1, <2>4 DEF RepliesTrue, Due, Answer
    <3> DEFINE due == [i \in 1 .. Len(heard) |-> Due(heard[i])]
               S == {<<>>} \cup {<<reply>> : reply \in Reply}
    <3>1. Due(h) = answer /\ answer \in S
      <4>1. Due(h) = answer
        BY <1>2, <1>3, <2>6 DEF Due, Header, answer
      <4>2. answer \in S
        BY <1>3, AnswerIs DEF Inv, answer
      <4> QED BY <4>1, <4>2
    <3>2. due \in Seq(S)
      <4>1. ASSUME NEW i \in 1 .. Len(heard) PROVE Due(heard[i]) \in S
        BY <4>1, DueIs DEF Inv
      <4> QED BY <2>7, <4>1
    <3>3. [i \in 1 .. Len(heard') |-> Due(heard'[i])] = Append(due, answer)
      <4> HIDE DEF S
      <4>1. PICK g : g = Append(due, answer)
        OBVIOUS
      <4>2. Len(due) = Len(heard)
        BY <2>7
      <4>3. /\ Len(g) = Len(heard') /\ g \in Seq(S) /\ g[Len(heard) + 1] = answer
            /\ \A i \in 1 .. Len(heard) : g[i] = due[i]
        <5> HIDE DEF due
        <5> QED BY <2>7, <3>1, <3>2, <4>1, <4>2
      <4>4. ASSUME NEW i \in 1 .. Len(heard') PROVE g[i] = Due(heard'[i])
        <5>1. CASE i = Len(heard) + 1
          BY <5>1, <2>7, <3>1, <4>3
        <5>2. CASE i \in 1 .. Len(heard)
          <6>1. g[i] = Due(heard[i])
            BY <5>2, <4>3
          <6> QED BY <5>2, <6>1, <2>7
        <5> QED BY <2>7, <5>1, <5>2
      <4>5. g = [i \in 1 .. Len(heard') |-> g[i]]
        BY <4>3
      <4> QED BY <4>1, <4>4, <4>5
    <3> HIDE DEF due, S
    <3>4. AnswersOf(phone.got \o out, due)
      BY DEF Inv, RepliesTrue, due
    <3>5. phone.got \o out \in Seq(Reply)
      BY Fields
    <3>6. CASE out' = out
      <4>1. AnswersOf(phone.got \o out, Append(due, answer))
        BY <3>1, <3>2, <3>4, <3>5, AnswersDue
      <4> QED BY <3>3, <3>6, <4>1
    <3>7. CASE out' # out
      <4>1. out' = Append(out, answer[1]) /\ answer # <<>>
        BY <2>1, <3>7 DEF EventSend
      <4>2. PICK reply \in Reply : answer = <<reply>>
        BY <3>1, <4>1 DEF S
      <4>3. AnswersOf(Append(phone.got \o out, reply), Append(due, <<reply>>))
        BY <3>1, <3>2, <3>4, <3>5, <4>2, AnswerTold
      <4>4. phone.got \o out' = Append(phone.got \o out, reply)
        <5>1. PICK got \in Seq(Reply), o \in Seq(Reply) : got = phone.got /\ o = out
          BY Fields
        <5>2. got \o Append(o, reply) = Append(got \o o, reply)
          OBVIOUS
        <5> QED BY <4>1, <4>2, <5>1, <5>2
      <4> QED BY <3>3, <4>2, <4>3, <4>4
    <3> QED BY <3>6, <3>7
  <2> QED BY <2>5, <2>8, <2>9, <2>11, <2>12, <2>13 DEF Inv
<1> QED
  <2> HIDE DEF option
  <2>1. phone.msgs[buffer[1][1]] = m /\ Declared(buffer) - Header = m.len
    BY <1>2, <1>4, <1>6
  <2>0. Deliver(buffer) /\ buffer[1][2] = 1
    BY <1>6
  <2>2. option = "reset" \/ (option = "drop" /\ DisconnectFails) => Reset
    BY <2>0, <2>1 DEF Deliver, option
  <2> QED BY <1>7, <1>8, <2>2

(* The bytes of a write in the buffer, behind what is there of the message. *)
LEMMA CopiedIs ==
  ASSUME NEW buffer \in Buffers, NEW at \in Nat, NEW d \in Seq(Byte),
         at + Len(d) <= MaxMessage
  PROVE  /\ Copied(buffer, at, d) \in Buffers
         /\ \A i \in 1 .. at : Copied(buffer, at, d)[i] = buffer[i]
         /\ \A i \in at + 1 .. at + Len(d) : Copied(buffer, at, d)[i] = d[i - at]
<1>1. ASSUME NEW i \in 1 .. MaxMessage
      PROVE  (IF i - at \in 1 .. Len(d) THEN d[i - at] ELSE buffer[i]) \in Byte
  BY DEF Buffers
<1>2. Copied(buffer, at, d) \in Buffers
  BY <1>1 DEF Copied, Buffers
<1>3. ASSUME NEW i \in 1 .. at
      PROVE  Copied(buffer, at, d)[i] = buffer[i]
  BY LinkAssumption DEF Copied
<1>4. ASSUME NEW i \in at + 1 .. at + Len(d)
      PROVE  Copied(buffer, at, d)[i] = d[i - at]
  BY LinkAssumption DEF Copied
<1> QED BY <1>2, <1>3, <1>4

LEMMA CommandWriteInv ==
  ASSUME Inv, CommandWrite
  PROVE  Inv' \/ Loose'
<1>1. air # <<>> /\ air[1][1] = "command" /\ Head(air) = air[1]
  BY Coming DEF CommandWrite
<1>2. PICK d \in Seq(Byte) : d = air[1][2]
  BY <1>1, Coming
<1>3. PICK id \in Nat, m \in Message : id = Of(air[1]) /\ m = phone.msgs[id]
  <2>1. phone.msgs[Of(air[1])] \in Message /\ Of(air[1]) \in Nat
    BY <1>1, Coming
  <2> QED BY <2>1
<1>4. /\ id = At(rx) + 1 /\ From(air[1]) = 1 /\ Upto(air[1]) = Len(d)
      /\ Len(d) \in Header .. Size(m) /\ Len(d) \in 2 .. MaxMessage /\ Size(m) \in Nat
      /\ \A j \in 1 .. Len(d) : d[j] = ByteOf(phone, id, j)
  <2>1. Begins(phone, Stands(rx), air[1])
    BY <1>1, Coming DEF Follows, GoesOn
  <2>2. Of(air[1]) = At(rx) + 1 /\ From(air[1]) = 1
    BY <2>1 DEF Begins, Stands
  <2>3. Upto(air[1]) = Len(d)
    BY <1>2, <2>2 DEF Upto
  <2>4. Carries(phone, air[1])
    BY <1>1, Coming
  <2>5. \A j \in 1 .. Len(d) : d[j] = ByteOf(phone, id, From(air[1]) + j - 1)
    BY <1>2, <1>3, <2>4 DEF Carries
  <2>6. \A j \in 1 .. Len(d) : d[j] = ByteOf(phone, id, j)
    BY <2>2, <2>5
  <2>7. Len(d) <= Chunk /\ Len(d) \in Nat /\ Size(m) \in Nat
    BY <1>1, <1>2, Coming, Sizes
  <2> QED BY <1>1, <1>3, <2>2, <2>3, <2>6, <2>7, Coming, LinkAssumption DEF Header
<1> DEFINE buffer == Copied(rx.buffer, 0, d)
           r == [buffer |-> buffer, offset |-> Len(d), long |-> FALSE]
<1>5. /\ buffer \in Buffers
      /\ \A i \in 1 .. Len(d) : buffer[i] = ByteOf(phone, id, i)
  <2>1. rx.buffer \in Buffers /\ 0 + Len(d) <= MaxMessage
    BY <1>4, Fields
  <2>2. /\ Copied(rx.buffer, 0, d) \in Buffers
        /\ \A i \in 0 + 1 .. 0 + Len(d) : Copied(rx.buffer, 0, d)[i] = d[i - 0]
    BY <2>1, CopiedIs
  <2> QED BY <1>4, <2>2
<1> HIDE DEF buffer
<1>6. Size(m) <= MaxMessage => Stored(r)
  <2>1. Len(d) \in 0 .. MaxMessage
    BY <1>4, LinkAssumption
  <2> QED BY <1>3, <1>4, <1>5, <2>1 DEF Stored, Receivers
<1>7. Declared(rx.buffer) <= MaxMessage /\ Len(d) >= 2
  BY <1>4 DEF Inv, Shape
<1>8. (d[2][3] + Header = Len(d)) <=> (Len(d) = Size(m))
  <2>1. d[2] = ByteOf(phone, id, 2)
    BY <1>4
  <2> QED BY <1>3, <2>1, Sizes DEF ByteOf, Header
<1>12. Declared(buffer) = Size(m)
  <2>1. buffer[2] = ByteOf(phone, id, 2)
    BY <1>4, <1>5
  <2> QED BY <1>3, <2>1 DEF Declared, ByteOf, Size
<1>9. IF d[2][3] + Header = Len(d) THEN Deliver(buffer)
      ELSE Kept([buffer |-> buffer, offset |-> Len(d),
                 long |-> rx.long \/ Declared(buffer) > MaxMessage])
  <2>1. ~(Len(d) < 2 \/ Declared(rx.buffer) > MaxMessage)
    <3>1. PICK declared \in Nat : declared = Declared(rx.buffer)
      <4>1. 2 \in 1 .. MaxMessage
        BY LinkAssumption DEF Header
      <4>2. rx.buffer[2] \in Byte
        BY <4>1, Fields DEF Buffers
      <4> QED BY <4>2 DEF Declared, Header, Byte
    <3> QED BY <1>7, <3>1, <1>4, LinkAssumption
  <2> QED BY <1>1, <1>2, <2>1 DEF CommandWrite, buffer
<1>10. CASE Len(d) = Size(m)
  <2>1. Deliver(buffer)
    BY <1>8, <1>9, <1>10
  <2>2. \A i \in 1 .. Len(heard) : heard[i][1][1] < Of(air[1])
    <3>1. HeardSoFar(phone, rx, heard)
      BY <1>1, Coming DEF Inv, Heard
    <3>2. ASSUME NEW i \in 1 .. Len(heard) PROVE heard[i][1][1] < Of(air[1])
      <4>1. heard[i][1][1] \in Nat /\ heard[i][1][1] <= At(rx) /\ At(rx) \in Nat
        <5>1. heard[i][1][1] \in Nat
          BY DEF Inv, HeardWhole
        <5> QED BY <3>1, <5>1, Fields DEF HeardSoFar
      <4> QED BY <1>3, <1>4, <4>1
    <3> QED BY <3>2
  <2>3. Stored([buffer |-> buffer, offset |-> Upto(air[1]), long |-> FALSE])
    BY <1>4, <1>6, <1>10, LinkAssumption
  <2>4. Upto(air[1]) = Size(phone.msgs[Of(air[1])])
    BY <1>3, <1>4, <1>10
  <2> QED BY <1>1, <1>5, <2>1, <2>2, <2>3, <2>4, DeliverInv
<1>13. CASE Len(d) # Size(m) /\ Size(m) > MaxMessage
  <2>0. (rx.long \/ Declared(buffer) > MaxMessage) = TRUE
    BY <1>12, <1>13
  <2>1. /\ rx' = [buffer |-> buffer, offset |-> Len(d), long |-> TRUE]
        /\ UNCHANGED <<app, sd, handle>>
    BY <1>8, <1>9, <1>13, <2>0 DEF Kept
  <2>2. rx' = [buffer |-> rx'.buffer, offset |-> rx'.offset, long |-> TRUE]
    BY <2>1
  <2> QED BY <2>1, <2>2 DEF Loose, Inv, Shape, Reachable
<1>11. CASE Len(d) # Size(m) /\ ~(Size(m) > MaxMessage)
  <2>0. Size(m) <= MaxMessage
    BY <1>4, <1>11, LinkAssumption
  <2>3. (rx.long \/ Declared(buffer) > MaxMessage) = FALSE
    <3>1. rx.long = FALSE
      BY Fields DEF Receivers
    <3> QED BY <1>12, <1>11, <3>1
  <2>1. Kept(r)
    BY <1>8, <1>9, <1>11, <2>3
  <2>2. Upto(air[1]) # Size(phone.msgs[Of(air[1])])
    BY <1>3, <1>4, <1>11
  <2> HIDE DEF r
  <2> QED BY <1>1, <1>6, <2>0, <2>1, <2>2, KeptInv
<1> QED BY <1>10, <1>11, <1>13

LEMMA BulkWriteInv ==
  ASSUME Inv, BulkWrite
  PROVE  Inv'
<1>1. air # <<>> /\ air[1][1] = "bulkout" /\ Head(air) = air[1]
  BY Coming DEF BulkWrite
<1>2. PICK d \in Seq(Byte) : d = air[1][2]
  BY <1>1, Coming
<1>3. PICK id \in Nat, m \in Message : id = Of(air[1]) /\ m = phone.msgs[id]
  <2>1. phone.msgs[Of(air[1])] \in Message /\ Of(air[1]) \in Nat
    BY <1>1, Coming
  <2> QED BY <2>1
<1>4. PICK from \in Nat, at \in Nat, size \in Nat :
         from = From(air[1]) /\ at = rx.offset /\ size = Size(m)
  <2>1. From(air[1]) \in Nat
    BY <1>1, Coming DEF Carries
  <2>2. Size(m) \in Nat
    BY Sizes
  <2> QED BY <2>1, <2>2, Fields
<1>5. /\ id = At(rx) /\ id > 0 /\ Upto(air[1]) = from + Len(d) - 1 /\ Len(d) > 0
      /\ from + Len(d) - 1 <= size
      /\ from = at + 1 \/ (from = at /\ from + Len(d) - 1 = at /\ at = size)
      /\ \A j \in 1 .. Len(d) : d[j] = ByteOf(phone, id, from + j - 1)
  <2>1. GoesOn(phone, Stands(rx), air[1])
    BY <1>1, Coming DEF Follows, Begins
  <2>2. /\ Of(air[1]) = At(rx) /\ At(rx) > 0
        /\ \/ from = at + 1
           \/ from = at /\ Upto(air[1]) = at /\ at = Size(phone.msgs[At(rx)])
    BY <1>4, <2>1 DEF GoesOn, Stands
  <2>3. Upto(air[1]) = from + Len(d) - 1
    BY <1>2, <1>4 DEF Upto
  <2>4. Carries(phone, air[1])
    BY <1>1, Coming
  <2>5. \A j \in 1 .. Len(d) : d[j] = ByteOf(phone, id, from + j - 1)
    BY <1>2, <1>3, <1>4, <2>4 DEF Carries
  <2>6. Len(d) > 0 /\ Upto(air[1]) <= size
    BY <1>2, <1>3, <1>4, <2>4 DEF Carries, Header
  <2> QED BY <1>3, <1>4, <2>2, <2>3, <2>5, <2>6
<1>6. /\ handle /\ Holds(phone, rx) /\ at >= 2 /\ at <= size
      /\ \A i \in 1 .. at : rx.buffer[i] = ByteOf(phone, id, i)
      /\ Declared(rx.buffer) = size /\ size <= MaxMessage
  <2>1. handle /\ rx.offset # 0
    BY <1>1, <1>5, Coming DEF At
  <2>2. Holds(phone, rx)
    BY <2>1 DEF Inv, Buffered
  <2>3. /\ at >= 2 /\ at <= size
        /\ \A i \in 1 .. at : rx.buffer[i] = ByteOf(phone, id, i)
    BY <1>3, <1>4, <1>5, <2>2 DEF Holds, Header
  <2>4. rx.buffer[2] = ByteOf(phone, id, 2)
    BY <2>3
  <2>5. Declared(rx.buffer) = size
    BY <1>3, <1>4, <2>4 DEF Declared, ByteOf, Size
  <2>6. size <= MaxMessage
    BY <2>5 DEF Inv, Shape
  <2> QED BY <2>1, <2>2, <2>3, <2>5, <2>6
<1> DEFINE buffer == Copied(rx.buffer, rx.offset, d)
           end == at + Len(d)
           r == [buffer |-> buffer, offset |-> end, long |-> FALSE]
<1>7. IF end > Declared(rx.buffer) THEN Kept(rx)
      ELSE IF end = Declared(buffer) THEN Deliver(buffer)
      ELSE Kept(r)
  <2>1. PICK b, o : rx = [buffer |-> b, offset |-> o, long |-> FALSE]
    <3>1. rx \in Receivers
      BY Fields
    <3> QED BY <3>1 DEF Receivers
  <2>2. [rx EXCEPT !.buffer = buffer, !.offset = end] = r
    <3> HIDE DEF buffer, end
    <3>1. PICK s : s = [rx EXCEPT !.buffer = buffer, !.offset = end]
      OBVIOUS
    <3>2. s = [buffer |-> buffer, offset |-> end, long |-> FALSE]
      BY <2>1, <3>1
    <3> QED BY <3>1, <3>2
  <2>3. IF end > Declared(rx.buffer) THEN Kept(rx)
        ELSE IF end = Declared(buffer) THEN Deliver(buffer)
        ELSE Kept([rx EXCEPT !.buffer = buffer, !.offset = end])
    BY <1>1, <1>2, <1>4 DEF BulkWrite
  <2> HIDE DEF buffer, end, r
  <2> QED BY <2>2, <2>3
<1> HIDE DEF buffer
<1>8. CASE end > size
  <2>1. Kept(rx)
    BY <1>6, <1>7, <1>8
  <2>2. Upto(air[1]) = at
    BY <1>5, <1>8
  <2>3. Stored(rx)
    BY <1>3, <1>4, <1>6, <2>2, Fields DEF Stored
  <2> QED BY <1>1, <2>1, <2>3, KeptInv
<1>9. CASE end <= size
  <2>1. from = at + 1 /\ Upto(air[1]) = end
    BY <1>4, <1>5, <1>6, <1>9
  <2>2. /\ buffer \in Buffers
        /\ \A i \in 1 .. at : buffer[i] = rx.buffer[i]
        /\ \A i \in at + 1 .. at + Len(d) : buffer[i] = d[i - at]
    <3>1. at + Len(d) <= MaxMessage
      BY <1>4, <1>6, <1>9, LinkAssumption
    <3>2. PICK b \in Buffers : b = rx.buffer /\ buffer = Copied(b, at, d)
      BY <1>4, Fields DEF buffer
    <3>3. /\ Copied(b, at, d) \in Buffers
          /\ \A i \in 1 .. at : Copied(b, at, d)[i] = b[i]
          /\ \A i \in at + 1 .. at + Len(d) : Copied(b, at, d)[i] = d[i - at]
      BY <3>1, CopiedIs
    <3> QED BY <3>2, <3>3, Zenon
  <2>3. ASSUME NEW i \in 1 .. end PROVE buffer[i] = ByteOf(phone, id, i)
    <3>1. CASE i \in 1 .. at
      BY <1>6, <2>2, <3>1
    <3>2. CASE i \in at + 1 .. at + Len(d)
      <4>1. i - at \in 1 .. Len(d) /\ from + (i - at) - 1 = i
        BY <2>1, <3>2
      <4>2. d[i - at] = ByteOf(phone, id, from + (i - at) - 1)
        BY <1>5, <4>1
      <4> QED BY <2>2, <3>2, <4>1, <4>2
    <3> QED BY <3>1, <3>2
  <2>4. r.buffer = buffer /\ r.offset = end /\ end \in 0 .. MaxMessage
    BY <1>4, <1>6, <1>9, LinkAssumption
  <2>5. Stored(r)
    BY <1>3, <1>4, <1>6, <2>1, <2>2, <2>3, <2>4 DEF Stored, Receivers
  <2>6. Declared(buffer) = size
    BY <1>1, <1>3, <1>4, <2>4, <2>5, StoredHolds
  <2>7. CASE end = size
    <3>1. Deliver(buffer)
      BY <1>6, <1>7, <1>9, <2>6, <2>7
    <3>2. ASSUME NEW i \in 1 .. Len(heard) PROVE heard[i][1][1] < Of(air[1])
      <4>1. HeardSoFar(phone, rx, heard)
        BY <1>6 DEF Inv, Heard
      <4>2. /\ heard[i][1][1] \in Nat /\ heard[i][1][1] <= At(rx)
            /\ Complete(phone, rx, heard[i][1][1])
        BY <4>1 DEF HeardSoFar, Inv, HeardWhole
      <4>3. ~Complete(phone, rx, At(rx))
        BY <1>3, <1>4, <1>5, <2>7 DEF Complete
      <4> QED BY <1>3, <1>5, <4>2, <4>3
    <3>3. Stored([buffer |-> buffer, offset |-> Upto(air[1]), long |-> FALSE])
      BY <2>1, <2>5
    <3>4. Upto(air[1]) = Size(phone.msgs[Of(air[1])])
      BY <1>3, <1>4, <2>1, <2>7
    <3> QED BY <1>1, <2>2, <3>1, <3>2, <3>3, <3>4, DeliverInv
  <2>8. CASE end # size
    <3>1. Kept(r)
      BY <1>6, <1>7, <1>9, <2>6, <2>8
    <3>2. Upto(air[1]) # Size(phone.msgs[Of(air[1])])
      BY <1>3, <1>4, <2>1, <2>8
    <3> HIDE DEF r
    <3> QED BY <1>1, <2>5, <3>1, <3>2, KeptInv
  <2> QED BY <2>7, <2>8
<1> QED BY <1>4, <1>8, <1>9

(***************************************************************************)
(* The phone writes.                                                       *)
(***************************************************************************)

LEMMA SendInv ==
  ASSUME Inv, NEW char \in Chars, NEW how, NEW msgs \in Seq(Message),
         NEW i \in Nat, NEW k \in Nat, Send(char, how, msgs, i, k),
         msgs # <<>>, 1 <= i, i <= k, k < i + Chunk, Header <= k, k <= Size(msgs[Len(msgs)]),
         Len(phone.msgs) <= Len(msgs), Len(msgs) <= Len(phone.msgs) + 1,
         \A id \in 1 .. Len(phone.msgs) : msgs[id] = phone.msgs[id],
         \A a \in Chars \X Seq(Byte) :
            (a[1] = char /\ Of(a) = Len(msgs) /\ From(a) = i /\ Upto(a) = k) =>
               Follows(phone', Reached(phone), a)
  PROVE  Inv'
<1>0. PICK id \in Nat, m \in Message : id = Len(msgs) /\ id > 0 /\ m = msgs[id]
  <2>1. msgs[Len(msgs)] \in Message /\ Len(msgs) \in Nat /\ Len(msgs) > 0
    OBVIOUS
  <2> QED BY <2>1
<1>1. PICK a : /\ id = Len(msgs) /\ id > 0 /\ m = msgs[id]
               /\ a = <<char, SubSeq(Bytes(id, m), i, k)>>
  BY <1>0
<1>2. /\ sd.up /\ handle /\ Len(air) < MaxAir /\ air' = Append(air, a)
      /\ phone' = [phone EXCEPT !.msgs = msgs,
                      !.sent = [j \in 1 .. Len(msgs) |->
                                   IF j = Len(msgs) THEN k ELSE phone.sent[j]]]
      /\ UNCHANGED <<app, sd, handle, rx, out, heard, ad>>
  BY <1>1 DEF Send, Last
<1>3. i \in 1 .. Size(m) /\ k \in i .. Size(m) /\ k <= Size(m) /\ Size(m) \in Nat
  BY <1>1, Sizes
<1>4. PICK d \in Seq(Byte) :
         /\ d = SubSeq(Bytes(id, m), i, k) /\ Len(d) = k - i + 1
         /\ \A j \in 1 .. k - i + 1 : d[j] =
               <<id, i + j - 1, IF i + j - 1 = 2 THEN m.len ELSE 0>>
  BY <1>3, Cut
<1>5. a = <<char, d>> /\ a \in Chars \X Seq(Byte) /\ a[1] = char /\ a[2] = d
  BY <1>1, <1>4
<1>6. Of(a) = id /\ From(a) = i /\ Upto(a) = k
  <2>1. 1 \in 1 .. k - i + 1
    OBVIOUS
  <2>2. d[1] = <<id, i + 1 - 1, IF i + 1 - 1 = 2 THEN m.len ELSE 0>>
    BY <1>4, <2>1
  <2>3. d[1][1] = id /\ d[1][2] = i
    BY <2>2
  <2>4. Of(a) = id /\ From(a) = i
    BY <1>5, <2>3 DEF Of, From
  <2>5. Upto(a) = i + (k - i + 1) - 1
    BY <1>4, <1>5, <2>4 DEF Upto
  <2> QED BY <2>4, <2>5
<1>7. Follows(phone', Reached(phone), a)
  BY <1>1, <1>5, <1>6
<1>8. /\ phone' \in Phones /\ phone'.msgs = msgs /\ phone'.got = phone.got
      /\ Len(phone'.sent) = id /\ phone'.sent[id] = k
      /\ \A j \in 1 .. id - 1 : phone'.sent[j] = phone.sent[j]
  <2> DEFINE sent == [j \in 1 .. Len(msgs) |-> IF j = Len(msgs) THEN k ELSE phone.sent[j]]
  <2>1. /\ Len(phone.sent) = Len(phone.msgs) /\ id - 1 <= Len(phone.msgs)
        /\ phone.sent \in Seq(Nat) /\ Len(phone.msgs) \in Nat
    BY <1>1, Fields DEF Inv, Written
  <2>2. \A j \in 1 .. id - 1 : phone.sent[j] \in Nat
    <3>1. PICK s \in Seq(Nat), n \in Nat :
             s = phone.sent /\ n = Len(phone.msgs) /\ Len(s) = n /\ id - 1 <= n
      BY <2>1, Zenon
    <3>2. ASSUME NEW j \in 1 .. n PROVE s[j] \in Nat
      <4>1. j \in 1 .. Len(s)
        BY <3>1, Zenon
      <4> QED BY <4>1
    <3>3. ASSUME NEW j \in 1 .. id - 1 PROVE j \in 1 .. n
      <4>1. id - 1 <= n
        BY <3>1, Zenon
      <4> QED BY <4>1
    <3> QED BY <3>1, <3>2, <3>3
  <2>3. /\ sent \in Seq(Nat) /\ Len(sent) = id /\ sent[id] = k
        /\ \A j \in 1 .. id - 1 : sent[j] = phone.sent[j]
    BY <1>1, <2>2
  <2>4. phone' = [phone EXCEPT !.msgs = msgs, !.sent = sent]
    BY <1>2
  <2> HIDE DEF sent
  <2>5. phone'.msgs = msgs /\ phone'.sent = sent /\ phone'.got = phone.got /\ phone' \in Phones
    BY <2>3, <2>4, Fields DEF Phones
  <2> QED BY <2>3, <2>5
<1>9. Grows(phone, phone')
  <2>1. Len(phone.msgs) \in Nat
    BY Fields
  <2> QED BY <1>1, <1>8, <2>1 DEF Grows
<1>10. Carries(phone', a)
  <2>1. ASSUME NEW j \in 1 .. Len(a[2])
        PROVE  a[2][j] = ByteOf(phone', Of(a), From(a) + j - 1)
    BY <1>1, <1>4, <1>5, <1>6, <1>8 DEF ByteOf
  <2>2. Len(a[2]) > 0 /\ Of(a) \in 1 .. Len(phone'.msgs) /\ From(a) \in Nat \ {0}
    BY <1>1, <1>4, <1>5, <1>6, <1>8
  <2>3. Upto(a) \in Header .. Size(phone'.msgs[Of(a)])
    BY <1>1, <1>3, <1>6, <1>8 DEF Header
  <2>4. Len(a[2]) <= Chunk
    BY <1>3, <1>4, <1>5, LinkAssumption
  <2> QED BY <2>1, <2>2, <2>3, <2>4 DEF Carries
<1>11. PICK n \in Nat : n = Len(air)
  <2>1. Len(air) \in Nat
    <3>1. air \in Seq(Chars \X Seq(Byte))
      BY Fields, Zenon
    <3> QED BY <3>1, LengthIsNat, Zenon
  <2> QED BY <2>1, Zenon
<1>12. /\ Len(air') = n + 1 /\ air' # <<>> /\ air'[n + 1] = a
       /\ \A j \in 1 .. n : air'[j] = air[j] /\ air[j] \in Chars \X Seq(Byte)
       /\ air' \in Seq(Chars \X Seq(Byte))
  <2>1. PICK s \in Seq(Chars \X Seq(Byte)), t \in Seq(Chars \X Seq(Byte)) :
           s = air /\ t = air' /\ t = Append(s, a)
    <3>1. Append(air, a) \in Seq(Chars \X Seq(Byte))
      BY <1>5, Fields
    <3> QED BY <1>2, <3>1, Fields
  <2>2. Len(s) = n
    BY <1>11, <2>1
  <2>3. Len(t) = n + 1 /\ t[n + 1] = a /\ \A j \in 1 .. n : t[j] = s[j]
    BY <2>1, <2>2
  <2>4. \A j \in 1 .. n : s[j] \in Chars \X Seq(Byte)
    BY <2>2
  <2>5. t # <<>>
    BY <2>3
  <2> QED BY <2>1, <2>3, <2>4, <2>5
<1>13. (IF n = 0 THEN Stands(rx) ELSE Leads(air[n])) = Reached(phone)
  <2>1. (air = <<>>) <=> (n = 0)
    BY <1>11, Fields
  <2> QED BY <1>2, <1>11, <2>1 DEF Inv, Arriving
<1>14. \A j \in 1 .. n : Of(air[j]) \in Nat /\ Upto(air[j]) \in Nat
  <2>1. ASSUME NEW j \in 1 .. n PROVE Of(air[j]) \in Nat /\ Upto(air[j]) \in Nat
    <3>1. Carries(phone, air[j])
      BY <1>11 DEF Inv, Chain
    <3> QED BY <3>1 DEF Carries, Header
  <2> QED BY <2>1
<1>15. Chain'
  <2>1. ASSUME NEW j \in 1 .. Len(air') PROVE Carries(phone', air'[j])
    <3>1. CASE j = n + 1
      BY <3>1, <1>10, <1>12
    <3>2. CASE j \in 1 .. n
      <4>1. Carries(phone, air[j])
        BY <3>2, <1>11 DEF Inv, Chain
      <4> QED BY <3>2, <4>1, <1>8, <1>9, <1>12, CarriesGrown, Fields
    <3> QED BY <1>12, <3>1, <3>2
  <2>2. Follows(phone', Stands(rx'), air'[1])
    <3>1. CASE n = 0
      <4>1. air'[1] = a
        BY <3>1, <1>12
      <4>2. Stands(rx') = Reached(phone)
        BY <3>1, <1>2, <1>13
      <4> QED BY <4>1, <4>2, <1>7
    <3>2. CASE n # 0
      <4>1. 1 \in 1 .. n /\ air # <<>>
        BY <3>2, <1>11
      <4>2. Follows(phone, <<At(rx), rx.offset>>, air[1]) /\ Carries(phone, air[1])
        BY <4>1, <1>11 DEF Inv, Chain, Stands
      <4>3. Follows(phone', <<At(rx), rx.offset>>, air[1])
        BY <4>1, <4>2, <1>8, <1>9, <1>12, FollowsGrown, Fields
      <4> QED BY <4>1, <4>3, <1>2, <1>12 DEF Stands
    <3> QED BY <3>1, <3>2
  <2>3. ASSUME NEW j \in 1 .. Len(air') - 1
        PROVE  Follows(phone', Leads(air'[j]), air'[j + 1])
    <3>1. CASE j = n
      BY <3>1, <1>7, <1>12, <1>13
    <3>2. CASE j # n
      <4>1. j \in 1 .. n /\ j + 1 \in 1 .. n /\ j \in 1 .. Len(air) - 1
        <5>1. Len(air') = n + 1 /\ Len(air) = n
          BY <1>11, <1>12
        <5> QED BY <3>2, <5>1
      <4>2. Follows(phone, <<Of(air[j]), Upto(air[j])>>, air[j + 1])
        BY <4>1 DEF Inv, Chain, Leads
      <4>3. Carries(phone, air[j + 1])
        BY <4>1, <1>11 DEF Inv, Chain
      <4>4. Of(air[j]) \in Nat /\ Upto(air[j]) \in Nat /\ air[j + 1] \in Chars \X Seq(Byte)
        BY <4>1, <1>12, <1>14
      <4>5. Follows(phone', <<Of(air[j]), Upto(air[j])>>, air[j + 1])
        BY <4>2, <4>3, <4>4, <1>8, <1>9, FollowsGrown, Fields
      <4> QED BY <4>1, <4>5, <1>12 DEF Leads
    <3> QED BY <3>1, <3>2
  <2> QED BY <2>1, <2>2, <2>3 DEF Chain
<1>16. Arriving'
  <2>1. Leads(a) = <<id, k>>
    BY <1>6 DEF Leads
  <2>2. Reached(phone') = <<id, k>>
    BY <1>1, <1>8 DEF Reached
  <2> QED BY <1>12, <2>1, <2>2 DEF Arriving
<1>17. At(rx) \in 0 .. Len(phone.msgs)
  <2>1. CASE rx.offset = 0
    <3>1. Len(phone.msgs) \in Nat /\ At(rx) = 0
      BY <2>1, Fields DEF At
    <3> QED BY <3>1
  <2>2. CASE rx.offset # 0
    <3>1. Holds(phone, rx)
      BY <2>2, <1>2 DEF Inv, Buffered
    <3>2. PICK len \in Nat : len = Len(phone.msgs)
      BY Fields
    <3>3. At(rx) \in 1 .. len
      BY <3>1, <3>2 DEF Holds
    <3> QED BY <3>2, <3>3
  <2>3. Len(phone.msgs) \in Nat
    BY Fields
  <2> QED BY <2>1, <2>2, <2>3 DEF At
<1>18. Buffered'
  <2>1. ASSUME rx.offset # 0 PROVE Holds(phone', rx)
    <3>1. Holds(phone, rx)
      BY <2>1, <1>2 DEF Inv, Buffered
    <3> QED BY <3>1, <1>8, <1>9, HoldsGrown, Fields
  <2> QED BY <1>2, <2>1 DEF Buffered
<1>19. \A j \in 1 .. Len(heard) :
          /\ heard[j][1][1] \in 1 .. Len(phone.msgs)
          /\ heard[j][1][1] \in 1 .. Len(phone'.msgs)
          /\ phone'.msgs[heard[j][1][1]] = phone.msgs[heard[j][1][1]]
          /\ heard[j] = Bytes(heard[j][1][1], phone.msgs[heard[j][1][1]])
  <2>1. ASSUME NEW j \in 1 .. Len(heard)
        PROVE  /\ heard[j][1][1] \in 1 .. Len(phone.msgs)
               /\ heard[j] = Bytes(heard[j][1][1], phone.msgs[heard[j][1][1]])
    <3>1. HeardWhole
      BY DEF Inv
    <3> QED BY <3>1 DEF HeardWhole
  <2>2. PICK s \in Nat, l \in Nat : s = Len(phone.msgs) /\ l = Len(phone'.msgs)
    BY <1>8, Fields
  <2>3. ASSUME NEW x \in 1 .. Len(phone.msgs)
        PROVE  x \in 1 .. Len(phone'.msgs) /\ phone'.msgs[x] = phone.msgs[x]
    <3>1. s <= l /\ x \in 1 .. s /\ phone'.msgs[x] = phone.msgs[x]
      BY <2>2, <1>9 DEF Grows
    <3> QED BY <2>2, <3>1
  <2> QED BY <2>1, <2>3
<1>20. Heard'
  <2>1. HeardSoFar(phone, rx, heard)
    BY <1>2 DEF Inv, Heard
  <2>2. HeardSoFar(phone', rx, heard)
    BY <2>1, <1>8, <1>9, <1>17, <1>19, HeardGrown, Fields
  <2> QED BY <1>2, <2>2 DEF Heard
<1>21. HeardWhole'
  <2>1. \A j \in 1 .. Len(heard') :
           /\ heard'[j][1][1] \in 1 .. Len(phone'.msgs)
           /\ heard'[j] = Bytes(heard'[j][1][1], phone'.msgs[heard'[j][1][1]])
    <3>1. heard' = heard
      BY <1>2
    <3>2. ASSUME NEW j \in 1 .. Len(heard)
          PROVE  /\ heard[j][1][1] \in 1 .. Len(phone'.msgs)
                 /\ heard[j] = Bytes(heard[j][1][1], phone'.msgs[heard[j][1][1]])
      BY <1>19
    <3> QED BY <3>1, <3>2
  <2>2. \A x, y \in 1 .. Len(heard') : x < y => heard'[x][1][1] < heard'[y][1][1]
    BY <1>2 DEF Inv, HeardWhole
  <2> QED BY <2>1, <2>2 DEF HeardWhole
<1>22. RepliesTrue'
  <2>1. ASSUME NEW j \in 1 .. Len(heard) PROVE Due(heard[j])' = Due(heard[j])
    <3>1. phone'.msgs[heard[j][1][1]] = phone.msgs[heard[j][1][1]]
      BY <1>19
    <3>2. heard' = heard /\ app' = app
      BY <1>2
    <3>3. PICK kind, len : /\ kind = phone.msgs[heard[j][1][1]].kind
                           /\ len = Declared(heard[j]) - Header
      OBVIOUS
    <3>4. /\ kind = phone'.msgs[heard'[j][1][1]].kind
          /\ len = Declared(heard'[j]) - Header
      BY <3>1, <3>2, <3>3, Zenon
    <3>5. Due(heard[j]) = Answer(kind, len)
      BY <3>3, Zenon DEF Due
    <3>6. Due(heard[j])' = Answer(kind, len)'
      BY <3>4, Zenon DEF Due
    <3>7. Answer(kind, len)' = Answer(kind, len)
      BY <3>2, Zenon DEF Answer
    <3> QED BY <3>5, <3>6, <3>7, Zenon
  <2>2. [j \in 1 .. Len(heard) |-> Due(heard[j])]' = [j \in 1 .. Len(heard) |-> Due(heard[j])]
    BY <1>2, <2>1
  <2> QED BY <1>2, <1>8, <2>2 DEF Inv, RepliesTrue
<1>23. Written'
  <2>1. ASSUME NEW j \in 1 .. id
        PROVE  phone'.sent[j] \in Header .. Size(phone'.msgs[j])
    <3>1. CASE j = id
      BY <3>1, <1>1, <1>3, <1>8 DEF Header
    <3>2. CASE j # id
      <4>1. j \in 1 .. id - 1 /\ j \in 1 .. Len(phone.msgs)
        <5>1. j \in 1 .. id - 1
          BY <3>2
        <5>2. PICK l \in Nat : l = Len(phone.msgs) /\ id <= l + 1
          BY <1>1, Fields
        <5>3. j \in 1 .. l
          BY <5>1, <5>2
        <5> QED BY <5>1, <5>2, <5>3
      <4>2. phone.sent[j] \in Header .. Size(phone.msgs[j])
        BY <4>1 DEF Inv, Written
      <4> QED BY <4>1, <4>2, <1>8
    <3> QED BY <3>1, <3>2
  <2> QED BY <1>1, <1>8, <2>1 DEF Written
<1>24. Shape'
  <2>1. Len(air') <= MaxAir
    <3>1. Len(air') = n + 1 /\ n < MaxAir
      BY <1>2, <1>11, <1>12
    <3> QED BY <3>1, LinkAssumption
  <2> QED BY <1>2, <1>8, <1>12, <2>1 DEF Inv, Shape
<1>25. Quiet' /\ Reachable'
  BY <1>2 DEF Inv, Quiet, Reachable
<1> QED BY <1>15, <1>16, <1>18, <1>20, <1>21, <1>22, <1>23, <1>24, <1>25 DEF Inv

LEMMA BeginInv ==
  ASSUME Inv, NEW m \in Message, Begin(m)
  PROVE  Inv'
<1>1. /\ Len(phone.msgs) \in Nat /\ Size(m) \in Nat /\ Size(m) >= 2
  BY Fields, Sizes DEF Header
<1> DEFINE msgs == Append(phone.msgs, m)
           k == Lesser(Size(m), Chunk)
<1>2. /\ msgs \in Seq(Message) /\ Len(msgs) = Len(phone.msgs) + 1 /\ msgs[Len(msgs)] = m
      /\ \A id \in 1 .. Len(phone.msgs) : msgs[id] = phone.msgs[id]
      /\ msgs # <<>>
  <2>1. PICK s \in Seq(Message) : s = phone.msgs
    BY Fields
  <2>2. /\ Append(s, m) \in Seq(Message) /\ Len(Append(s, m)) = Len(s) + 1
        /\ Append(s, m)[Len(s) + 1] = m
        /\ \A id \in 1 .. Len(s) : Append(s, m)[id] = s[id]
    OBVIOUS
  <2>3. Append(s, m) # <<>>
    BY <2>2
  <2> QED BY <2>1, <2>2, <2>3
<1>3. k \in Nat /\ Header <= k /\ 1 <= k /\ k <= Size(m) /\ k < 1 + Chunk
  BY <1>1, LinkAssumption DEF Lesser, Header
<1>4. Send("command", "write", msgs, 1, k)
  BY DEF Begin
<1>5. ASSUME NEW a \in Chars \X Seq(Byte),
             a[1] = "command", Of(a) = Len(msgs), From(a) = 1, Upto(a) = k
      PROVE  Follows(phone', Reached(phone), a)
  <2>1. /\ phone'.sent = [j \in 1 .. Len(msgs) |-> IF j = Len(msgs) THEN k ELSE phone.sent[j]]
    BY <1>4, Fields DEF Send, Phones
  <2>2. CASE phone.msgs = <<>>
    <3>1. Len(phone.msgs) = 0 /\ Reached(phone) = <<0, 0>>
      BY <2>2 DEF Reached
    <3> QED BY <3>1, <1>2, <1>5 DEF Follows, Begins
  <2>3. CASE phone.msgs # <<>>
    <3>1. Reached(phone) = <<Len(phone.msgs), phone.sent[Len(phone.msgs)]>>
      BY <2>3 DEF Reached
    <3>2. phone'.sent[Len(phone.msgs)] = phone.sent[Len(phone.msgs)]
      <4>1. Len(phone.msgs) > 0
        BY <2>3, Fields
      <4> QED BY <4>1, <1>1, <1>2, <2>1
    <3> QED BY <3>1, <3>2, <1>2, <1>5 DEF Follows, Begins
  <2> QED BY <2>2, <2>3
<1> HIDE DEF msgs, k
<1>6. k <= Size(msgs[Len(msgs)])
  BY <1>2, <1>3
<1>7. Len(phone.msgs) <= Len(msgs) /\ Len(msgs) <= Len(phone.msgs) + 1
  BY <1>1, <1>2
<1>8. "command" \in Chars
  BY DEF Chars
<1> QED BY <1>2, <1>3, <1>4, <1>5, <1>6, <1>7, <1>8, SendInv

(* The phone has said no more of its last message than there is. *)
LEMMA AtLast ==
  ASSUME Inv, phone.msgs # <<>>
  PROVE  /\ Last(phone.sent) = phone.sent[Len(phone.msgs)]
         /\ Last(phone.msgs) = phone.msgs[Len(phone.msgs)]
         /\ Len(phone.msgs) \in Nat /\ Len(phone.msgs) > 0
         /\ phone.msgs[Len(phone.msgs)] \in Message
         /\ Last(phone.sent) \in Nat /\ Header <= Last(phone.sent)
         /\ Last(phone.sent) <= Size(Last(phone.msgs)) /\ Size(Last(phone.msgs)) \in Nat
         /\ Reached(phone) = <<Len(phone.msgs), Last(phone.sent)>>
<1>1. Len(phone.msgs) \in Nat /\ Len(phone.msgs) > 0
  BY Fields
<1>2. Len(phone.sent) = Len(phone.msgs) /\ Len(phone.msgs) \in 1 .. Len(phone.msgs)
  BY <1>1 DEF Inv, Written
<1>3. phone.sent[Len(phone.msgs)] \in Header .. Size(phone.msgs[Len(phone.msgs)])
  BY <1>2 DEF Inv, Written
<1>4. phone.msgs[Len(phone.msgs)] \in Message
  BY <1>2, Fields
<1>5. Size(phone.msgs[Len(phone.msgs)]) \in Nat
  BY <1>4, Sizes
<1> QED BY <1>1, <1>2, <1>3, <1>4, <1>5 DEF Last, Reached, Header

LEMMA ContinueInv ==
  ASSUME Inv, Continue
  PROVE  Inv'
<1>1. phone.msgs # <<>> /\ Last(phone.sent) < Size(Last(phone.msgs))
  BY DEF Continue, Unfinished
<1> DEFINE done == Last(phone.sent)
           size == Size(Last(phone.msgs))
           k == Lesser(size, done + Chunk)
<1>2. Send("bulkout", "write without response", phone.msgs, done + 1, k)
  BY DEF Continue
<1>3. /\ done \in Nat /\ Header <= done /\ done < size /\ size \in Nat
      /\ Last(phone.msgs) = phone.msgs[Len(phone.msgs)]
      /\ Reached(phone) = <<Len(phone.msgs), done>> /\ Len(phone.msgs) > 0
      /\ Len(phone.msgs) \in Nat
  BY <1>1, AtLast
<1> HIDE DEF done, size
<1>4. /\ k \in Nat /\ done + 1 <= k /\ Header <= k /\ k <= size
      /\ k < done + 1 + Chunk
  BY <1>3, LinkAssumption DEF Lesser, Header
<1>5. ASSUME NEW a \in Chars \X Seq(Byte),
             a[1] = "bulkout", Of(a) = Len(phone.msgs), From(a) = done + 1, Upto(a) = k
      PROVE  Follows(phone', Reached(phone), a)
  BY <1>3, <1>5 DEF Follows, GoesOn
<1> HIDE DEF k
<1>6. "bulkout" \in Chars
  BY DEF Chars
<1>7. k <= Size(phone.msgs[Len(phone.msgs)])
  BY <1>3, <1>4 DEF size
<1>8. /\ Len(phone.msgs) <= Len(phone.msgs) /\ Len(phone.msgs) <= Len(phone.msgs) + 1
      /\ done + 1 \in Nat /\ 1 <= done + 1
  BY <1>3
<1> QED BY <1>1, <1>2, <1>4, <1>5, <1>6, <1>7, <1>8, SendInv, Fields

LEMMA RepeatInv ==
  ASSUME Inv, Repeat
  PROVE  Inv'
<1>1. phone.msgs # <<>> /\ ~(Last(phone.sent) < Size(Last(phone.msgs)))
  BY DEF Repeat, Unfinished
<1> DEFINE n == Last(phone.sent)
<1>2. Send("bulkout", "write without response", phone.msgs, n, n)
  BY DEF Repeat
<1>3. /\ n \in Nat /\ Header <= n /\ n = Size(phone.msgs[Len(phone.msgs)])
      /\ Reached(phone) = <<Len(phone.msgs), n>> /\ Len(phone.msgs) > 0
      /\ Len(phone.msgs) \in Nat
  BY <1>1, AtLast
<1>4. phone'.msgs = phone.msgs
  BY <1>2, Fields DEF Send, Phones
<1> HIDE DEF n
<1>5. ASSUME NEW a \in Chars \X Seq(Byte),
             a[1] = "bulkout", Of(a) = Len(phone.msgs), From(a) = n, Upto(a) = n
      PROVE  Follows(phone', Reached(phone), a)
  BY <1>3, <1>4, <1>5 DEF Follows, GoesOn
<1>6. "bulkout" \in Chars
  BY DEF Chars
<1>7. 1 <= n /\ n <= n /\ n <= Size(phone.msgs[Len(phone.msgs)]) /\ n < n + Chunk
  BY <1>3, LinkAssumption DEF Header
<1>8. Len(phone.msgs) <= Len(phone.msgs) /\ Len(phone.msgs) <= Len(phone.msgs) + 1
  BY <1>3
<1> QED BY <1>1, <1>2, <1>3, <1>5, <1>6, <1>7, <1>8, SendInv, Fields

(***************************************************************************)
(* The link, and the calls of an application.                              *)
(***************************************************************************)

LEMMA NotifiedInv ==
  ASSUME Inv, Notified
  PROVE  Inv'
<1>0. /\ out' = Tail(out) /\ out # <<>>
      /\ phone' = [phone EXCEPT !.got = Append(phone.got, Head(out))]
  BY DEF Notified
<1>1. sd.up /\ out # <<>> /\ UNCHANGED <<app, sd, handle, rx, air, heard, ad>>
  BY DEF Notified
<1>2. PICK o \in Seq(Reply), got \in Seq(Reply) : o = out /\ got = phone.got /\ o # <<>>
  BY <1>1, Fields
<1>3. /\ Head(o) \in Reply /\ Tail(o) \in Seq(Reply) /\ Len(Tail(o)) = Len(o) - 1
      /\ Len(o) \in Nat /\ Append(got, Head(o)) \in Seq(Reply)
      /\ Append(got, Head(o)) \o Tail(o) = got \o o
  BY <1>2
<1>4. /\ phone' \in Phones /\ phone'.msgs = phone.msgs /\ phone'.sent = phone.sent
      /\ phone'.got = Append(got, Head(o))
  BY <1>0, <1>2, <1>3, Fields DEF Phones
<1>5. /\ \A a : Carries(phone', a) <=> Carries(phone, a)
      /\ \A mark, a : Follows(phone', mark, a) <=> Follows(phone, mark, a)
      /\ Reached(phone') = Reached(phone)
      /\ \A r : Holds(phone', r) <=> Holds(phone, r)
      /\ \A r, h : HeardSoFar(phone', r, h) <=> HeardSoFar(phone, r, h)
  BY <1>4, SameSaid
<1>6. Chain'
  BY <1>1, <1>5 DEF Inv, Chain
<1>7. Arriving' /\ Buffered' /\ Heard'
  <2>1. Arriving'
    BY <1>1, <1>5 DEF Inv, Arriving
  <2>2. Buffered'
    BY <1>1, <1>5 DEF Inv, Buffered
  <2>3. Heard'
    BY <1>1, <1>5 DEF Inv, Heard
  <2> QED BY <2>1, <2>2, <2>3
<1>8. HeardWhole' /\ Written'
  BY <1>1, <1>4 DEF Inv, HeardWhole, Written
<1>9. RepliesTrue'
  <2>1. \A j \in 1 .. Len(heard) : Due(heard[j])' = Due(heard[j])
    BY <1>1, <1>4 DEF Due, Answer, Declared
  <2>2. [j \in 1 .. Len(heard) |-> Due(heard[j])]' = [j \in 1 .. Len(heard) |-> Due(heard[j])]
    BY <1>1, <2>1
  <2>3. phone'.got \o out' = phone.got \o out
    BY <1>0, <1>2, <1>3, <1>4
  <2> QED BY <1>1, <2>2, <2>3 DEF Inv, RepliesTrue
<1>10. Shape'
  <2>1. out' \in Seq(Reply) /\ Len(out') <= TxBuffers
    <3>1. Len(o) <= TxBuffers
      BY <1>2 DEF Inv, Shape
    <3> QED BY <1>0, <1>2, <1>3, <3>1, LinkAssumption
  <2> QED BY <1>1, <1>4, <2>1 DEF Inv, Shape
<1>11. Quiet'
  <2>1. handle
    BY <1>1 DEF Inv, Quiet
  <2> QED BY <1>1, <2>1 DEF Inv, Quiet
<1>12. Reachable'
  BY <1>1 DEF Inv, Reachable
<1> QED BY <1>6, <1>7, <1>8, <1>9, <1>10, <1>11, <1>12 DEF Inv

(* A step of the radio, or of the application: nothing is written or heard. *)
LEMMA SameBuffer ==
  ASSUME Inv, UNCHANGED <<app, handle, rx, air, phone, heard>>
  PROVE  /\ Chain' /\ Buffered' /\ Heard' /\ HeardWhole' /\ Written'
         /\ (sd'.up => sd.up) => Arriving'
         /\ (out' = out /\ sd'.up = sd.up) => RepliesTrue'
<1>1. Chain' /\ Buffered' /\ Heard' /\ HeardWhole' /\ Written'
  BY DEF Inv, Chain, Buffered, Heard, HeardWhole, Written
<1>2. ASSUME sd'.up => sd.up PROVE Arriving'
  BY <1>2 DEF Inv, Arriving
<1>3. ASSUME out' = out, sd'.up = sd.up PROVE RepliesTrue'
  BY <1>3, SameTalk DEF Inv
<1> QED BY <1>1, <1>2, <1>3

LEMMA SetNameInv ==
  ASSUME Inv, NEW n \in Names, SetName(n)
  PROVE  Inv'
<1>1. CASE UNCHANGED app /\ \E m \in Names : \E spilled : Started(m, spilled)
  BY <1>1, StartedInv DEF Inv, Shape
<1>2. CASE /\ \E spilled : ad' = Shown(OwnAd, n, Encoded(OwnAd, n).data, spilled)
           /\ UNCHANGED <<app, sd, handle, rx, air, out, phone, heard>>
  <2>1. Shape'
    <3>1. /\ ad'.name \in Names
          /\ ad' = [name |-> ad'.name, of |-> ad'.of, made |-> ad'.made,
                    data |-> ad'.data, spilled |-> ad'.spilled]
      BY <1>2 DEF Shown
    <3> QED BY <1>2, <3>1 DEF Inv, Shape
  <2>2. Quiet' /\ Reachable'
    BY <1>2 DEF Inv, Quiet, Reachable
  <2> QED BY <1>2, <2>1, <2>2, SameBuffer DEF Inv
<1> QED BY <1>1, <1>2 DEF SetName, Between

LEMMA AdvdataSetInv ==
  ASSUME Inv, NEW of, NEW response, AdvdataSet(of, response)
  PROVE  Inv'
<1>1. UNCHANGED <<app, sd, handle, rx, air, out, phone, heard>>
  BY DEF AdvdataSet
<1>2. \/ \E data, spilled : ad' = Shown(of, ad.name, data, spilled)
      \/ \E spilled : ad' = [ad EXCEPT !.spilled = spilled]
  BY DEF AdvdataSet
<1>3. /\ ad'.name \in Names
      /\ ad' = [name |-> ad'.name, of |-> ad'.of, made |-> ad'.made,
                data |-> ad'.data, spilled |-> ad'.spilled]
  <2>1. /\ ad = [name |-> ad.name, of |-> ad.of, made |-> ad.made,
                 data |-> ad.data, spilled |-> ad.spilled]
        /\ ad.name \in Names
    BY DEF Inv, Shape
  <2>2. CASE \E data, spilled : ad' = Shown(of, ad.name, data, spilled)
    BY <2>1, <2>2 DEF Shown
  <2>3. CASE \E spilled : ad' = [ad EXCEPT !.spilled = spilled]
    <3>1. PICK spilled : ad' = [ad EXCEPT !.spilled = spilled]
      BY <2>3
    <3>2. ad' = [name |-> ad.name, of |-> ad.of, made |-> ad.made,
                 data |-> ad.data, spilled |-> spilled]
      BY <2>1, <3>1
    <3> QED BY <2>1, <3>2
  <2> QED BY <1>2, <2>2, <2>3
<1>4. Shape'
  BY <1>1, <1>3 DEF Inv, Shape
<1>5. Quiet' /\ Reachable'
  BY <1>1 DEF Inv, Quiet, Reachable
<1> QED BY <1>1, <1>4, <1>5, SameBuffer DEF Inv

LEMMA AdvertiseInv ==
  ASSUME Inv, StartAdvertising \/ StopAdvertising
  PROVE  Inv'
<1>1. CASE Reset
  BY <1>1, ResetInv DEF Inv, Shape
<1>2. CASE /\ app /\ \E on \in BOOLEAN : sd' = [sd EXCEPT !.adv = on]
           /\ UNCHANGED <<app, handle, rx, air, out, phone, heard, ad>>
  <2>1. sd'.up = sd.up /\ sd' \in [up : BOOLEAN, closing : BOOLEAN, adv : BOOLEAN]
    BY <1>2 DEF Inv, Shape
  <2>2. Shape' /\ Quiet' /\ Reachable'
    BY <1>2, <2>1 DEF Inv, Shape, Quiet, Reachable
  <2> QED BY <1>2, <2>1, <2>2, SameBuffer DEF Inv
<1> QED BY <1>1, <1>2 DEF StartAdvertising, StopAdvertising

LEMMA ConnectInv ==
  ASSUME Inv, Connect
  PROVE  Inv'
<1>1. /\ sd' = [up |-> TRUE, closing |-> FALSE, adv |-> FALSE] /\ ~handle
      /\ UNCHANGED <<app, handle, rx, air, out, phone, heard>>
      /\ ad' = [ad EXCEPT !.spilled = 0]
  BY DEF Connect
<1>2. Shape' /\ Quiet' /\ Reachable'
  <2>1. /\ ad'.name \in Names
        /\ ad' = [name |-> ad'.name, of |-> ad'.of, made |-> ad'.made,
                  data |-> ad'.data, spilled |-> ad'.spilled]
    <3>1. ad = [name |-> ad.name, of |-> ad.of, made |-> ad.made,
                data |-> ad.data, spilled |-> ad.spilled] /\ ad.name \in Names
      BY DEF Inv, Shape
    <3>2. ad' = [name |-> ad.name, of |-> ad.of, made |-> ad.made,
                 data |-> ad.data, spilled |-> 0]
      BY <1>1, <3>1
    <3> QED BY <3>1, <3>2
  <2> QED BY <1>1, <2>1 DEF Inv, Shape, Quiet, Reachable
<1>3. Arriving'
  BY <1>1 DEF Arriving
<1>4. RepliesTrue'
  <2>1. CASE sd.up
    BY <1>1, <2>1, SameBuffer
  <2>2. CASE ~sd.up
    <3>1. phone = Silent /\ heard = <<>> /\ out = <<>>
      BY <1>1, <2>2 DEF Inv, Quiet
    <3>2. phone' = Silent /\ heard' = <<>> /\ out' = <<>>
      BY <1>1, <3>1
    <3> QED BY <3>2, NothingSaidNext DEF Untold
  <2> QED BY <2>1, <2>2 DEF Inv, Shape
<1> QED BY <1>1, <1>2, <1>3, <1>4, SameBuffer DEF Inv

LEMMA OnConnectInv ==
  ASSUME Inv, OnConnect
  PROVE  Inv'
<1>1. /\ sd.up /\ ~handle /\ handle' = TRUE /\ rx' = [rx EXCEPT !.offset = 0]
      /\ UNCHANGED <<app, sd, air, out, phone, heard, ad>>
  BY DEF OnConnect
<1>2. air = <<>> /\ phone = Silent /\ heard = <<>> /\ phone.msgs = <<>>
  BY <1>1, SilentIs DEF Inv, Quiet
<1>3. /\ rx'.offset = 0 /\ rx' \in Receivers /\ rx'.buffer = rx.buffer
  <2>1. 0 \in 0 .. MaxMessage
    BY LinkAssumption
  <2> QED BY <1>1, <2>1, Fields DEF Receivers
<1>4. Stands(rx') = <<0, 0>> /\ At(rx') = 0 /\ Reached(phone) = <<0, 0>>
  BY <1>2, <1>3 DEF Stands, At, Reached
<1>5. Shape' /\ Quiet' /\ Reachable'
  BY <1>1, <1>3 DEF Inv, Shape, Quiet, Reachable
<1>6. Len(air) = 0 /\ Len(heard) = 0
  BY <1>2
<1>7. Chain' /\ Arriving' /\ Buffered'
  BY <1>1, <1>2, <1>3, <1>4, <1>6 DEF Chain, Arriving, Buffered
<1>8. Heard'
  <2>1. HeardSoFar(phone, rx', heard)
    BY <1>4, <1>6 DEF HeardSoFar
  <2> QED BY <1>1, <2>1 DEF Heard
<1>9. HeardWhole' /\ RepliesTrue'
  BY <1>1, SameTalk DEF Inv
<1>10. Written'
  BY <1>1 DEF Inv, Written
<1> QED BY <1>5, <1>7, <1>8, <1>9, <1>10 DEF Inv

LEMMA LinkLostInv ==
  ASSUME Inv, LinkLost
  PROVE  Inv'
<1>1. /\ sd.up /\ handle /\ sd' = [sd EXCEPT !.up = FALSE] /\ out' = <<>>
      /\ UNCHANGED <<app, handle, rx, phone, heard, ad>>
  BY DEF LinkLost
<1>2. PICK n \in 0 .. Len(air) : air' = SubSeq(air, 1, n)
  BY DEF LinkLost
<1>3. /\ air' \in Seq(Chars \X Seq(Byte)) /\ Len(air') = n /\ n <= Len(air)
      /\ n \in Nat /\ Len(air) \in Nat
      /\ \A i \in 1 .. n : air'[i] = air[i]
  <2>1. PICK s \in Seq(Chars \X Seq(Byte)), t \in Seq(Chars \X Seq(Byte)) :
           s = air /\ t = air' /\ t = SubSeq(s, 1, n)
    <3>1. SubSeq(air, 1, n) \in Seq(Chars \X Seq(Byte))
      BY Fields
    <3> QED BY <1>2, <3>1, Fields
  <2>2. n \in 0 .. Len(s)
    BY <2>1
  <2>3. Len(t) = n /\ \A i \in 1 .. n : t[i] = s[i]
    BY <2>1, <2>2
  <2> QED BY <2>1, <2>2, <2>3
<1>4. sd' \in [up : BOOLEAN, closing : BOOLEAN, adv : BOOLEAN] /\ ~sd'.up
  BY <1>1 DEF Inv, Shape
<1>5. Shape'
  <2>1. Len(air') <= MaxAir
    BY <1>3, LinkAssumption DEF Inv, Shape
  <2>2. out' \in Seq(Reply) /\ Len(out') <= TxBuffers
    BY <1>1, LinkAssumption
  <2> QED BY <1>1, <1>3, <1>4, <2>1, <2>2 DEF Inv, Shape
<1>6. Quiet' /\ Reachable' /\ Arriving' /\ RepliesTrue'
  BY <1>1, <1>4 DEF Inv, Quiet, Reachable, Arriving, RepliesTrue
<1>7. Buffered' /\ Heard' /\ Written' /\ HeardWhole'
  BY <1>1 DEF Inv, Buffered, Heard, Written, HeardWhole
<1>8. Chain'
  <2>1. \A i \in 1 .. Len(air') : Carries(phone', air'[i])
    <3>1. ASSUME NEW i \in 1 .. n PROVE Carries(phone', air'[i])
      <4>1. i \in 1 .. Len(air) /\ air'[i] = air[i]
        BY <1>3
      <4> QED BY <1>1, <4>1 DEF Inv, Chain
    <3> QED BY <1>3, <3>1
  <2>2. ASSUME air' # <<>> PROVE Follows(phone', Stands(rx'), air'[1])
    <3>1. n > 0
      BY <1>3, <2>2
    <3>2. air # <<>> /\ air'[1] = air[1]
      BY <1>3, <3>1
    <3> QED BY <1>1, <3>2 DEF Inv, Chain
  <2>3. ASSUME NEW i \in 1 .. Len(air') - 1
        PROVE  Follows(phone', Leads(air'[i]), air'[i + 1])
    <3>1. i \in 1 .. Len(air) - 1 /\ air'[i] = air[i] /\ air'[i + 1] = air[i + 1]
      BY <1>3
    <3> QED BY <1>1, <3>1 DEF Inv, Chain
  <2> QED BY <2>1, <2>2, <2>3 DEF Chain
<1> QED BY <1>5, <1>6, <1>7, <1>8 DEF Inv

LEMMA OnDisconnectInv ==
  ASSUME Inv, OnDisconnect
  PROVE  Inv'
<1>1. PICK again \in IF app THEN BOOLEAN ELSE {TRUE} :
         IF again /\ sd.adv THEN Reset
         ELSE /\ sd' = [up |-> FALSE, closing |-> FALSE, adv |-> again \/ sd.adv]
              /\ handle' = FALSE /\ phone' = Silent /\ heard' = <<>>
              /\ UNCHANGED <<app, rx, air, out, ad>>
  BY DEF OnDisconnect
<1>2. handle /\ ~sd.up /\ air = <<>> /\ out = <<>>
  BY DEF OnDisconnect, Inv, Quiet
<1>3. CASE again /\ sd.adv
  BY <1>1, <1>3, ResetInv DEF Inv, Shape
<1>4. CASE ~(again /\ sd.adv)
  <2>1. /\ sd' = [up |-> FALSE, closing |-> FALSE, adv |-> again \/ sd.adv]
        /\ handle' = FALSE /\ phone' = Silent /\ heard' = <<>>
        /\ UNCHANGED <<app, rx, air, out, ad>>
    BY <1>1, <1>4
  <2>2. again \in BOOLEAN /\ (~app => again) /\ sd.adv \in BOOLEAN
    BY DEF Inv, Shape
  <2>3. Shape'
    <3>1. sd' \in [up : BOOLEAN, closing : BOOLEAN, adv : BOOLEAN]
      BY <2>1, <2>2
    <3>2. phone' \in Phones /\ handle' \in BOOLEAN
      BY <2>1, SilentIs
    <3>3. heard' \in Seq(Seq(Byte))
      BY <2>1
    <3> QED BY <2>1, <3>1, <3>2, <3>3 DEF Inv, Shape
  <2>4. Quiet' /\ Reachable'
    BY <1>2, <2>1, <2>2 DEF Quiet, Reachable
  <2>5. Len(air') = 0 /\ Len(phone'.msgs) = 0 /\ Len(phone'.sent) = 0
    BY <1>2, <2>1, SilentIs
  <2>6. Chain' /\ Written'
    BY <1>2, <2>1, <2>5 DEF Chain, Written
  <2>7. Arriving' /\ Buffered' /\ Heard'
    BY <2>1 DEF Arriving, Buffered, Heard
  <2>8. HeardWhole' /\ RepliesTrue'
    <3>1. phone' = Silent /\ heard' = <<>> /\ out' = <<>>
      BY <1>2, <2>1
    <3> QED BY <3>1, NothingSaidNext DEF Untold
  <2> QED BY <2>3, <2>4, <2>6, <2>7, <2>8 DEF Inv
<1> QED BY <1>3, <1>4

(***************************************************************************)
(* Every step, and the theorems.                                           *)
(***************************************************************************)

LEMMA StepInv == Inv /\ [LinkNext]_linkVars => Inv' \/ Loose'
<1> SUFFICES ASSUME Inv, [LinkNext]_linkVars PROVE Inv' \/ Loose'
  OBVIOUS
<1>1. CASE \E n \in Names : SetName(n)
  BY <1>1, SetNameInv
<1>2. CASE \E a \in Ads : AdvdataSet(a[1], a[2])
  BY <1>2, AdvdataSetInv
<1>3. CASE StartAdvertising \/ StopAdvertising
  BY <1>3, AdvertiseInv
<1>4. CASE CommandWrite \/ BulkWrite
  BY <1>4, CommandWriteInv, BulkWriteInv
<1>5. CASE OnConnect \/ OnDisconnect \/ Connect \/ LinkLost
  BY <1>5, OnConnectInv, OnDisconnectInv, ConnectInv, LinkLostInv
<1>6. CASE Continue \/ Repeat \/ Notified
  BY <1>6, ContinueInv, RepeatInv, NotifiedInv
<1>7. CASE \E m \in [kind : Kinds, len : Lengths] : Begin(m)
  BY <1>7, BeginInv DEF Message
<1>8. CASE UNCHANGED linkVars
  <2>1. Shape' /\ Quiet' /\ Reachable'
    BY <1>8 DEF linkVars, Inv, Shape, Quiet, Reachable
  <2> QED BY <1>8, <2>1, SameBuffer DEF Inv, linkVars
<1> QED BY <1>1, <1>2, <1>3, <1>4, <1>5, <1>6, <1>7, <1>8 DEF LinkNext

(* From a long command on the buffer is anybody's, but the radio is not. *)
LEMMA LooseStep == Loose /\ [LinkNext]_linkVars => Inv' \/ Loose'
<1> SUFFICES ASSUME Loose, [LinkNext]_linkVars PROVE Inv' \/ Loose'
  OBVIOUS
<1>1. ASSUME Reset PROVE Inv'
  BY <1>1, ResetInv DEF Loose
<1>2. ASSUME \/ UNCHANGED rx
             \/ \E buffer, offset : rx' = [rx EXCEPT !.buffer = buffer, !.offset = offset]
             \/ \E buffer, offset : rx' = [buffer |-> buffer, offset |-> offset,
                                           long |-> rx.long \/ Declared(buffer) > MaxMessage]
             \/ \E offset : rx' = [rx EXCEPT !.offset = offset]
      PROVE  rx' = [buffer |-> rx'.buffer, offset |-> rx'.offset, long |-> TRUE]
  <2>1. rx = [buffer |-> rx.buffer, offset |-> rx.offset, long |-> TRUE] /\ rx.long = TRUE
    BY DEF Loose
  <2>2. CASE UNCHANGED rx
    BY <2>1, <2>2
  <2>3. CASE \E buffer, offset : rx' = [rx EXCEPT !.buffer = buffer, !.offset = offset]
    <3>1. PICK buffer, offset : rx' = [rx EXCEPT !.buffer = buffer, !.offset = offset]
      BY <2>3
    <3>2. rx' = [buffer |-> buffer, offset |-> offset, long |-> TRUE]
      BY <2>1, <3>1
    <3> QED BY <3>2
  <2>4. CASE \E buffer, offset : rx' = [buffer |-> buffer, offset |-> offset,
                                        long |-> rx.long \/ Declared(buffer) > MaxMessage]
    <3>1. PICK buffer, offset : rx' = [buffer |-> buffer, offset |-> offset,
                                       long |-> rx.long \/ Declared(buffer) > MaxMessage]
      BY <2>4
    <3>2. (rx.long \/ Declared(buffer) > MaxMessage) = TRUE
      BY <2>1
    <3>3. rx' = [buffer |-> buffer, offset |-> offset, long |-> TRUE]
      BY <3>1, <3>2
    <3> QED BY <3>3
  <2>5. CASE \E offset : rx' = [rx EXCEPT !.offset = offset]
    <3>1. PICK offset : rx' = [rx EXCEPT !.offset = offset]
      BY <2>5
    <3>2. rx' = [buffer |-> rx.buffer, offset |-> offset, long |-> TRUE]
      BY <2>1, <3>1
    <3> QED BY <3>2
  <2> QED BY <1>2, <2>2, <2>3, <2>4, <2>5
<1>3. ASSUME NEW state, Kept(state),
             \/ state = rx
             \/ \E buffer, offset : state = [rx EXCEPT !.buffer = buffer, !.offset = offset]
             \/ \E buffer, offset : state = [buffer |-> buffer, offset |-> offset,
                                             long |-> rx.long \/ Declared(buffer) > MaxMessage]
      PROVE  Loose'
  <2>1. rx' = state /\ UNCHANGED <<app, sd, handle>>
    BY <1>3 DEF Kept
  <2>2. rx' = [buffer |-> rx'.buffer, offset |-> rx'.offset, long |-> TRUE]
    BY <1>2, <1>3, <2>1
  <2> QED BY <2>1, <2>2 DEF Loose, Reachable
<1>4. ASSUME NEW buffer, Deliver(buffer) PROVE Inv' \/ Loose'
  <2>1. \/ Reset
        \/ /\ sd' = Closing \/ sd' = sd
           /\ rx' = [rx EXCEPT !.buffer = buffer, !.offset = Declared(buffer)]
           /\ UNCHANGED <<app, handle>>
    BY <1>4 DEF Deliver
  <2>2. CASE /\ sd' = Closing \/ sd' = sd
             /\ rx' = [rx EXCEPT !.buffer = buffer, !.offset = Declared(buffer)]
             /\ UNCHANGED <<app, handle>>
    <3>1. rx' = [buffer |-> rx'.buffer, offset |-> rx'.offset, long |-> TRUE]
      BY <1>2, <2>2
    <3>2. sd' \in [up : BOOLEAN, closing : BOOLEAN, adv : BOOLEAN] /\ Reachable'
      BY <2>2 DEF Closing, Loose, Reachable
    <3> QED BY <2>2, <3>1, <3>2 DEF Loose
  <2> QED BY <1>1, <2>1, <2>2
<1>5. CASE \E n \in Names : SetName(n)
  <2>1. PICK n \in Names : SetName(n)
    BY <1>5
  <2>2. CASE UNCHANGED app /\ \E m \in Names : \E spilled : Started(m, spilled)
    BY <2>2, StartedInv DEF Loose
  <2>3. CASE UNCHANGED <<app, sd, handle, rx>>
    BY <2>3 DEF Loose, Reachable
  <2> QED BY <2>1, <2>2, <2>3 DEF SetName
<1>6. CASE \E a \in Ads : AdvdataSet(a[1], a[2])
  BY <1>6 DEF AdvdataSet, Loose, Reachable
<1>7. CASE StartAdvertising \/ StopAdvertising
  <2>1. \/ Reset
        \/ /\ app /\ \E on \in BOOLEAN : sd' = [sd EXCEPT !.adv = on]
           /\ UNCHANGED <<app, rx, handle>>
    BY <1>7 DEF StartAdvertising, StopAdvertising
  <2> QED BY <1>1, <2>1 DEF Loose, Reachable
<1>8. CASE CommandWrite
  <2>1. PICK buffer, offset :
           \/ Kept(rx) \/ Deliver(buffer)
           \/ Kept([buffer |-> buffer, offset |-> offset,
                    long |-> rx.long \/ Declared(buffer) > MaxMessage])
    BY <1>8 DEF CommandWrite
  <2> QED BY <1>3, <1>4, <2>1
<1>9. CASE BulkWrite
  <2>1. PICK buffer, offset :
           \/ Kept(rx) \/ Deliver(buffer)
           \/ Kept([rx EXCEPT !.buffer = buffer, !.offset = offset])
    BY <1>9 DEF BulkWrite
  <2> QED BY <1>3, <1>4, <2>1
<1>10. CASE OnConnect
  <2>1. rx' = [rx EXCEPT !.offset = 0] /\ UNCHANGED <<app, sd>> /\ handle' = TRUE
    BY <1>10 DEF OnConnect
  <2>2. rx' = [buffer |-> rx'.buffer, offset |-> rx'.offset, long |-> TRUE]
    BY <1>2, <2>1
  <2> QED BY <2>1, <2>2 DEF Loose, Reachable
<1>11. CASE OnDisconnect
  <2>1. PICK again \in IF app THEN BOOLEAN ELSE {TRUE} :
           IF again /\ sd.adv THEN Reset
           ELSE /\ sd' = [up |-> FALSE, closing |-> FALSE, adv |-> again \/ sd.adv]
                /\ handle' = FALSE /\ UNCHANGED <<app, rx>>
    BY <1>11 DEF OnDisconnect
  <2>2. again \in BOOLEAN /\ (~app => again) /\ sd.adv \in BOOLEAN
    BY DEF Loose
  <2>3. CASE /\ sd' = [up |-> FALSE, closing |-> FALSE, adv |-> again \/ sd.adv]
             /\ handle' = FALSE /\ UNCHANGED <<app, rx>>
    <3>1. rx' = [buffer |-> rx'.buffer, offset |-> rx'.offset, long |-> TRUE]
      BY <1>2, <2>3
    <3>2. sd' \in [up : BOOLEAN, closing : BOOLEAN, adv : BOOLEAN] /\ Reachable'
      BY <2>2, <2>3 DEF Reachable
    <3> QED BY <2>3, <3>1, <3>2 DEF Loose
  <2> QED BY <1>1, <2>1, <2>3
<1>12. CASE Connect \/ LinkLost
  <2>1. UNCHANGED <<app, rx, handle>>
    BY <1>12 DEF Connect, LinkLost
  <2>2. \/ sd' = [up |-> TRUE, closing |-> FALSE, adv |-> FALSE]
        \/ handle /\ sd' = [sd EXCEPT !.up = FALSE]
    BY <1>12 DEF Connect, LinkLost
  <2>3. rx' = [buffer |-> rx'.buffer, offset |-> rx'.offset, long |-> TRUE]
    BY <1>2, <2>1
  <2>4. sd' \in [up : BOOLEAN, closing : BOOLEAN, adv : BOOLEAN]
    <3>1. sd \in [up : BOOLEAN, closing : BOOLEAN, adv : BOOLEAN]
      BY DEF Loose
    <3>2. CASE sd' = [up |-> TRUE, closing |-> FALSE, adv |-> FALSE]
      BY <3>2
    <3>3. CASE sd' = [sd EXCEPT !.up = FALSE]
      BY <3>1, <3>3
    <3> QED BY <2>2, <3>2, <3>3
  <2>5. Reachable'
    <3>1. sd'.up \/ handle
      BY <2>2
    <3> QED BY <2>1, <3>1 DEF Reachable
  <2> QED BY <2>1, <2>3, <2>4, <2>5 DEF Loose
<1>13. CASE Continue \/ Repeat \/ Notified \/ UNCHANGED linkVars
  BY <1>13 DEF Continue, Repeat, Notified, Send, linkVars, Loose, Reachable
<1>14. CASE \E m \in [kind : Kinds, len : Lengths] : Begin(m)
  BY <1>14 DEF Begin, Send, Loose, Reachable
<1> QED BY <1>5, <1>6, <1>7, <1>8, <1>9, <1>10, <1>11, <1>12, <1>13, <1>14 DEF LinkNext

LEMMA Invariance == LinkSpec => [](Inv \/ Loose)
BY InitInv, StepInv, LooseStep, PTL DEF LinkSpec

LEMMA InvTypes == Inv \/ Loose => LinkTypeOK
<1>1. ASSUME Loose PROVE LinkTypeOK
  <2>1. PICK b, o : rx = [buffer |-> b, offset |-> o, long |-> TRUE]
    BY <1>1 DEF Loose
  <2>2. rx.long = TRUE
    BY <2>1
  <2> QED BY <2>2 DEF LinkTypeOK
<1>2. ASSUME Inv PROVE LinkTypeOK
  <2>1. rx.long = FALSE /\ rx.offset \in 0 .. MaxMessage /\ DOMAIN rx.buffer = 1 .. MaxMessage
    BY <1>2, Fields DEF Receivers, Buffers
  <2> QED BY <1>2, <2>1 DEF Inv, Shape, Written, LinkTypeOK
<1> QED BY <1>1, <1>2

LEMMA InvAllHeard == Inv => AllHeard
<1> SUFFICES ASSUME Inv, sd.up, handle, air = <<>>, NEW id \in 1 .. Len(phone.msgs),
                    phone.sent[id] = Size(phone.msgs[id])
             PROVE  \E i \in 1 .. Len(heard) : heard[i][1][1] = id
  BY DEF AllHeard
<1>1. Stands(rx) = Reached(phone)
  BY DEF Inv, Arriving
<1>2. phone.msgs # <<>>
  BY Fields
<1>3. At(rx) = Len(phone.msgs) /\ rx.offset = phone.sent[Len(phone.msgs)]
  BY <1>1, <1>2 DEF Stands, Reached
<1>4. Complete(phone, rx, id) /\ id \in 1 .. At(rx)
  BY <1>3 DEF Complete
<1> QED BY <1>4 DEF Inv, Heard, HeardSoFar

(***************************************************************************)
(* For messages of any length a byte can declare: no byte is counted or    *)
(* written behind the message buffer, whatever a phone leaves unfinished,  *)
(* repeats or begins on a later link, until the device has taken a command *)
(* that declared more than fits (juma_data_service.c:18-19, 42, 63).       *)
(***************************************************************************)
THEOREM TypeCorrect == LinkSpec => []LinkTypeOK
BY Invariance, InvTypes, PTL

(***************************************************************************)
(* Until then every message the handler is given is one the phone sent on  *)
(* this link, byte for byte, once and in order, and what the phone is told *)
(* answers what was heard (on_command_value_write, on_bulk_value_write,    *)
(* system_on_message).                                                     *)
(***************************************************************************)
THEOREM WhatIsHeardWasSaid == LinkSpec => []SaidIsHeard
<1>1. Inv \/ Loose => SaidIsHeard
  BY DEF Inv, Loose, SaidIsHeard
<1> QED BY <1>1, Invariance, PTL

(***************************************************************************)
(* On a live link every message written to its end is handed over, once    *)
(* the device has handled what it received, until then too.                *)
(***************************************************************************)
THEOREM WhatIsSaidIsHeard == LinkSpec => []AllHeard
<1>1. Inv \/ Loose => AllHeard
  BY InvAllHeard DEF Loose, AllHeard
<1> QED BY <1>1, Invariance, PTL

(***************************************************************************)
(* A device without an application advertises, has a link, or has yet to   *)
(* hear that it ended (device_main.c:505-507).                             *)
(***************************************************************************)
THEOREM AlwaysReachable == LinkSpec => []Reachable
<1>1. Inv \/ Loose => Reachable
  BY DEF Inv, Loose
<1> QED BY <1>1, Invariance, PTL

=============================================================================
