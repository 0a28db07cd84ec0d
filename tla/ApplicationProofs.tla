--------------------------- MODULE ApplicationProofs ---------------------------
(***************************************************************************)
(* Theorems about what an application drives: the modules of Peripherals,  *)
(* and in the second half the serial port.                                 *)
(*                                                                         *)
(* Peripherals: TIMER1 and TIMER2 go from hand to hand until a stop races  *)
(* with a start, the light shows its color on the pins that what is left   *)
(* in TIMER2 does not spoil, a tune is played once and the infrared pin    *)
(* shows the signal, for any profiles, signals, colors and durations.      *)
(*                                                                         *)
(* The hard part is the end of a send.  The interrupt serves the channels  *)
(* in the order of their numbers, so the channel that ends the send may be *)
(* served before others that are still pending; the sender then loads them *)
(* from the data again, with nobody to stop it a second time.  That this   *)
(* does no harm rests on two facts: compares come one at a time (Ring), so *)
(* one channel at least is not pending, and the two left are fewer than    *)
(* the toggles of the shortest signal (Few).                               *)
(*                                                                         *)
(* That the pin shows the signal is the history of the toggles loaded      *)
(* (Timed: each its duration after the one before), cut in two by the      *)
(* counter (Cut): the pin has shown those behind it, the channels hold     *)
(* those ahead.  A compare moves the cut, a channel served adds a toggle.  *)
(***************************************************************************)
EXTENDS MCApplication, FiniteSetTheorems, SequenceTheorems, TLAPS

Holder == {"free", "timer", "light", "infrared"}
Holders == Holder \X Holder
Level == {"none", "half", "full"}

Timer1 == [run : BOOLEAN, cc : [P!Chan -> Nat], count : Nat, events : SUBSET P!Chan,
           inten : SUBSET P!Chan, stops : SUBSET P!Chan, clears : BOOLEAN,
           counts : BOOLEAN]
Timer2 == [power : BOOLEAN, run : BOOLEAN, short : BOOLEAN, out : 0 .. 3]
Color == [P!Pin -> Level]
Looks == [P!Pin -> Level \cup {"wrong"}]
Light == [on : BOOLEAN, values : Color, shown : Looks, at : 0 .. 4]
BitSeq == Seq({0, 1})
TimeSeq == Seq(Nat)
Sender == [statue : 0 .. 2, data : BitSeq, index : Nat, last : Nat,
           stop : P!Chan \cup {P!NoStop}, pins : {"in", "out"}, ppi : BOOLEAN,
           wave : TimeSeq]
UserTimer == [once : BOOLEAN, fired : 0 .. 2, stopped : BOOLEAN, at : 0 .. 1,
              raced : BOOLEAN]

Types ==
    /\ use \in Profiles /\ own \in Holders /\ t1 \in Timer1 /\ t2 \in Timer2
    /\ timer \in UserTimer /\ light \in Light /\ ir \in Sender

(* The profiles in which nobody takes a timer without asking, or leaves its *)
(* interrupts to another: the sound takes TIMER2 from the light, and a send *)
(* leaves the four interrupts of TIMER1 enabled for the user timer.         *)
Separate ==
    \A u \in Profiles : ~({"sound", "light"} \subseteq u)
                        /\ ~({"timer", "infrared"} \subseteq u)

(* A signal ends before TIMER1 wraps, even when each of its bits takes the  *)
(* longest.                                                                 *)
Lead == Config.lead + Config.mark + Config.rest
Fits(longest) ==
    /\ \A i \in 1 .. 2 : Config.one[i] <= longest /\ Config.zero[i] <= longest
    /\ \A s \in Signals : Lead + 2 * Len(s) * longest + Config.end < Width
Short == \E longest \in Nat : Fits(longest)
Longest == CHOOSE longest \in Nat : Fits(longest)

-----------------------------------------------------------------------------
\* The invariant.

(* Every channel has a time of its own, and the one that stops has the last. *)
Ring(t, r) ==
    /\ \A c, d \in P!Chan : c # d => t.cc[c] # t.cc[d]
    /\ r.stop = P!NoStop =>
          /\ t.stops = {} /\ \A c \in P!Chan : t.cc[c] <= r.last
          /\ r.index <= 2 * Len(r.data) /\ r.last <= Lead + r.index * Longest
    /\ r.stop # P!NoStop =>
          /\ t.stops = {r.stop} /\ r.index = 0 /\ (r.stop \in t.events => ~t.run)

Sending(t, r) == /\ r.data \in Signals /\ Ring(t, r)
                 /\ t.inten = P!Chan /\ t.events # P!Chan

Hands ==
    /\ \A t \in 1 .. 2 : own[t] = "infrared" <=> ir.statue = 2
    /\ own[2] = "light" <=> light.on \/ light.at = 4
    /\ Short /\ ~timer.raced => (own[1] = "free" => ~t1.run /\ P!Pending = {})

(* timer_stop has stopped the timer that is still held, and not freed it. *)
Stopping == timer.at = 1 /\ timer.stopped

(* The user timer is the only one to enable the interrupt of its channel. *)
Timing ==
    /\ "infrared" \notin use => /\ t1.inten \subseteq {0} /\ ir.statue = 0 /\ ~ir.ppi
                                /\ \A c \in 1 .. 3 : t1.cc[c] = 0
    /\ own[1] = "timer" => "timer" \in use /\ 0 \in t1.inten
    /\ own[1] = "timer" =>
          IF timer.once THEN t1.stops = {0} /\ (t1.run \/ 0 \in t1.events \/ Stopping)
          ELSE t1.stops = {} /\ (t1.run \/ Stopping)
    /\ "timer" \notin use => ~timer.once /\ timer.at = 0
    /\ ~timer.raced => P!OneShot

Signalling ==
    Short => /\ ir.statue = 2 => Sending(t1, ir)
             /\ ir.statue # 2 => ir.stop = P!NoStop
             /\ "infrared" \in use /\ ir.statue # 2 => t1.events = {} /\ ~t1.run

(* Between two calls the light shows its color, but on the pins a send or a *)
(* note has spoilt; and nothing is left in TIMER2 where there is neither.   *)
Colored ==
    light.at = 0 =>
        IF light.on
        THEN /\ t2.run /\ t2.power
             /\ \A i \in P!Pin : light.shown[i] = light.values[i] \/ i \in P!Spoilt
        ELSE light.shown = P!Dark
Clean == {"infrared", "sound"} \cap use = {} => ~t2.short /\ t2.out \in {0, 1}

(* Between two pins, those before are painted and the timer has power. *)
Painting ==
    /\ light.on \/ light.at # 0 => "light" \in use
    /\ light.at \in 1 .. 3 => /\ light.on /\ t2.power
                              /\ \A i \in 1 .. 3 : i < light.at =>
                                    light.shown[i] = light.values[i]
    /\ light.at = 4 => ~light.on
    /\ sound.next # "none" => "sound" \in use
    /\ Colored /\ Clean

Inv == Types /\ Hands /\ Timing /\ Signalling /\ Painting

(* The notes played are those up to the place in the tune. *)
Sound == [running : BOOLEAN, note : 0 .. 4, round : 0 .. 3, next : {"none", "on", "off"},
          played : Seq(0 .. 3), plays : Nat]
Melody ==
    /\ sound \in Sound /\ (sound.running <=> sound.next # "none")
    /\ Len(sound.played) <= 12
    /\ \A i \in 1 .. Len(sound.played) : sound.played[i] = (i - 1) % 4
    /\ sound.running => /\ sound.round < 3
                        /\ Len(sound.played) = 4 * sound.round + sound.note
    /\ sound.next = "on" => sound.note < 4
    /\ sound.plays > 0 /\ ~sound.running => Len(sound.played) = 12
    /\ sound.plays = 0 => sound.next = "none" /\ sound.played = <<>>

-----------------------------------------------------------------------------
\* What the parts depend on.

LEMMA Constants ==
  /\ Config.lead \in Nat \ {0} /\ Config.mark \in Nat \ {0}
  /\ Config.rest \in Nat \ {0} /\ Config.end \in Nat \ {0}
  /\ \A i \in 1 .. 2 : Config.one[i] \in Nat \ {0} /\ Config.zero[i] \in Nat \ {0}
  /\ Lead \in Nat \ {0} /\ Width \in Nat \ {0} /\ Periods \subseteq Nat
  /\ \A s \in Signals : s \in Seq({0, 1}) /\ Len(s) \in Nat /\ Len(s) > 0
  /\ \A c \in Colors : c \in Color
  /\ MaxLate \in 1 .. 3
BY AppAssumption DEF P!PeripheralsAssumption, P!Duration, P!Pin, P!Chan, Lead, Level, Color

Gives(p, o, k, h) == p = [o EXCEPT ![k] = h]

LEMMA Handed ==
  ASSUME NEW o \in Holders, NEW p, NEW k \in 1 .. 2, NEW h \in Holder, Gives(p, o, k, h)
  PROVE  /\ p \in Holders
         /\ \A t \in 1 .. 2 : p[t] = IF t = k THEN h ELSE o[t]
BY DEF Holders, Gives

LEMMA SamePainting ==
  ASSUME Painting, UNCHANGED <<use, t2, light, sound>>
  PROVE  Painting'
BY DEF Painting, Colored, Clean, P!Spoilt, P!Dark, P!Pin

LEMMA SameTimers ==
  ASSUME Hands, Timing, Signalling, UNCHANGED <<use, own, t1, timer, light, ir>>
  PROVE  Hands' /\ Timing' /\ Signalling'
<1>1. Hands'
  BY DEF Hands, P!Pending
<1>2. Timing'
  BY DEF Timing, Stopping, P!OneShot
<1>3. Signalling'
  BY DEF Signalling
<1> QED BY <1>1, <1>2, <1>3

LEMMA InitInv ==
  ASSUME AppInit
  PROVE  Inv
<1>1. Types
  BY DEF AppInit, P!Init, Types, Holders, Holder, Timer1, Timer2, Light, Sender, UserTimer,
         BitSeq, TimeSeq, P!Dark, P!Pin, P!Chan, P!NoStop, Level, Color, Looks
<1>2. Hands
  BY DEF AppInit, P!Init, Hands, P!Pending
<1>3. Timing
  BY DEF AppInit, P!Init, Timing, P!OneShot, P!Chan
<1>4. Signalling
  BY DEF AppInit, P!Init, Signalling, P!NoStop
<1>5. Painting
  BY DEF AppInit, P!Init, Painting, Colored, Clean
<1> QED BY <1>1, <1>2, <1>3, <1>4, <1>5 DEF Inv

-----------------------------------------------------------------------------
\* The user timer.

LEMMA TimerInitInv ==
  ASSUME Inv, NEW once \in BOOLEAN, P!TimerInit(once)
  PROVE  Inv'
<1>1. /\ "timer" \in use /\ own[1] # "timer"
      /\ timer' = [timer EXCEPT !.once = once, !.fired = 0, !.stopped = TRUE]
      /\ UNCHANGED <<use, own, t1, t2, light, ir, sound>>
  BY DEF P!TimerInit
<1>2. /\ timer' \in UserTimer /\ timer'.fired = 0 /\ timer'.stopped
      /\ timer'.at = timer.at /\ timer'.raced = timer.raced
  <2>1. timer \in UserTimer
    BY DEF Inv, Types
  <2>2. /\ timer'.fired = 0 /\ timer'.stopped
        /\ timer'.at = timer.at /\ timer'.raced = timer.raced
    BY <1>1, <2>1 DEF UserTimer
  <2>3. PICK fired \in 0 .. 2 : fired = 0
    OBVIOUS
  <2>4. timer' = [timer EXCEPT !.once = once, !.fired = fired, !.stopped = TRUE]
    BY <1>1, <2>3
  <2>5. timer' \in UserTimer
    BY <2>1, <2>4 DEF UserTimer
  <2> QED BY <2>2, <2>5
<1>3. Types'
  BY <1>1, <1>2 DEF Inv, Types
<1>4. Hands' /\ Signalling'
  BY <1>1, <1>2 DEF Inv, Hands, Signalling, P!Pending
<1>5. Timing'
  BY <1>1, <1>2 DEF Inv, Timing, Stopping, P!OneShot
<1> QED BY <1>1, <1>3, <1>4, <1>5, SamePainting DEF Inv

LEMMA TimerStartInv ==
  ASSUME Separate, Inv, NEW value \in Periods, P!TimerStart(value)
  PROVE  Inv'
<1>1. /\ "timer" \in use /\ own[1] = "free" /\ own' = [own EXCEPT ![1] = "timer"]
      /\ t1' = [t1 EXCEPT !.run = TRUE, !.cc[0] = value, !.count = 0, !.events = {},
                   !.inten = @ \cup {0}, !.stops = IF timer.once THEN {0} ELSE {},
                   !.clears = ~timer.once, !.counts = FALSE]
      /\ timer' = [timer EXCEPT !.fired = 0, !.stopped = FALSE]
      /\ UNCHANGED <<use, t2, light, ir, sound>>
  BY DEF P!TimerStart, P!Apply
<1>2. "infrared" \notin use
  BY <1>1 DEF Separate, Inv, Types
<1>3. /\ t1' \in Timer1 /\ t1'.run /\ t1'.events = {} /\ t1'.inten = t1.inten \cup {0}
      /\ t1'.stops = (IF timer.once THEN {0} ELSE {})
      /\ \A c \in 1 .. 3 : t1'.cc[c] = t1.cc[c]
  <2>1. [t1.cc EXCEPT ![0] = value] \in [P!Chan -> Nat]
    BY Constants DEF Inv, Types, Timer1, P!Chan
  <2>2. \A c \in 1 .. 3 : [t1.cc EXCEPT ![0] = value][c] = t1.cc[c]
    BY DEF Inv, Types, Timer1, P!Chan
  <2>3. t1' = [t1 EXCEPT !.run = TRUE, !.cc = [t1.cc EXCEPT ![0] = value], !.count = 0,
                   !.events = {}, !.inten = @ \cup {0},
                   !.stops = IF timer.once THEN {0} ELSE {},
                   !.clears = ~timer.once, !.counts = FALSE]
    BY <1>1
  <2>4. t1.inten \cup {0} \in SUBSET P!Chan /\ {0} \in SUBSET P!Chan
        /\ timer.once \in BOOLEAN
    BY DEF Inv, Types, Timer1, UserTimer, P!Chan
  <2> QED BY <2>1, <2>2, <2>3, <2>4 DEF Inv, Types, Timer1
<1>4. /\ own' \in Holders /\ own'[1] = "timer" /\ own'[2] = own[2]
      /\ timer' \in UserTimer /\ timer'.fired = 0 /\ timer'.once = timer.once
      /\ timer'.at = timer.at /\ timer'.raced = timer.raced
  <2>1. own' \in Holders /\ own'[1] = "timer" /\ own'[2] = own[2]
    <3>1. own \in Holders /\ "timer" \in Holder /\ Gives(own', own, 1, "timer")
      BY <1>1 DEF Inv, Types, Holder, Gives
    <3> QED BY <3>1, Handed
  <2>2. timer \in UserTimer /\ timer' = [timer EXCEPT !.fired = 0, !.stopped = FALSE]
    BY <1>1 DEF Inv, Types
  <2>3. timer' = [once |-> timer.once, fired |-> 0, stopped |-> FALSE, at |-> timer.at,
                  raced |-> timer.raced]
        /\ timer.once \in BOOLEAN /\ timer.at \in 0 .. 1 /\ timer.raced \in BOOLEAN
    BY <2>2 DEF UserTimer
  <2>4. /\ timer' \in UserTimer /\ timer'.fired = 0 /\ timer'.once = timer.once
        /\ timer'.at = timer.at /\ timer'.raced = timer.raced
    BY <2>3 DEF UserTimer
  <2> QED BY <2>1, <2>4
<1>5. Types'
  BY <1>1, <1>3, <1>4 DEF Inv, Types
<1>6. Hands'
  BY <1>1, <1>4 DEF Inv, Hands
<1>7. Timing'
  BY <1>1, <1>2, <1>3, <1>4 DEF Inv, Timing, Stopping, P!OneShot
<1>8. Signalling'
  BY <1>1, <1>2 DEF Inv, Signalling, Timing
<1> QED BY <1>1, <1>5, <1>6, <1>7, <1>8, SamePainting DEF Inv

LEMMA TimerStopInv ==
  ASSUME Separate, Inv, P!TimerStop
  PROVE  Inv'
<1>1. /\ own[1] = "timer" /\ t1' = [t1 EXCEPT !.run = FALSE]
      /\ timer' = [timer EXCEPT !.stopped = TRUE, !.at = 1]
      /\ UNCHANGED <<use, own, t2, light, ir, sound>>
  BY DEF P!TimerStop
<1>2. "timer" \in use /\ "infrared" \notin use
  BY <1>1 DEF Separate, Inv, Types, Timing
<1>3. /\ t1' \in Timer1 /\ ~t1'.run /\ t1'.events = t1.events /\ t1'.inten = t1.inten
      /\ t1'.stops = t1.stops /\ t1'.cc = t1.cc
  BY <1>1 DEF Inv, Types, Timer1
<1>4. /\ timer' \in UserTimer /\ timer'.fired = timer.fired /\ timer'.once = timer.once
      /\ timer'.stopped /\ timer'.at = 1 /\ timer'.raced = timer.raced
  <2>1. timer \in UserTimer
    BY DEF Inv, Types
  <2>2. /\ timer'.fired = timer.fired /\ timer'.once = timer.once
        /\ timer'.stopped /\ timer'.at = 1 /\ timer'.raced = timer.raced
    BY <1>1, <2>1 DEF UserTimer
  <2>3. PICK at \in 0 .. 1 : at = 1
    OBVIOUS
  <2>4. timer' = [timer EXCEPT !.stopped = TRUE, !.at = at]
    BY <1>1, <2>3
  <2>5. timer' \in UserTimer
    BY <2>1, <2>4 DEF UserTimer
  <2> QED BY <2>2, <2>5
<1>5. Types'
  BY <1>1, <1>3, <1>4 DEF Inv, Types
<1>6. Hands'
  BY <1>1, <1>3, <1>4 DEF Inv, Hands
<1>7. Timing'
  BY <1>1, <1>2, <1>3, <1>4 DEF Inv, Timing, Stopping, P!OneShot
<1>8. Signalling'
  BY <1>1, <1>2 DEF Inv, Signalling, Timing
<1> QED BY <1>1, <1>5, <1>6, <1>7, <1>8, SamePainting DEF Inv

(* What is freed is a timer that stands, or the race is recorded. *)
LEMMA TimerFreeInv ==
  ASSUME Separate, Inv, P!TimerFree
  PROVE  Inv'
<1>1. /\ timer.at = 1 /\ P!Pending = {} /\ own' = [own EXCEPT ![1] = "free"]
      /\ timer' = [timer EXCEPT !.at = 0, !.raced = @ \/ t1.run]
      /\ UNCHANGED <<use, t1, t2, light, ir, sound>>
  BY DEF P!TimerFree
<1>2. "timer" \in use /\ "infrared" \notin use
  BY <1>1 DEF Separate, Inv, Types, Timing
<1>3. /\ own' \in Holders /\ own'[1] = "free" /\ own'[2] = own[2]
  <2>1. own \in Holders /\ "free" \in Holder /\ Gives(own', own, 1, "free")
    BY <1>1 DEF Inv, Types, Holder, Gives
  <2> QED BY <2>1, Handed
<1>4. /\ timer' \in UserTimer /\ timer'.fired = timer.fired /\ timer'.once = timer.once
      /\ timer'.stopped = timer.stopped /\ timer'.at = 0
      /\ timer'.raced = (timer.raced \/ t1.run)
  <2>1. t1.run \in BOOLEAN /\ timer \in UserTimer
    BY DEF Inv, Types, Timer1
  <2>2. PICK raced \in BOOLEAN : raced = (timer.raced \/ t1.run)
    BY <2>1 DEF UserTimer
  <2>3. timer' = [timer EXCEPT !.at = 0, !.raced = raced]
    BY <1>1, <2>2
  <2>4. /\ timer'.fired = timer.fired /\ timer'.once = timer.once
        /\ timer'.at = 0 /\ timer'.raced = raced
    BY <2>1, <2>3 DEF UserTimer
  <2>5. timer'.stopped = timer.stopped
    BY <2>1, <2>3 DEF UserTimer
  <2>6. PICK at \in 0 .. 1 : at = 0
    OBVIOUS
  <2>7. timer' = [timer EXCEPT !.at = at, !.raced = raced]
    BY <2>3, <2>6
  <2>8. timer' \in UserTimer
    BY <2>1, <2>2, <2>7 DEF UserTimer
  <2> QED BY <2>2, <2>4, <2>5, <2>8
<1>5. Types'
  BY <1>1, <1>3, <1>4 DEF Inv, Types
<1>6. Hands'
  <2>1. ir.statue # 2
    BY <1>2 DEF Inv, Timing
  <2>2. ~timer'.raced => ~t1.run
    BY <1>4
  <2> QED BY <1>1, <1>3, <1>4, <2>1, <2>2 DEF Inv, Hands, P!Pending
<1>7. Timing'
  <2>1. ASSUME ~timer'.raced  PROVE P!OneShot'
    <3>1. ~t1.run /\ P!OneShot
      BY <1>4, <2>1 DEF Inv, Timing
    <3>2. CASE own[1] = "timer"
      <4>1. 0 \in t1.inten /\ 0 \notin t1.events
        BY <1>1, <3>2 DEF Inv, Timing, P!Pending
      <4>2. timer.once => timer.stopped
        BY <3>1, <3>2, <4>1 DEF Inv, Timing, Stopping
      <4> QED BY <1>3, <1>4, <3>1, <4>2 DEF P!OneShot
    <3>3. CASE own[1] # "timer"
      BY <1>3, <1>4, <3>1, <3>3 DEF P!OneShot
    <3> QED BY <3>2, <3>3
  <2> QED BY <1>1, <1>2, <1>3, <1>4, <2>1 DEF Inv, Timing
<1>8. Signalling'
  BY <1>1, <1>2 DEF Inv, Signalling, Timing
<1> QED BY <1>1, <1>5, <1>6, <1>7, <1>8, SamePainting DEF Inv

LEMMA TimerIRQHandlerInv ==
  ASSUME Separate, Inv, NEW stops \in BOOLEAN, P!TimerIRQHandler(stops)
  PROVE  Inv'
<1> DEFINE over == timer.once \/ stops
<1>1. /\ own[1] = "timer" /\ P!Pending # {}
      /\ t1' = [t1 EXCEPT !.events = @ \ {0}, !.run = @ /\ ~over]
      /\ own' = (IF over THEN [own EXCEPT ![1] = "free"] ELSE own)
      /\ timer' = [timer EXCEPT !.fired = IF @ = 2 THEN 2 ELSE @ + 1,
                                !.stopped = @ \/ stops]
      /\ UNCHANGED <<use, t2, light, ir, sound>>
  BY DEF P!TimerIRQHandler
<1>2. "timer" \in use /\ "infrared" \notin use /\ over \in BOOLEAN
      /\ timer.once \in BOOLEAN /\ t1.run \in BOOLEAN
  BY <1>1 DEF Separate, Inv, Types, Timing, UserTimer, Timer1
<1>3. /\ t1' \in Timer1 /\ t1'.run = (t1.run /\ ~over)
      /\ t1'.events = t1.events \ {0} /\ t1'.inten = t1.inten
      /\ t1'.stops = t1.stops /\ t1'.cc = t1.cc
  <2>1. PICK run \in BOOLEAN : run = (t1.run /\ ~over)
    BY <1>2
  <2>2. t1' = [t1 EXCEPT !.events = @ \ {0}, !.run = run]
    BY <1>1, <2>1
  <2> QED BY <2>1, <2>2 DEF Inv, Types, Timer1
<1>4. /\ own' \in Holders /\ own'[2] = own[2]
      /\ own'[1] = (IF over THEN "free" ELSE "timer")
  <2>1. CASE over
    <3>1. own \in Holders /\ "free" \in Holder /\ Gives(own', own, 1, "free")
      BY <1>1, <2>1 DEF Inv, Types, Holder, Gives
    <3> QED BY <2>1, <3>1, Handed
  <2>2. CASE ~over
    BY <1>1, <2>2 DEF Inv, Types
  <2> QED BY <2>1, <2>2
<1>5. /\ timer' \in UserTimer /\ timer'.once = timer.once
      /\ timer'.at = timer.at /\ timer'.raced = timer.raced
      /\ timer'.stopped = (timer.stopped \/ stops)
      /\ timer'.fired = (IF timer.fired = 2 THEN 2 ELSE timer.fired + 1)
  <2>1. timer \in UserTimer
    BY DEF Inv, Types
  <2>2. PICK stopped \in BOOLEAN : stopped = (timer.stopped \/ stops)
    BY <2>1 DEF UserTimer
  <2>3. PICK fired \in 0 .. 2 : fired = (IF timer.fired = 2 THEN 2 ELSE timer.fired + 1)
    BY <2>1 DEF UserTimer
  <2>4. timer' = [timer EXCEPT !.fired = fired, !.stopped = stopped]
    BY <1>1, <2>2, <2>3
  <2> QED BY <2>1, <2>2, <2>3, <2>4 DEF UserTimer
<1>6. Types'
  BY <1>1, <1>3, <1>4, <1>5 DEF Inv, Types
<1>7. P!Pending' = {}
  <2>1. t1.inten \subseteq {0}
    BY <1>2 DEF Inv, Timing
  <2> QED BY <1>3, <2>1 DEF P!Pending
<1>8. Hands'
  <2>1. ir.statue # 2
    BY <1>1 DEF Inv, Hands
  <2>2. \A t \in 1 .. 2 : own'[t] = "infrared" <=> ir'.statue = 2
    BY <1>1, <1>4, <2>1 DEF Inv, Hands
  <2>3. own'[2] = "light" <=> light'.on \/ light'.at = 4
    BY <1>1, <1>4 DEF Inv, Hands
  <2>4. own'[1] = "free" => ~t1'.run
    BY <1>2, <1>3, <1>4
  <2> QED BY <1>7, <2>2, <2>3, <2>4 DEF Hands
<1>9. Timing'
  <2>1. ~timer.once => t1.stops = {} /\ (t1.run \/ Stopping)
    BY <1>1 DEF Inv, Timing
  <2>2. ASSUME ~timer'.raced  PROVE P!OneShot'
    <3>1. timer.once => timer.fired = 0
      BY <1>1, <1>5, <2>2 DEF Inv, Timing, Stopping, P!OneShot
    <3> QED BY <3>1, <1>4, <1>5 DEF P!OneShot
  <2>3. /\ "infrared" \notin use' => /\ t1'.inten \subseteq {0} /\ ir'.statue = 0 /\ ~ir'.ppi
                                     /\ \A c \in 1 .. 3 : t1'.cc[c] = 0
        /\ "timer" \in use' /\ 0 \in t1'.inten
    BY <1>1, <1>2, <1>3 DEF Inv, Timing
  <2>4. own'[1] = "timer" => ~over /\ ~timer.once /\ ~stops
    BY <1>4
  <2>5. own'[1] = "timer" => t1'.stops = {} /\ (t1'.run \/ Stopping') /\ ~timer'.once
    BY <1>2, <1>3, <1>5, <2>1, <2>4 DEF Stopping
  <2> QED BY <2>2, <2>3, <2>5 DEF Timing
<1>10. Signalling'
  BY <1>1, <1>2 DEF Inv, Signalling, Timing
<1> QED BY <1>1, <1>6, <1>8, <1>9, <1>10, SamePainting DEF Inv

-----------------------------------------------------------------------------
\* The light.  A step of it leaves TIMER1 and the sender alone.

LEMMA LightFrame ==
  ASSUME Inv, UNCHANGED <<use, t1, timer, ir>>, own'[1] = own[1], own'[2] # "infrared",
         own[2] # "infrared", own'[2] = "light" <=> light'.on \/ light'.at = 4
  PROVE  Hands' /\ Timing' /\ Signalling'
<1>1. Hands'
  BY DEF Inv, Hands, P!Pending
<1>2. Timing'
  BY DEF Inv, Timing, Stopping, P!OneShot
<1>3. Signalling'
  BY DEF Inv, Signalling
<1> QED BY <1>1, <1>2, <1>3

Lit(on, values, shown, at) == [on |-> on, values |-> values, shown |-> shown, at |-> at]

LEMMA LightFields ==
  ASSUME NEW l \in Light
  PROVE  /\ l = Lit(l.on, l.values, l.shown, l.at)
         /\ l.on \in BOOLEAN /\ l.at \in 0 .. 4
         /\ l.values \in Color /\ l.shown \in Looks
BY DEF Light, Lit

LEMMA DarkLooks == P!Dark \in Looks /\ Color \subseteq Looks
BY DEF P!Dark, Level, Color, Looks

(* A step that lets the registers of TIMER2 be. *)
LEMMA LedIs ==
  ASSUME Inv, NEW pins, NEW run \in BOOLEAN, NEW t,
         t = [t2 EXCEPT !.run = run, !.out = P!Led(pins)]
  PROVE  /\ t \in Timer2 /\ t.power = t2.power /\ t.run = run /\ t.short = t2.short
         /\ t2.out \in {0, 1} => t.out \in {0, 1}
<1>1. P!Led(pins) = 1 \/ P!Led(pins) = t2.out
  BY DEF P!Led
<1>2. t2 \in Timer2
  BY DEF Inv, Types
<1>3. PICK out \in 0 .. 3 : out = P!Led(pins)
  BY <1>1, <1>2 DEF Timer2
<1>4. t = [t2 EXCEPT !.run = run, !.out = out]
  BY <1>3
<1> QED BY <1>1, <1>2, <1>3, <1>4 DEF Timer2

LEMMA UnpoweredIs ==
  ASSUME t2 \in Timer2, NEW kept \in BOOLEAN, NEW u, u = P!Unpowered(kept)
  PROVE  u \in Timer2 /\ (~t2.short => ~u.short) /\ u.out = t2.out
<1>1. PICK short \in BOOLEAN : short = (t2.short /\ kept)
  BY DEF Timer2
<1>2. u = [t2 EXCEPT !.power = FALSE, !.short = short]
  BY <1>1 DEF P!Unpowered
<1> QED BY <1>1, <1>2 DEF Timer2

LEMMA LightOnInv ==
  ASSUME Inv, P!LightOn
  PROVE  Inv'
<1>0. light \in Light
  BY DEF Inv, Types
<1>1. /\ "light" \in use /\ light.at = 0 /\ own[2] = "free"
      /\ own' = [own EXCEPT ![2] = "light"]
      /\ light' = [light EXCEPT !.on = TRUE, !.at = 1]
      /\ t2' = [t2 EXCEPT !.power = TRUE]
      /\ UNCHANGED <<use, t1, timer, ir, sound>>
  BY DEF P!LightOn, P!Apply
<1>2. own' \in Holders /\ own'[1] = own[1] /\ own'[2] = "light"
  <2>1. own \in Holders /\ "light" \in Holder /\ Gives(own', own, 2, "light")
    BY <1>1 DEF Inv, Types, Holder, Gives
  <2> QED BY <2>1, Handed
<1>3. /\ light' \in Light /\ light'.on /\ light'.at = 1 /\ light'.values = light.values
      /\ light'.shown = light.shown
  <2>1. light' = Lit(TRUE, light.values, light.shown, 1)
    BY <1>0, <1>1 DEF Light, Lit
  <2>2. light' \in Light
    BY <1>0, <2>1, LightFields DEF Light, Lit
  <2> QED BY <2>1, <2>2 DEF Lit
<1>4. t2' \in Timer2 /\ t2'.power /\ t2'.short = t2.short /\ t2'.out = t2.out
  BY <1>1 DEF Inv, Types, Timer2
<1>5. Types'
  BY <1>1, <1>2, <1>3, <1>4 DEF Inv, Types
<1>6. Hands' /\ Timing' /\ Signalling'
  BY <1>1, <1>2, <1>3, LightFrame
<1>7. Painting'
  BY <1>1, <1>3, <1>4 DEF Inv, Painting, Colored, Clean
<1> QED BY <1>5, <1>6, <1>7 DEF Inv

LEMMA LightSetColorInv ==
  ASSUME Inv, NEW values \in Colors, P!LightSetColor(values)
  PROVE  Inv'
<1>0. light \in Light
  BY DEF Inv, Types
<1>1. /\ "light" \in use /\ light.at = 0
      /\ light' = [light EXCEPT !.values = values, !.at = IF light.on THEN 1 ELSE 0]
      /\ UNCHANGED <<use, own, t1, t2, timer, ir, sound>>
  BY DEF P!LightSetColor
<1>2. /\ light' \in Light /\ light'.on = light.on /\ light'.shown = light.shown
      /\ light'.at = (IF light.on THEN 1 ELSE 0)
  <2>1. light' = Lit(light.on, values, light.shown, IF light.on THEN 1 ELSE 0)
    BY <1>0, <1>1 DEF Light, Lit
  <2>2. light' \in Light
    BY <1>0, <2>1, Constants, LightFields DEF Light, Lit
  <2> QED BY <2>1, <2>2 DEF Lit
<1>3. Types'
  BY <1>1, <1>2 DEF Inv, Types
<1>4. Hands' /\ Timing' /\ Signalling'
  BY <1>1, <1>2 DEF Inv, Hands, Timing, Stopping, Signalling, P!Pending, P!OneShot
<1>5. Painting'
  <2>1. light.on \in BOOLEAN
    BY DEF Inv, Types, Light
  <2> QED BY <1>1, <1>2, <2>1 DEF Inv, Painting, Colored, Clean, P!Dark
<1> QED BY <1>3, <1>4, <1>5 DEF Inv

LEMMA SetColorInv ==
  ASSUME Inv, P!SetColor
  PROVE  Inv'
<1>0. light \in Light
  BY DEF Inv, Types
<1>1. /\ light.at \in 1 .. 3
      /\ light' = [light EXCEPT !.shown[light.at] = light.values[light.at],
                       !.at = IF @ = 3 THEN 0 ELSE @ + 1]
      /\ t2' = [t2 EXCEPT !.run = light.at = 3, !.out = P!Led({light.at})]
      /\ UNCHANGED <<use, own, t1, timer, ir, sound>>
  BY DEF P!SetColor, P!Pin
<1>2. light.on /\ t2.power /\ "light" \in use
  BY <1>1 DEF Inv, Painting
<1>3. PICK shown \in Looks :
         shown = [light.shown EXCEPT ![light.at] = light.values[light.at]]
  BY <1>1 DEF Inv, Types, Light, P!Pin, Color, Looks
<1>4. /\ light' \in Light /\ light'.on /\ light'.values = light.values
      /\ light'.shown = shown
      /\ light'.at = (IF light.at = 3 THEN 0 ELSE light.at + 1)
  <2>1. PICK at \in 0 .. 3 : at = IF light.at = 3 THEN 0 ELSE light.at + 1
    BY <1>1
  <2>2. light' = [light EXCEPT !.shown = shown, !.at = at]
    BY <1>1, <1>3, <2>1
  <2>3. light' = Lit(light.on, light.values, shown, at)
    BY <1>0, <2>2 DEF Light, Lit
  <2>4. light' \in Light
    BY <1>0, <2>3, LightFields DEF Light, Lit
  <2> QED BY <1>2, <2>1, <2>3, <2>4 DEF Lit
<1>5. /\ t2' \in Timer2 /\ t2'.power /\ t2'.run = (light.at = 3)
      /\ t2'.short = t2.short /\ (t2.out \in {0, 1} => t2'.out \in {0, 1})
  <2>1. PICK run \in BOOLEAN : run = (light.at = 3)
    OBVIOUS
  <2>2. t2' = [t2 EXCEPT !.run = run, !.out = P!Led({light.at})]
    BY <1>1, <2>1
  <2> QED BY <1>2, <2>1, <2>2, LedIs
<1>6. Types'
  BY <1>1, <1>4, <1>5 DEF Inv, Types
<1>7. own[2] = "light"
  BY <1>2 DEF Inv, Hands
<1>8. Hands' /\ Timing' /\ Signalling'
  BY <1>1, <1>4, <1>7, LightFrame
<1>9. \A i \in 1 .. 3 : i <= light.at => shown[i] = light.values[i]
  BY <1>1, <1>3 DEF Inv, Painting, Types, Light, P!Pin, Looks
<1>10. light.at = 3 => \A i \in 1 .. 3 : shown[i] = light.values[i]
  BY <1>9
<1>11. Painting'
  <2>1. light'.at \in 1 .. 3 => \A i \in 1 .. 3 : i < light'.at => shown[i] = light.values[i]
    <3>1. light'.at \in 1 .. 3 => \A i \in 1 .. 3 : i < light'.at => i <= light.at
      BY <1>1, <1>4
    <3> QED BY <1>9, <3>1
  <2>2. Colored'
    <3>1. light'.at = 0 => light.at = 3
      BY <1>1, <1>4
    <3>2. light'.at = 0 => /\ light'.on /\ t2'.run /\ t2'.power
                           /\ \A i \in 1 .. 3 : light'.shown[i] = light'.values[i]
      BY <1>4, <1>5, <1>10, <3>1
    <3> QED BY <3>2 DEF Colored, P!Pin
  <2>3. light'.at \in 0 .. 3
    BY <1>1, <1>4
  <2>4. /\ \A i \in 1 .. 3 : i < light'.at => light'.shown[i] = light'.values[i]
        /\ light'.on /\ t2'.power /\ "light" \in use' /\ light'.at # 4
    <3>1. light'.at = 0 => \A i \in 1 .. 3 : ~(i < light'.at)
      OBVIOUS
    <3>2. light'.at # 0 => light'.at \in 1 .. 3
      BY <2>3
    <3>3. light'.shown = shown /\ light'.values = light.values
      BY <1>4
    <3>4. \A i \in 1 .. 3 : i < light'.at => shown[i] = light.values[i]
      BY <2>1, <3>1, <3>2
    <3>5. \A i \in 1 .. 3 : i < light'.at => light'.shown[i] = light'.values[i]
      BY <3>3, <3>4
    <3>6. light'.at # 4
      BY <2>3
    <3> QED BY <1>1, <1>2, <1>4, <1>5, <3>5, <3>6
  <2>5. (sound'.next # "none" => "sound" \in use') /\ Clean'
    BY <1>1, <1>5 DEF Inv, Painting, Clean
  <2> QED BY <2>2, <2>4, <2>5 DEF Painting
<1> QED BY <1>6, <1>8, <1>11 DEF Inv

LEMMA LightTimerInterruptInv ==
  ASSUME Inv, P!LightTimerInterrupt
  PROVE  Inv'
<1>0. light \in Light
  BY DEF Inv, Types
<1>1. /\ t2.run /\ t2.power /\ UNCHANGED <<use, own, t1, timer, ir, sound>>
      /\ light.on => /\ light' = [light EXCEPT !.shown = light.values]
                     /\ t2' = [t2 EXCEPT !.out = P!Led(P!Pin)]
      /\ ~light.on => UNCHANGED <<light, t2>>
  BY DEF P!LightTimerInterrupt
<1>2. CASE light.on
  <2>1. /\ light' \in Light /\ light'.on /\ light'.values = light.values
        /\ light'.shown = light.values /\ light'.at = light.at
    <3>1. light' = Lit(TRUE, light.values, light.values, light.at)
      BY <1>0, <1>1, <1>2 DEF Light, Lit
    <3>2. light' \in Light
      BY <1>0, <3>1, LightFields, DarkLooks DEF Light, Lit
    <3> QED BY <3>1, <3>2 DEF Lit
  <2>5. /\ t2' \in Timer2 /\ t2'.power /\ t2'.run
        /\ t2'.short = t2.short /\ (t2.out \in {0, 1} => t2'.out \in {0, 1})
    <3>1. t2' = [t2 EXCEPT !.run = TRUE, !.out = P!Led(P!Pin)]
      BY <1>1, <1>2 DEF Inv, Types, Timer2
    <3> QED BY <1>1, <3>1, LedIs
  <2>2. Types'
    BY <1>1, <2>1, <2>5 DEF Inv, Types
  <2>3. Hands' /\ Timing' /\ Signalling'
    BY <1>1, <1>2, <2>1 DEF Inv, Hands, Timing, Stopping, Signalling, P!Pending, P!OneShot
  <2>4. Painting'
    BY <1>1, <1>2, <2>1, <2>5 DEF Inv, Painting, Colored, Clean
  <2> QED BY <2>2, <2>3, <2>4 DEF Inv
<1>3. CASE ~light.on
  BY <1>1, <1>3, SamePainting, SameTimers DEF Inv, Types
<1> QED BY <1>2, <1>3

LEMMA LightDisturbedInv ==
  ASSUME Inv, P!LightDisturbed
  PROVE  Inv'
<1>0. light \in Light
  BY DEF Inv, Types
<1>1. PICK shown : shown = [i \in P!Pin |-> IF i \in P!Spoilt THEN "wrong"
                                            ELSE light.shown[i]]
  OBVIOUS
<1>2. /\ light.on /\ light.at = 0 /\ t2.run /\ t2.power
      /\ light' = [light EXCEPT !.shown = shown]
      /\ UNCHANGED <<use, own, t1, t2, timer, ir, sound>>
  BY <1>1 DEF P!LightDisturbed
<1>3. /\ shown \in Looks
      /\ \A i \in P!Pin : i \notin P!Spoilt => shown[i] = light.shown[i]
  BY <1>0, <1>1, LightFields DEF Looks
<1>4. /\ light' \in Light /\ light'.on /\ light'.values = light.values
      /\ light'.shown = shown /\ light'.at = 0
  <2>1. light' = Lit(TRUE, light.values, shown, 0)
    BY <1>0, <1>2 DEF Light, Lit
  <2>2. light' \in Light
    BY <1>0, <1>3, <2>1, LightFields DEF Light, Lit
  <2> QED BY <2>1, <2>2 DEF Lit
<1>5. Types'
  BY <1>2, <1>4 DEF Inv, Types
<1>6. Hands' /\ Timing' /\ Signalling'
  BY <1>2, <1>4 DEF Inv, Hands, Timing, Stopping, Signalling, P!Pending, P!OneShot
<1>7. P!Spoilt' = P!Spoilt
  BY <1>2, <1>4 DEF P!Spoilt
<1>8. Painting'
  <2>1. \A i \in P!Pin : light.shown[i] = light.values[i] \/ i \in P!Spoilt
    BY <1>2 DEF Inv, Painting, Colored
  <2> QED BY <1>2, <1>3, <1>4, <1>7, <2>1 DEF Inv, Painting, Colored, Clean
<1> QED BY <1>5, <1>6, <1>8 DEF Inv

LEMMA LightOffInv ==
  ASSUME Inv, P!LightOff
  PROVE  Inv'
<1>0. light \in Light
  BY DEF Inv, Types
<1>1. /\ light.on /\ light.at = 0
      /\ light' = [light EXCEPT !.on = FALSE, !.at = 4]
      /\ UNCHANGED <<use, own, t1, t2, timer, ir, sound>>
  BY DEF P!LightOff
<1>2. light' \in Light /\ ~light'.on /\ light'.at = 4
  <2>1. light' = Lit(FALSE, light.values, light.shown, 4)
    BY <1>0, <1>1 DEF Light, Lit
  <2>2. light' \in Light
    BY <1>0, <2>1, LightFields DEF Light, Lit
  <2> QED BY <2>1, <2>2 DEF Lit
<1>3. Types'
  BY <1>1, <1>2 DEF Inv, Types
<1>4. Hands' /\ Timing' /\ Signalling'
  BY <1>1, <1>2 DEF Inv, Hands, Timing, Stopping, Signalling, P!Pending, P!OneShot
<1>5. Painting'
  BY <1>1, <1>2 DEF Inv, Painting, Colored, Clean
<1> QED BY <1>3, <1>4, <1>5 DEF Inv

LEMMA LightDarkInv ==
  ASSUME Inv, P!LightDark
  PROVE  Inv'
<1>0. light \in Light
  BY DEF Inv, Types
<1>1. /\ light.at = 4
      /\ light' = [light EXCEPT !.shown = P!Dark, !.at = 0]
      /\ \E kept \in BOOLEAN : t2' = [P!Unpowered(kept) EXCEPT !.run = FALSE]
      /\ own' = [own EXCEPT ![2] = "free"]
      /\ UNCHANGED <<use, t1, timer, ir, sound>>
  BY DEF P!LightDark
<1>2. ~light.on /\ own[2] = "light"
  BY <1>1 DEF Inv, Painting, Hands
<1>3. own' \in Holders /\ own'[1] = own[1] /\ own'[2] = "free"
  <2>1. own \in Holders /\ "free" \in Holder /\ Gives(own', own, 2, "free")
    BY <1>1 DEF Inv, Types, Holder, Gives
  <2> QED BY <2>1, Handed
<1>4. light' \in Light /\ ~light'.on /\ light'.at = 0 /\ light'.shown = P!Dark
  <2>1. light' = Lit(FALSE, light.values, P!Dark, 0)
    BY <1>0, <1>1, <1>2 DEF Light, Lit
  <2>2. light' \in Light
    BY <1>0, <2>1, DarkLooks, LightFields DEF Light, Lit
  <2> QED BY <2>1, <2>2 DEF Lit
<1>8. t2' \in Timer2 /\ (~t2.short => ~t2'.short) /\ t2'.out = t2.out
  <2>1. PICK kept \in BOOLEAN : t2' = [P!Unpowered(kept) EXCEPT !.run = FALSE]
    BY <1>1
  <2>2. PICK u : u = P!Unpowered(kept)
    OBVIOUS
  <2>3. u \in Timer2 /\ (~t2.short => ~u.short) /\ u.out = t2.out
    BY <2>2, UnpoweredIs DEF Inv, Types
  <2>4. t2' = [u EXCEPT !.run = FALSE]
    BY <2>1, <2>2
  <2> QED BY <2>3, <2>4 DEF Timer2
<1>5. Types'
  BY <1>1, <1>3, <1>4, <1>8 DEF Inv, Types
<1>6. Hands' /\ Timing' /\ Signalling'
  BY <1>1, <1>2, <1>3, <1>4, LightFrame
<1>7. Painting'
  BY <1>1, <1>4, <1>8 DEF Inv, Painting, Colored, Clean, P!Dark
<1> QED BY <1>5, <1>6, <1>7 DEF Inv

-----------------------------------------------------------------------------
\* The sound and the ADC.  Where there is sound there is no light, and a step of
\* the ADC changes nothing the invariant speaks of.

LEMMA SameInv ==
  ASSUME Inv, UNCHANGED <<use, own, t1, t2, timer, light, ir, sound>>
  PROVE  Inv'
<1>1. Types'
  BY DEF Inv, Types
<1> QED BY <1>1, SameTimers, SamePainting DEF Inv

LEMMA SoundInv ==
  ASSUME Separate, Inv, P!PlaySound \/ P!NoteOn \/ P!NoteOff
  PROVE  Inv'
<1>1. "sound" \in use /\ UNCHANGED <<use, own, t1, timer, light, ir>>
  BY DEF P!PlaySound, P!NoteOn, P!NoteOff, Inv, Painting
<1>2. t2' \in Timer2
  <2>1. t2 \in Timer2
    BY DEF Inv, Types
  <2>2. CASE P!PlaySound
    BY <2>1, <2>2 DEF P!PlaySound
  <2>3. CASE P!NoteOn
    BY <2>3 DEF P!NoteOn, Timer2
  <2>4. CASE P!NoteOff
    <3>1. PICK kept \in BOOLEAN : t2' = P!Unpowered(kept)
      BY <2>4 DEF P!NoteOff
    <3> QED BY <2>1, <3>1, UnpoweredIs
  <2> QED BY <2>2, <2>3, <2>4
<1>3. "light" \notin use
  BY <1>1 DEF Separate, Inv, Types
<1>4. Painting'
  <2>1. ~light.on /\ light.at = 0
    BY <1>3 DEF Inv, Painting
  <2> QED BY <1>1, <2>1 DEF Inv, Painting, Colored, Clean, P!Dark
<1>5. Types'
  BY <1>1, <1>2 DEF Inv, Types
<1> QED BY <1>1, <1>4, <1>5, SameTimers DEF Inv

LEMMA AdcInv ==
  ASSUME Inv, P!AdcMeasure \/ P!ADC_IRQHandler \/ P!OnComplete
  PROVE  Inv'
<1>1. UNCHANGED <<use, own, t1, t2, timer, light, ir, sound>>
  BY DEF P!AdcMeasure, P!ADC_IRQHandler, P!OnComplete
<1> QED BY <1>1, SameInv

-----------------------------------------------------------------------------
\* The tune.

LEMMA MelodyInit ==
  ASSUME AppInit
  PROVE  Melody
BY DEF AppInit, P!Init, Melody, Sound

LEMMA PlaySoundMelody ==
  ASSUME Melody, P!PlaySound
  PROVE  Melody'
<1>1. /\ sound \in Sound
      /\ sound' = [sound EXCEPT !.note = 0, !.round = 0, !.running = TRUE,
                       !.next = IF sound.running THEN @ ELSE "on",
                       !.played = <<>>, !.plays = @ + 1]
  BY DEF P!PlaySound, Melody
<1>2. PICK next \in {"on", "off"} : next = IF sound.running THEN sound.next ELSE "on"
  BY <1>1 DEF Melody, Sound
<1>3. sound' = [sound EXCEPT !.note = 0, !.round = 0, !.running = TRUE, !.next = next,
                    !.played = <<>>, !.plays = @ + 1]
  BY <1>1, <1>2
<1>4. sound.plays \in Nat
  BY <1>1 DEF Sound
<1>5. sound' = [note |-> 0, round |-> 0, running |-> TRUE, next |-> next,
                played |-> <<>>, plays |-> sound.plays + 1]
  BY <1>1, <1>3 DEF Sound
<1> QED BY <1>4, <1>5 DEF Melody, Sound

LEMMA OneMore ==
  ASSUME NEW s \in Seq(0 .. 3), NEW note \in 0 .. 3
  PROVE  /\ Append(s, note) \in Seq(0 .. 3) /\ Len(Append(s, note)) = Len(s) + 1
         /\ \A i \in 1 .. Len(s) : Append(s, note)[i] = s[i]
         /\ Append(s, note)[Len(s) + 1] = note /\ Len(s) \in Nat
OBVIOUS

LEMMA NoteOnMelody ==
  ASSUME Melody, P!NoteOn
  PROVE  Melody'
<1>1. /\ sound \in Sound /\ sound.next = "on"
      /\ sound' = [sound EXCEPT !.note = @ + 1, !.next = "off",
                       !.played = Append(@, sound.note)]
  BY DEF P!NoteOn, Melody
<1>2. /\ sound.running /\ sound.note \in 0 .. 3 /\ sound.round \in 0 .. 2
      /\ sound.played \in Seq(0 .. 3) /\ sound.plays \in Nat /\ sound.plays # 0
      /\ Len(sound.played) = 4 * sound.round + sound.note
      /\ \A i \in 1 .. Len(sound.played) : sound.played[i] = (i - 1) % 4
  BY <1>1 DEF Melody, Sound
<1>3. sound' = [note |-> sound.note + 1, round |-> sound.round, running |-> TRUE,
                next |-> "off", played |-> Append(sound.played, sound.note),
                plays |-> sound.plays]
  BY <1>1, <1>2 DEF Sound
<1>4. PICK played : played = Append(sound.played, sound.note)
  OBVIOUS
<1>5. /\ played \in Seq(0 .. 3) /\ Len(played) = 4 * sound.round + sound.note + 1
      /\ \A i \in 1 .. Len(sound.played) : played[i] = sound.played[i]
      /\ played[4 * sound.round + sound.note + 1] = sound.note
  BY <1>2, <1>4, OneMore
<1>6. \A i \in 1 .. Len(played) : played[i] = (i - 1) % 4
  <2>1. (4 * sound.round + sound.note) % 4 = sound.note
    BY <1>2
  <2>2. \A i \in 1 .. Len(played) : i \in 1 .. Len(sound.played)
                                   \/ i = 4 * sound.round + sound.note + 1
    BY <1>2, <1>5
  <2>3. ASSUME NEW i \in 1 .. Len(played)  PROVE played[i] = (i - 1) % 4
    <3>1. CASE i \in 1 .. Len(sound.played)
      BY <1>2, <1>5, <3>1
    <3>2. CASE i = 4 * sound.round + sound.note + 1
      <4>1. i - 1 = 4 * sound.round + sound.note
        BY <1>2, <3>2
      <4> QED BY <1>5, <2>1, <3>2, <4>1
    <3> QED BY <2>2, <3>1, <3>2
  <2> QED BY <2>3
<1>7. sound'.played = played /\ sound' \in Sound
  BY <1>2, <1>3, <1>4, <1>5 DEF Sound
<1>8. /\ sound'.note = sound.note + 1 /\ sound'.round = sound.round /\ sound'.running
      /\ sound'.next = "off" /\ sound'.plays = sound.plays
  BY <1>3
<1>9. /\ Len(sound'.played) <= 12
      /\ Len(sound'.played) = 4 * sound'.round + sound'.note /\ sound'.round < 3
  BY <1>2, <1>5, <1>7, <1>8
<1>10. \A i \in 1 .. Len(sound'.played) : sound'.played[i] = (i - 1) % 4
  BY <1>6, <1>7
<1>11. sound' \in Sound /\ sound'.plays # 0 /\ sound'.running /\ sound'.next = "off"
  BY <1>2, <1>7, <1>8
<1> HIDE <1>2, <1>3, <1>5, <1>6, <1>7, <1>8
<1> QED BY <1>9, <1>10, <1>11 DEF Melody

LEMMA NoteOffMelody ==
  ASSUME Melody, P!NoteOff
  PROVE  Melody'
<1>1. /\ sound \in Sound /\ sound.next = "off" /\ sound.running
      /\ sound.round \in 0 .. 2 /\ sound.note \in 0 .. 4 /\ sound.plays # 0
      /\ Len(sound.played) = 4 * sound.round + sound.note
  BY DEF P!NoteOff, Melody, Sound
<1>2. CASE sound.note < 4
  <2>1. sound' = [sound EXCEPT !.round = @, !.running = TRUE, !.note = @, !.next = "on"]
    <3>1. ~(sound.note >= 4)
      BY <1>1, <1>2
    <3> QED BY <3>1, Zenon DEF P!NoteOff, P!Notes
  <2>2. sound' = [note |-> sound.note, round |-> sound.round, running |-> TRUE,
                  next |-> "on", played |-> sound.played, plays |-> sound.plays]
    BY <1>1, <2>1 DEF Sound
  <2> QED BY <1>1, <1>2, <2>2 DEF Melody, Sound
<1>3. CASE sound.note = 4 /\ sound.round # 2
  <2>1. sound' = [sound EXCEPT !.round = @ + 1, !.running = TRUE, !.note = 0, !.next = "on"]
    <3>1. sound.note >= 4 /\ sound.round + 1 # 3
      BY <1>1, <1>3
    <3> QED BY <3>1, Zenon DEF P!NoteOff, P!Notes, P!TotalRounds
  <2>2. sound' = [note |-> 0, round |-> sound.round + 1, running |-> TRUE,
                  next |-> "on", played |-> sound.played, plays |-> sound.plays]
    BY <1>1, <2>1 DEF Sound
  <2> QED BY <1>1, <1>3, <2>2 DEF Melody, Sound
<1>4. CASE sound.note = 4 /\ sound.round = 2
  <2>1. sound' = [sound EXCEPT !.round = @ + 1, !.running = FALSE, !.note = @, !.next = "none"]
    <3>1. sound.note >= 4 /\ sound.round + 1 = 3
      BY <1>1, <1>4
    <3> QED BY <3>1, Zenon DEF P!NoteOff, P!Notes, P!TotalRounds
  <2>2. sound' = [note |-> sound.note, round |-> sound.round + 1, running |-> FALSE,
                  next |-> "none", played |-> sound.played, plays |-> sound.plays]
    BY <1>1, <2>1 DEF Sound
  <2>3. Len(sound.played) = 12
    BY <1>1, <1>4
  <2>4. /\ sound.round + 1 \in 0 .. 3 /\ sound.note \in 0 .. 4
        /\ sound.played \in Seq(0 .. 3) /\ sound.plays \in Nat
    BY <1>1 DEF Sound
  <2>5. sound' \in Sound
    BY <2>2, <2>4 DEF Sound
  <2>6. /\ ~sound'.running /\ sound'.next = "none" /\ sound'.played = sound.played
        /\ sound'.plays = sound.plays
    BY <2>2
  <2> QED BY <1>1, <2>3, <2>5, <2>6 DEF Melody
<1>5. sound.note < 4 \/ sound.note = 4
  BY <1>1
<1> QED BY <1>2, <1>3, <1>4, <1>5

-----------------------------------------------------------------------------
\* A compare of TIMER1.

Ahead(t) == {c \in P!Chan : t.cc[c] > t.count}
Fires(t) == {c \in Ahead(t) : \A d \in Ahead(t) : t.cc[c] <= t.cc[d]}

LEMMA ChanNumbers == P!Chan = {0, 1, 2, 3}
BY DEF P!Chan

LEMMA OneFires ==
  ASSUME NEW t \in Timer1, Ahead(t) # {}
  PROVE  Fires(t) # {}
<1>1. \A c \in {0, 1, 2, 3} : t.cc[c] \in Nat
  BY ChanNumbers DEF Timer1
<1>2. Ahead(t) \subseteq {0, 1, 2, 3}
  BY ChanNumbers DEF Ahead
<1> DEFINE a == Ahead(t)
           least(c) == c \in a /\ \A d \in a : t.cc[c] <= t.cc[d]
<1>3. PICK n \in a : TRUE
  OBVIOUS
<1>4. PICK m \in a : t.cc[m] <= t.cc[n] /\ (0 \in a => t.cc[m] <= t.cc[0])
  BY <1>1, <1>2
<1>5. PICK k \in a : t.cc[k] <= t.cc[m] /\ (1 \in a => t.cc[k] <= t.cc[1])
  BY <1>1, <1>2
<1>6. PICK j \in a : t.cc[j] <= t.cc[k] /\ (2 \in a => t.cc[j] <= t.cc[2])
  BY <1>1, <1>2
<1>7. PICK i \in a : t.cc[i] <= t.cc[j] /\ (3 \in a => t.cc[i] <= t.cc[3])
  BY <1>1, <1>2
<1>8. \A d \in a : t.cc[i] <= t.cc[d]
  <2>1. t.cc[i] \in Nat /\ t.cc[j] \in Nat /\ t.cc[k] \in Nat /\ t.cc[m] \in Nat
    BY <1>1, <1>2
  <2> QED BY <1>1, <1>2, <1>4, <1>5, <1>6, <1>7, <2>1
<1> QED BY <1>8 DEF Fires

(* The instance of Peripherals has the library's cardinality. *)
LEMMA SameCardinality == \A s : P!Cardinality(s) = Cardinality(s)
BY Zenon DEF P!Cardinality, Cardinality

LEMMA NotAll ==
  ASSUME NEW s \in SUBSET P!Chan, NEW f \in SUBSET P!Chan, Cardinality(s) < MaxLate,
         \A c, d \in f : c = d
  PROVE  s \cup f # P!Chan
<1>1. Cardinality(P!Chan) = 4 /\ IsFiniteSet(P!Chan)
  <2>1. 0 \in Int /\ 3 \in Int
    OBVIOUS
  <2>2. IsFiniteSet(0 .. 3) /\ Cardinality(0 .. 3) = IF 0 > 3 THEN 0 ELSE 3 - 0 + 1
    BY <2>1, FS_Interval, Zenon
  <2> QED BY <2>2 DEF P!Chan
<1>2. IsFiniteSet(s) /\ Cardinality(s) \in Nat
  BY <1>1, FS_Subset, FS_CardinalityType
<1>3. Cardinality(s) < 3
  BY <1>2, Constants
<1>4. SUFFICES ASSUME s \cup f = P!Chan  PROVE FALSE
  OBVIOUS
<1>5. f # {}
  BY <1>1, <1>3, <1>4
<1>6. PICK c \in f : f = {c}
  BY <1>5
<1>7. s \cup {c} = P!Chan
  BY <1>4, <1>6
<1>8. Cardinality(s \cup {c}) <= Cardinality(s) + 1
  BY <1>2, FS_AddElement
<1>9. Cardinality(P!Chan) <= Cardinality(s) + 1
  BY <1>7, <1>8, Zenon
<1> HIDE <1>4, <1>6, <1>7, <1>8
<1> QED BY <1>1, <1>2, <1>3, <1>9

LEMMA CompareInv ==
  ASSUME Separate, Inv, P!Compare
  PROVE  Inv'
<1>1. /\ t1.run /\ Ahead(t1) # {} /\ Cardinality(P!Pending) < MaxLate
      /\ t1' = [t1 EXCEPT !.events = @ \cup Fires(t1),
                   !.count = IF t1.clears /\ 0 \in Fires(t1) THEN 0
                             ELSE t1.cc[CHOOSE c \in Fires(t1) : TRUE],
                   !.run = Fires(t1) \cap t1.stops = {}]
      /\ ir' = (IF ir.ppi THEN [ir EXCEPT !.wave =
                                   Append(@, t1.cc[CHOOSE c \in Fires(t1) : TRUE])]
                ELSE ir)
      /\ UNCHANGED <<use, own, t2, timer, light, sound>>
  <2>1. UNCHANGED <<use, own, t2, timer, light, sound>>
    BY DEF P!Compare
  <2>2. P!Cardinality(P!Pending) = Cardinality(P!Pending)
    BY SameCardinality
  <2> QED BY <2>1, <2>2, Zenon DEF P!Compare, Ahead, Fires
<1>2. t1 \in Timer1 /\ ir \in Sender
  BY DEF Inv, Types
<1>3. PICK fires : fires = Fires(t1)
  OBVIOUS
<1>4. fires \subseteq P!Chan /\ fires # {} /\ fires \subseteq Ahead(t1)
  BY <1>1, <1>2, <1>3, OneFires DEF Fires, Ahead
<1>5. PICK now : now = t1.cc[CHOOSE c \in Fires(t1) : TRUE]
  OBVIOUS
<1>6. now \in Nat
  BY <1>2, <1>3, <1>4, <1>5 DEF Timer1
<1>7. PICK count \in Nat : count = IF t1.clears /\ 0 \in Fires(t1) THEN 0 ELSE now
  BY <1>6
<1>8. /\ t1' \in Timer1 /\ t1'.run = (fires \cap t1.stops = {})
      /\ t1'.events = t1.events \cup fires /\ t1'.inten = t1.inten
      /\ t1'.stops = t1.stops /\ t1'.cc = t1.cc
  <2>1. t1' = [t1 EXCEPT !.events = @ \cup fires, !.count = count,
                   !.run = fires \cap t1.stops = {}]
    BY <1>1, <1>3, <1>5, <1>7
  <2>2. t1.events \cup fires \in SUBSET P!Chan
    BY <1>2, <1>4 DEF Timer1
  <2> QED BY <1>2, <2>1, <2>2 DEF Timer1
<1>9. /\ ir' \in Sender /\ ir'.statue = ir.statue /\ ir'.stop = ir.stop
      /\ ir'.index = ir.index /\ ir'.last = ir.last /\ ir'.data = ir.data
      /\ ir'.ppi = ir.ppi
  <2>1. CASE ~ir.ppi
    BY <1>1, <1>2, <2>1
  <2>2. CASE ir.ppi
    <3>1. PICK wave : wave = Append(ir.wave, now)
      OBVIOUS
    <3>2. wave \in TimeSeq
      BY <1>2, <1>6, <3>1 DEF Sender, TimeSeq
    <3>3. ir' = [ir EXCEPT !.wave = wave]
      BY <1>1, <1>5, <2>2, <3>1
    <3> QED BY <1>2, <3>2, <3>3 DEF Sender
  <2> QED BY <2>1, <2>2
<1>10. Types'
  BY <1>1, <1>8, <1>9 DEF Inv, Types
<1>11. Hands'
  BY <1>1, <1>9 DEF Inv, Hands
<1>12. "infrared" \notin use => fires = {0}
  <2>1. "infrared" \notin use => \A c \in 1 .. 3 : t1.cc[c] = 0
    BY DEF Inv, Timing
  <2>2. t1.count \in Nat /\ \A c \in fires : t1.cc[c] > t1.count
    BY <1>2, <1>4 DEF Timer1, Ahead
  <2>3. "infrared" \notin use => \A c \in fires : c \in 0 .. 3 /\ c \notin 1 .. 3
    <3>1. \A c \in fires : c \in 0 .. 3
      BY <1>4 DEF P!Chan
    <3> QED BY <2>1, <2>2, <3>1
  <2>4. \A c : c \in 0 .. 3 /\ c \notin 1 .. 3 => c = 0
    OBVIOUS
  <2> QED BY <1>4, <2>3, <2>4, Zenon
<1>13. Timing'
  <2>1. own[1] = "timer" => "timer" \in use /\ "infrared" \notin use
    BY DEF Separate, Inv, Types, Timing
  <2>2. ~timer'.raced => P!OneShot'
    BY <1>1 DEF Inv, Timing, Stopping, P!OneShot
  <2>3. own[1] = "timer" => IF timer.once THEN t1'.stops = {0} /\ 0 \in t1'.events
                            ELSE t1'.stops = {} /\ t1'.run
    BY <1>8, <1>12, <2>1 DEF Inv, Timing
  <2>4. "infrared" \notin use' => /\ t1'.inten \subseteq {0} /\ ir'.statue = 0 /\ ~ir'.ppi
                                  /\ \A c \in 1 .. 3 : t1'.cc[c] = 0
    BY <1>1, <1>8, <1>9 DEF Inv, Timing
  <2>5. own'[1] = "timer" => "timer" \in use' /\ 0 \in t1'.inten
    BY <1>1, <1>8 DEF Inv, Timing
  <2>6. "timer" \notin use' => ~timer'.once /\ timer'.at = 0
    BY <1>1 DEF Inv, Timing
  <2> QED BY <1>1, <2>2, <2>3, <2>4, <2>5, <2>6 DEF Timing
<1>14. Signalling'
  <2>1. ASSUME Short, ir.statue = 2  PROVE Sending(t1', ir')
    <3>1. Sending(t1, ir)
      BY <2>1 DEF Inv, Signalling
    <3>2. \A c, d \in fires : c = d
      <4>1. \A c, d \in fires : t1.cc[c] <= t1.cc[d] /\ t1.cc[c] \in Nat
        BY <1>2, <1>3, <1>4 DEF Fires, Timer1
      <4>2. \A c, d \in fires : t1.cc[c] = t1.cc[d]
        BY <4>1
      <4> QED BY <1>4, <3>1, <4>2 DEF Sending, Ring
    <3>3. P!Pending = t1.events /\ t1.events \in SUBSET P!Chan
      BY <1>2, <3>1 DEF Sending, P!Pending, Timer1
    <3>4. t1'.events # P!Chan
      BY <1>1, <1>4, <1>8, <3>2, <3>3, NotAll
    <3>5. Ring(t1', ir')
      <4>1. Ring(t1, ir) /\ t1.run
        BY <1>1, <3>1 DEF Sending
      <4>2. ir.stop # P!NoStop /\ ir.stop \in t1'.events => ~t1'.run
        BY <1>8, <4>1 DEF Ring
      <4> QED BY <1>8, <1>9, <4>1, <4>2 DEF Ring
    <3> QED BY <1>8, <1>9, <3>1, <3>4, <3>5 DEF Sending
  <2> QED BY <1>1, <1>9, <2>1 DEF Inv, Signalling
<1> QED BY <1>1, <1>10, <1>11, <1>13, <1>14, SamePainting DEF Inv


-----------------------------------------------------------------------------
\* The toggles of a signal, and what ConfigChan does to the record of a handler.

LEMMA LongestIsLongest ==
  ASSUME Short
  PROVE  Longest \in Nat /\ Fits(Longest)
BY DEF Short, Longest

LEMMA Halves ==
  ASSUME NEW i \in Nat
  PROVE  /\ i \div 2 \in Nat /\ i % 2 \in 0 .. 1
         /\ \A n \in Nat : i \div 2 >= n <=> i >= 2 * n
OBVIOUS

LEMMA ToggleBounds ==
  ASSUME Short, NEW r \in Sender, r.data \in Signals
  PROVE  /\ P!Toggle(r) \in Nat /\ P!Toggle(r) <= Longest
         /\ P!Toggle(r) # 0 <=> r.index < 2 * Len(r.data)
<1>1. /\ r.index \in Nat /\ r.data \in Seq({0, 1}) /\ Len(r.data) \in Nat
      /\ \A i \in 1 .. 2 : /\ Config.one[i] \in Nat \ {0} /\ Config.zero[i] \in Nat \ {0}
                           /\ Config.one[i] <= Longest /\ Config.zero[i] <= Longest
      /\ Longest \in Nat
  BY Constants, LongestIsLongest DEF Sender, BitSeq, Fits
<1>2. PICK bit, half : bit = r.index \div 2 /\ half = r.index % 2
  OBVIOUS
<1>3. bit \in Nat /\ half \in 0 .. 1 /\ (bit >= Len(r.data) <=> r.index >= 2 * Len(r.data))
  BY <1>1, <1>2, Halves
<1>4. CASE bit >= Len(r.data)
  <2>1. P!Toggle(r) = 0
    BY <1>2, <1>4, Zenon DEF P!Toggle
  <2> QED BY <1>1, <1>3, <1>4, <2>1
<1>5. CASE bit < Len(r.data)
  <2>1. ~(bit >= Len(r.data))
    BY <1>1, <1>3, <1>5
  <2>2. P!Toggle(r) = (IF r.data[bit + 1] = 1 THEN Config.one ELSE Config.zero)[half + 1]
    BY <1>2, <2>1, Zenon DEF P!Toggle
  <2>3. half + 1 \in 1 .. 2
    BY <1>3
  <2>4. P!Toggle(r) = Config.one[half + 1] \/ P!Toggle(r) = Config.zero[half + 1]
    BY <2>2, Zenon
  <2>5. P!Toggle(r) \in Nat \ {0} /\ P!Toggle(r) <= Longest
    BY <1>1, <2>3, <2>4
  <2> QED BY <1>1, <1>3, <1>5, <2>5
<1> QED BY <1>1, <1>3, <1>4, <1>5

States == [own : Holders, t1 : Timer1, t2 : Timer2, ir : Sender]
Both(who) == <<who, who>>

LEMMA StatueOf ==
  ASSUME NEW r \in Sender, NEW v \in 0 .. 2, NEW m, m = [r EXCEPT !.statue = v]
  PROVE  /\ m \in Sender /\ m.statue = v /\ m.stop = r.stop /\ m.index = r.index
         /\ m.data = r.data /\ m.wave = r.wave /\ m.ppi = r.ppi /\ m.pins = r.pins
BY DEF Sender

Serves(r, s, c) == r = P!ConfigChan(s, c)
Clears(r, s, c) == r = [s EXCEPT !.t1.events = @ \ {c}]
NextAt(at, r) == at = (r.last + P!Toggle(r)) % Width
EndAt(at, r) == at = (r.last + Config.end) % Width

Loaded(m, r, data) == m = [r EXCEPT !.data = data, !.index = 0, !.wave = <<>>]

LEMMA DataOf ==
  ASSUME NEW r \in Sender, NEW data \in BitSeq,
         NEW m, Loaded(m, r, data)
  PROVE  /\ m \in Sender /\ m.data = data /\ m.index = 0 /\ m.statue = r.statue
         /\ m.stop = r.stop /\ m.ppi = r.ppi /\ m.wave = <<>>
<1>1. <<>> \in TimeSeq
  BY DEF TimeSeq
<1> QED BY <1>1 DEF Sender, Loaded

(* The channel that stops the send: the timers are given back. *)
LEMMA StopChan ==
  ASSUME NEW s \in States, NEW c \in P!Chan, s.ir.stop = c,
         NEW r, Serves(r, s, c)
  PROVE  /\ r \in States /\ r.own = Both("free") /\ r.t1 = s.t1
         /\ r.ir.statue = 1 /\ r.ir.stop = P!NoStop
         /\ r.ir.index = s.ir.index /\ r.ir.data = s.ir.data
         /\ r.ir.wave = s.ir.wave /\ r.ir.ppi = s.ir.ppi /\ r.ir.pins = "in"
<1>1. r = [P!PwmStop(s) EXCEPT !.ir.stop = P!NoStop]
  BY DEF P!ConfigChan, Serves
<1>2. PICK off : off = [s.t2 EXCEPT !.run = FALSE]
  OBVIOUS
<1>3. PICK ir0 : ir0 = [s.ir EXCEPT !.pins = "in"]
  OBVIOUS
<1>4. PICK ir1 : ir1 = [ir0 EXCEPT !.statue = 1]
  OBVIOUS
<1>5. PICK ir2 : ir2 = [ir1 EXCEPT !.stop = P!NoStop]
  OBVIOUS
<1>6. s.own \in Holders /\ s.t1 \in Timer1 /\ s.t2 \in Timer2 /\ s.ir \in Sender
      /\ s = [own |-> s.own, t1 |-> s.t1, t2 |-> s.t2, ir |-> s.ir]
  BY DEF States
<1>7. PICK a : a = P!ShockStop(s)
  OBVIOUS
<1>8. a = [own |-> s.own, t1 |-> s.t1, t2 |-> off, ir |-> ir0]
  <2>1. a = [s EXCEPT !.t2.run = FALSE, !.ir.pins = "in"]
    BY <1>7 DEF P!ShockStop
  <2> QED BY <1>2, <1>3, <1>6, <2>1
<1>9. r = [own |-> Both("free"), t1 |-> s.t1, t2 |-> off, ir |-> ir2]
  <2>1. PICK b : b = [a EXCEPT !.own = Both("free"), !.ir.statue = 1]
    OBVIOUS
  <2>2. b = P!PwmStop(s)
    BY <1>7, <2>1 DEF P!PwmStop, P!InfraredStop, Both
  <2>3. b = [own |-> Both("free"), t1 |-> s.t1, t2 |-> off, ir |-> ir1]
    BY <1>4, <1>8, <2>1
  <2>4. r = [b EXCEPT !.ir.stop = P!NoStop]
    BY <1>1, <2>2
  <2> QED BY <1>5, <2>3, <2>4
<1>10. off \in Timer2
  BY <1>2, <1>6 DEF Timer2
<1>11. /\ ir2 \in Sender /\ ir2.statue = 1 /\ ir2.stop = P!NoStop
       /\ ir2.index = s.ir.index /\ ir2.data = s.ir.data
       /\ ir2.wave = s.ir.wave /\ ir2.ppi = s.ir.ppi /\ ir2.pins = "in"
  <2>1. /\ ir0 \in Sender /\ ir0.index = s.ir.index /\ ir0.data = s.ir.data
        /\ ir0.wave = s.ir.wave /\ ir0.ppi = s.ir.ppi /\ ir0.pins = "in"
    BY <1>3, <1>6 DEF Sender
  <2>2. /\ ir1 \in Sender /\ ir1.statue = 1
        /\ ir1.index = s.ir.index /\ ir1.data = s.ir.data
        /\ ir1.wave = s.ir.wave /\ ir1.ppi = s.ir.ppi /\ ir1.pins = "in"
    BY <1>4, <2>1, StatueOf
  <2>3. PICK stop \in P!Chan \cup {P!NoStop} : stop = P!NoStop
    OBVIOUS
  <2>4. ir2 = [ir1 EXCEPT !.stop = stop]
    BY <1>5, <2>3
  <2>5. ir2 \in Sender /\ ir2.stop = stop
    BY <2>2, <2>4 DEF Sender
  <2>6. /\ ir2.statue = 1 /\ ir2.index = ir1.index /\ ir2.data = ir1.data
        /\ ir2.wave = ir1.wave /\ ir2.ppi = ir1.ppi /\ ir2.pins = ir1.pins
    BY <2>2, <2>4 DEF Sender
  <2> QED BY <2>2, <2>3, <2>5, <2>6
<1>12. Both("free") \in Holders
  BY DEF Both, Holders, Holder
<1> QED BY <1>6, <1>9, <1>10, <1>11, <1>12 DEF States

(* The next toggle. *)
LEMMA NextChan ==
  ASSUME NEW s \in States, NEW c \in P!Chan, s.ir.stop = P!NoStop, P!Toggle(s.ir) # 0,
         NEW at \in Nat, NextAt(at, s.ir),
         NEW r, Serves(r, s, c)
  PROVE  /\ r \in States /\ r.own = s.own /\ r.t2 = s.t2
         /\ Gives(r.t1.cc, s.t1.cc, c, at)
         /\ r.t1.events = s.t1.events /\ r.t1.inten = s.t1.inten
         /\ r.t1.stops = s.t1.stops /\ r.t1.run = s.t1.run
         /\ r.ir.statue = s.ir.statue /\ r.ir.stop = P!NoStop /\ r.ir.last = at
         /\ r.ir.index = s.ir.index + 1 /\ r.ir.data = s.ir.data
         /\ r.t1.count = s.t1.count /\ r.t1.clears = s.t1.clears
         /\ r.ir.wave = s.ir.wave /\ r.ir.ppi = s.ir.ppi /\ r.ir.pins = s.ir.pins
<1>1. s.ir.stop # c
  BY DEF P!Chan, P!NoStop
<1>2. r = [s EXCEPT !.t1.cc[c] = at, !.ir.last = at, !.ir.index = @ + 1]
  BY <1>1, Zenon DEF P!ConfigChan, Serves, NextAt, EndAt
<1>3. s.own \in Holders /\ s.t1 \in Timer1 /\ s.t2 \in Timer2 /\ s.ir \in Sender
      /\ s = [own |-> s.own, t1 |-> s.t1, t2 |-> s.t2, ir |-> s.ir]
  BY DEF States
<1>4. PICK cc : cc = [s.t1.cc EXCEPT ![c] = at]
  OBVIOUS
<1>5. PICK t1x : t1x = [s.t1 EXCEPT !.cc = cc]
  OBVIOUS
<1>6. PICK irx : irx = [s.ir EXCEPT !.last = at, !.index = s.ir.index + 1]
  OBVIOUS
<1>7. r = [own |-> s.own, t1 |-> t1x, t2 |-> s.t2, ir |-> irx]
  BY <1>2, <1>3, <1>4, <1>5, <1>6
<1>8. cc \in [P!Chan -> Nat]
  BY <1>3, <1>4 DEF Timer1
<1>9. /\ t1x \in Timer1 /\ t1x.cc = cc /\ t1x.events = s.t1.events
      /\ t1x.inten = s.t1.inten /\ t1x.stops = s.t1.stops /\ t1x.run = s.t1.run
      /\ t1x.count = s.t1.count /\ t1x.clears = s.t1.clears
  BY <1>3, <1>5, <1>8 DEF Timer1
<1>10. /\ irx \in Sender /\ irx.statue = s.ir.statue /\ irx.stop = P!NoStop
       /\ irx.last = at /\ irx.index = s.ir.index + 1 /\ irx.data = s.ir.data
       /\ irx.wave = s.ir.wave /\ irx.ppi = s.ir.ppi /\ irx.pins = s.ir.pins
  <2>1. PICK next \in Nat : next = s.ir.index + 1
    BY <1>3 DEF Sender
  <2>2. irx = [s.ir EXCEPT !.last = at, !.index = next]
    BY <1>6, <2>1
  <2>3. irx \in Sender /\ irx.index = next
    BY <1>3, <2>2 DEF Sender
  <2>4. irx.statue = s.ir.statue /\ irx.stop = P!NoStop /\ irx.last = at
        /\ irx.data = s.ir.data
        /\ irx.wave = s.ir.wave /\ irx.ppi = s.ir.ppi /\ irx.pins = s.ir.pins
    BY <1>3, <2>2 DEF Sender
  <2> QED BY <2>1, <2>3, <2>4
<1>11. Gives(cc, s.t1.cc, c, at)
  BY <1>4 DEF Gives
<1> QED BY <1>3, <1>7, <1>9, <1>10, <1>11 DEF States

(* After the last toggle: the end of the signal, which stops the timer. *)
LEMMA LastChan ==
  ASSUME NEW s \in States, NEW c \in P!Chan, s.ir.stop = P!NoStop, P!Toggle(s.ir) = 0,
         NEW at \in Nat, EndAt(at, s.ir),
         NEW r, Serves(r, s, c)
  PROVE  /\ r \in States /\ r.own = s.own /\ r.t2 = s.t2
         /\ Gives(r.t1.cc, s.t1.cc, c, at)
         /\ r.t1.events = s.t1.events /\ r.t1.inten = s.t1.inten
         /\ r.t1.stops = s.t1.stops \cup {c} /\ r.t1.run = s.t1.run
         /\ r.ir.statue = s.ir.statue /\ r.ir.stop = c
         /\ r.ir.index = 0 /\ r.ir.data = s.ir.data
         /\ r.t1.count = s.t1.count /\ r.t1.clears = s.t1.clears
         /\ r.ir.wave = s.ir.wave /\ r.ir.ppi = s.ir.ppi /\ r.ir.pins = s.ir.pins
<1>1. s.ir.stop # c
  BY DEF P!Chan, P!NoStop
<1>2. r = [s EXCEPT !.t1.cc[c] = at, !.t1.stops = @ \cup {c}, !.ir.stop = c, !.ir.index = 0]
  BY <1>1, Zenon DEF P!ConfigChan, Serves, NextAt, EndAt
<1>3. s.own \in Holders /\ s.t1 \in Timer1 /\ s.t2 \in Timer2 /\ s.ir \in Sender
      /\ s = [own |-> s.own, t1 |-> s.t1, t2 |-> s.t2, ir |-> s.ir]
  BY DEF States
<1>4. PICK cc : cc = [s.t1.cc EXCEPT ![c] = at]
  OBVIOUS
<1>5. PICK t1x : t1x = [s.t1 EXCEPT !.cc = cc, !.stops = s.t1.stops \cup {c}]
  OBVIOUS
<1>6. PICK irx : irx = [s.ir EXCEPT !.stop = c, !.index = 0]
  OBVIOUS
<1>7. r = [own |-> s.own, t1 |-> t1x, t2 |-> s.t2, ir |-> irx]
  BY <1>2, <1>3, <1>4, <1>5, <1>6
<1>8. cc \in [P!Chan -> Nat] /\ s.t1.stops \cup {c} \in SUBSET P!Chan
  BY <1>3, <1>4 DEF Timer1
<1>9. /\ t1x \in Timer1 /\ t1x.cc = cc /\ t1x.events = s.t1.events
      /\ t1x.inten = s.t1.inten /\ t1x.stops = s.t1.stops \cup {c} /\ t1x.run = s.t1.run
      /\ t1x.count = s.t1.count /\ t1x.clears = s.t1.clears
  BY <1>3, <1>5, <1>8 DEF Timer1
<1>10. /\ irx \in Sender /\ irx.statue = s.ir.statue /\ irx.stop = c
       /\ irx.index = 0 /\ irx.data = s.ir.data
       /\ irx.wave = s.ir.wave /\ irx.ppi = s.ir.ppi /\ irx.pins = s.ir.pins
  BY <1>3, <1>6 DEF Sender
<1>11. Gives(cc, s.t1.cc, c, at)
  BY <1>4 DEF Gives
<1> QED BY <1>3, <1>7, <1>9, <1>10, <1>11 DEF States


(* Whatever it does, it keeps what the other channels wait for. *)
LEMMA ConfigChanFrame ==
  ASSUME Short, NEW s \in States, s.ir.data \in Signals, NEW c \in P!Chan,
         NEW r, Serves(r, s, c)
  PROVE  /\ r \in States /\ r.ir.data = s.ir.data
         /\ r.t1.inten = s.t1.inten /\ r.t1.events = s.t1.events
<1>1. /\ s.ir \in Sender /\ s.ir.last \in Nat /\ Config.end \in Nat /\ Width \in Nat \ {0}
  BY Constants DEF States, Sender
<1>2. P!Toggle(s.ir) \in Nat
  BY <1>1, ToggleBounds
<1>3. CASE s.ir.stop = c
  BY <1>3, StopChan
<1>4. CASE s.ir.stop # c /\ s.ir.stop # P!NoStop
  <2>1. r = s
    BY <1>4, Zenon DEF P!ConfigChan, Serves
  <2> QED BY <2>1
<1>5. CASE s.ir.stop = P!NoStop /\ P!Toggle(s.ir) # 0
  <2>1. PICK at \in Nat : NextAt(at, s.ir)
    BY <1>1, <1>2 DEF NextAt, EndAt
  <2>2. /\ r \in States /\ r.ir.data = s.ir.data
        /\ r.t1.inten = s.t1.inten /\ r.t1.events = s.t1.events
    <3>1. s.ir.stop = P!NoStop /\ P!Toggle(s.ir) # 0 /\ NextAt(at, s.ir)
      BY <1>5, <2>1
    <3> QED BY <3>1, NextChan
  <2> QED BY <2>2
<1>6. CASE s.ir.stop = P!NoStop /\ P!Toggle(s.ir) = 0
  <2>1. PICK at \in Nat : EndAt(at, s.ir)
    BY <1>1 DEF NextAt, EndAt
  <2>2. /\ r \in States /\ r.ir.data = s.ir.data
        /\ r.t1.inten = s.t1.inten /\ r.t1.events = s.t1.events
    <3>1. s.ir.stop = P!NoStop /\ P!Toggle(s.ir) = 0 /\ EndAt(at, s.ir)
      BY <1>6, <2>1
    <3> QED BY <3>1, LastChan
  <2> QED BY <2>2
<1> QED BY <1>3, <1>4, <1>5, <1>6

LEMMA ProductGrows ==
  ASSUME NEW a \in Nat, NEW b \in Nat, NEW k \in Nat, a <= b
  PROVE  a * k <= b * k
<1>1. PICK d \in Nat : b = a + d
  <2>1. b - a \in Nat /\ b = a + (b - a)
    OBVIOUS
  <2> QED BY <2>1
<1>2. b * k = a * k + d * k /\ d * k \in Nat /\ a * k \in Nat
  BY <1>1
<1> QED BY <1>2

(* The times of a signal do not wrap. *)
LEMMA NoWrap ==
  ASSUME Short, NEW d \in Signals, NEW index \in Nat, NEW last \in Nat,
         last <= Lead + index * Longest
  PROVE  /\ \A v \in Nat : v <= Longest /\ index < 2 * Len(d) =>
               /\ (last + v) % Width = last + v
               /\ last + v <= Lead + (index + 1) * Longest
         /\ index <= 2 * Len(d) => (last + Config.end) % Width = last + Config.end
<1>1. /\ Longest \in Nat /\ Len(d) \in Nat /\ Lead \in Nat /\ Width \in Nat \ {0}
      /\ Config.end \in Nat \ {0}
      /\ Lead + 2 * Len(d) * Longest + Config.end < Width
  BY Constants, LongestIsLongest DEF Fits
<1>2. \A v, w \in Nat : w # 0 /\ v < w => v % w = v
  OBVIOUS
<1>3. PICK n \in Nat : n = 2 * Len(d)
  BY <1>1
<1>4. /\ index * Longest \in Nat /\ n * Longest \in Nat /\ (index + 1) * Longest \in Nat
      /\ (index + 1) * Longest = index * Longest + Longest
  BY <1>1
<1>5. Lead + n * Longest + Config.end < Width
  BY <1>1, <1>3
<1>6. ASSUME NEW v \in Nat, v <= Longest, index < n
      PROVE  (last + v) % Width = last + v /\ last + v <= Lead + (index + 1) * Longest
  <2>1. (index + 1) * Longest <= n * Longest
    BY <1>1, <1>6, ProductGrows
  <2>2. last + v <= Lead + (index + 1) * Longest
    BY <1>1, <1>4, <1>6
  <2>3. last + v < Width /\ last + v \in Nat
    BY <1>1, <1>4, <1>5, <2>1, <2>2
  <2> QED BY <1>1, <1>2, <2>2, <2>3
<1>7. ASSUME index <= n
      PROVE  (last + Config.end) % Width = last + Config.end
  <2>1. index * Longest <= n * Longest
    BY <1>1, <1>7, ProductGrows
  <2>2. last + Config.end < Width /\ last + Config.end \in Nat
    BY <1>1, <1>4, <1>5, <2>1
  <2> QED BY <1>1, <1>2, <2>2
<1> QED BY <1>3, <1>6, <1>7

LEMMA FirstToggle ==
  ASSUME Short, NEW d \in Signals, NEW last \in Nat, last = Lead
  PROVE  \A v \in Nat : v <= Longest =>
            (last + v) % Width = last + v /\ last + v <= Lead + 1 * Longest
<1>1. PICK index \in Nat : index = 0
  OBVIOUS
<1>2. /\ Longest \in Nat /\ Lead \in Nat /\ Len(d) \in Nat /\ Len(d) > 0
      /\ index * Longest = 0 /\ index + 1 = 1
  BY <1>1, LongestIsLongest, Constants
<1>3. last <= Lead + index * Longest /\ index < 2 * Len(d)
  BY <1>1, <1>2
<1>4. \A v \in Nat : v <= Longest /\ index < 2 * Len(d) =>
         /\ (last + v) % Width = last + v
         /\ last + v <= Lead + (index + 1) * Longest
  BY <1>3, NoWrap, Zenon
<1> QED BY <1>2, <1>3, <1>4, Zenon

(* A later time for one channel keeps every channel's time its own. *)
LEMMA Later ==
  ASSUME NEW cc \in [P!Chan -> Nat], NEW c \in P!Chan, NEW at \in Nat, NEW last \in Nat,
         \A d, e \in P!Chan : d # e => cc[d] # cc[e],
         \A d \in P!Chan : cc[d] <= last, last < at,
         NEW dd, Gives(dd, cc, c, at)
  PROVE  /\ \A d, e \in P!Chan : d # e => dd[d] # dd[e]
         /\ \A d \in P!Chan : dd[d] <= at
<1>1. \A d \in P!Chan : dd[d] = IF d = c THEN at ELSE cc[d]
  BY DEF Gives
<1>2. \A d \in P!Chan : cc[d] \in Nat /\ cc[d] < at
  OBVIOUS
<1>3. \A d \in P!Chan : dd[d] <= at
  BY <1>1, <1>2
<1>4. ASSUME NEW d \in P!Chan, NEW e \in P!Chan, d # e  PROVE dd[d] # dd[e]
  BY <1>1, <1>2, <1>4
<1> QED BY <1>3, <1>4


-----------------------------------------------------------------------------
\* The handler of the sender, channel by channel.

(* A send that is over when channel c is reached: the channels not served yet *)
(* load fewer toggles than the shortest signal has.                           *)
Few(s, c) ==
    /\ c = 1 => s.ir.index = 0 /\ ~({1, 2, 3} \subseteq s.t1.events)
    /\ c = 2 => s.ir.index = 0 \/ (s.ir.index = 1 /\ ~({2, 3} \subseteq s.t1.events))
    /\ c = 3 => s.ir.index <= 1 \/ 3 \notin s.t1.events

Sends(s) == s.own = Both("infrared") /\ s.ir.statue = 2 /\ Ring(s.t1, s.ir)
            /\ s.t1.events # P!Chan
Ended(s, c) == /\ s.own = Both("free") /\ s.ir.statue = 1 /\ s.ir.stop = P!NoStop
               /\ ~s.t1.run /\ c # 0 /\ Few(s, c)

Turn(s, c) == /\ s \in States /\ s.t1.inten = P!Chan /\ s.ir.data \in Signals
              /\ \A d \in P!Chan : d < c => d \notin s.t1.events
              /\ Sends(s) \/ Ended(s, c)

LEMMA Cleared ==
  ASSUME NEW s \in States, NEW c \in P!Chan, NEW r, Clears(r, s, c)
  PROVE  /\ r \in States /\ r.own = s.own /\ r.t2 = s.t2 /\ r.ir = s.ir
         /\ r.t1.events = s.t1.events \ {c} /\ r.t1.cc = s.t1.cc
         /\ r.t1.inten = s.t1.inten /\ r.t1.stops = s.t1.stops /\ r.t1.run = s.t1.run
         /\ r.t1.count = s.t1.count /\ r.t1.clears = s.t1.clears
<1>1. s.own \in Holders /\ s.t1 \in Timer1 /\ s.t2 \in Timer2 /\ s.ir \in Sender
      /\ s = [own |-> s.own, t1 |-> s.t1, t2 |-> s.t2, ir |-> s.ir]
  BY DEF States
<1>2. PICK t : t = [s.t1 EXCEPT !.events = s.t1.events \ {c}]
  OBVIOUS
<1>3. r = [own |-> s.own, t1 |-> t, t2 |-> s.t2, ir |-> s.ir]
  BY <1>1, <1>2 DEF Clears
<1>4. /\ t \in Timer1 /\ t.events = s.t1.events \ {c} /\ t.cc = s.t1.cc
      /\ t.inten = s.t1.inten /\ t.stops = s.t1.stops /\ t.run = s.t1.run
      /\ t.count = s.t1.count /\ t.clears = s.t1.clears
  <2>1. s.t1.events \ {c} \in SUBSET P!Chan
    BY <1>1 DEF Timer1
  <2> QED BY <1>1, <1>2, <2>1 DEF Timer1
<1> QED BY <1>1, <1>3, <1>4 DEF States

(* A channel served while the send is on. *)
LEMMA SendsTurn ==
  ASSUME Short, NEW c \in P!Chan, NEW s, Turn(s, c), Sends(s), c \in s.t1.events,
         NEW q, Clears(q, s, c), NEW r, Serves(r, q, c)
  PROVE  Sends(r) \/ Ended(r, c + 1)
<1>1. /\ s \in States /\ s.ir.data \in Signals /\ Ring(s.t1, s.ir)
      /\ s.own = Both("infrared") /\ s.ir.statue = 2 /\ s.t1.events # P!Chan
      /\ \A d \in P!Chan : d < c => d \notin s.t1.events
  BY DEF Turn, Sends
<1>2. /\ q \in States /\ q.own = s.own /\ q.ir = s.ir
      /\ q.t1.events = s.t1.events \ {c} /\ q.t1.cc = s.t1.cc
      /\ q.t1.stops = s.t1.stops /\ q.t1.run = s.t1.run
  BY <1>1, Cleared
<1>3. /\ s.t1 \in Timer1 /\ s.t1.cc \in [P!Chan -> Nat] /\ s.t1.events \in SUBSET P!Chan
      /\ s.ir \in Sender /\ s.ir.last \in Nat /\ s.ir.index \in Nat
      /\ Len(s.ir.data) \in Nat /\ Config.end \in Nat \ {0}
  BY <1>1, Constants DEF States, Timer1, Sender
<1>4. CASE s.ir.stop = c
  <2>1. /\ r.own = Both("free") /\ r.t1 = q.t1 /\ r.ir.statue = 1
        /\ r.ir.stop = P!NoStop /\ r.ir.index = s.ir.index
    BY <1>2, <1>4, StopChan
  <2>2. s.ir.index = 0 /\ ~s.t1.run
    BY <1>1, <1>4 DEF Ring, P!Chan, P!NoStop
  <2>3. c = 0 => ~({1, 2, 3} \subseteq s.t1.events)
    BY <1>1, <1>3, ChanNumbers
  <2>4. Few(r, c + 1)
    <3>1. c \in 0 .. 3 /\ r.ir.index = 0
      BY <2>1, <2>2 DEF P!Chan
    <3>2. c + 1 = 1 => ~({1, 2, 3} \subseteq r.t1.events)
      BY <1>2, <2>1, <2>3, <3>1
    <3> QED BY <3>1, <3>2 DEF Few
  <2>5. c + 1 # 0
    BY DEF P!Chan
  <2> QED BY <1>2, <2>1, <2>2, <2>4, <2>5 DEF Ended
<1>5. CASE s.ir.stop # c /\ s.ir.stop # P!NoStop
  <2>1. r = q
    BY <1>2, <1>5, Zenon DEF P!ConfigChan, Serves
  <2>2. Ring(q.t1, q.ir)
    BY <1>1, <1>2 DEF Ring
  <2> QED BY <1>1, <1>2, <2>1, <2>2 DEF Sends
<1>6. CASE s.ir.stop = P!NoStop /\ P!Toggle(s.ir) # 0
  <2>1. /\ P!Toggle(s.ir) \in Nat /\ P!Toggle(s.ir) <= Longest
        /\ s.ir.index < 2 * Len(s.ir.data)
    BY <1>1, <1>3, <1>6, ToggleBounds
  <2>2. s.ir.last <= Lead + s.ir.index * Longest /\ s.t1.stops = {}
        /\ \A d \in P!Chan : s.t1.cc[d] <= s.ir.last
    BY <1>1, <1>6 DEF Ring
  <2>3. PICK at \in Nat : at = s.ir.last + P!Toggle(s.ir)
    BY <1>3, <2>1
  <2>4. (s.ir.last + P!Toggle(s.ir)) % Width = at
        /\ at <= Lead + (s.ir.index + 1) * Longest
    <3>1. PICK v \in Nat : v = P!Toggle(s.ir)
      BY <2>1
    <3>2. \A w \in Nat : w <= Longest /\ s.ir.index < 2 * Len(s.ir.data) =>
               /\ (s.ir.last + w) % Width = s.ir.last + w
               /\ s.ir.last + w <= Lead + (s.ir.index + 1) * Longest
      BY <1>1, <1>3, <2>2, NoWrap
    <3>3. v <= Longest /\ at = s.ir.last + v
      BY <2>1, <2>3, <3>1
    <3>4. /\ (s.ir.last + v) % Width = s.ir.last + v
          /\ s.ir.last + v <= Lead + (s.ir.index + 1) * Longest
      BY <2>1, <3>2, <3>3
    <3>5. (s.ir.last + P!Toggle(s.ir)) % Width = at
      BY <3>1, <3>3, <3>4
    <3> QED BY <3>3, <3>4, <3>5
  <2>5. s.ir.last < at
    BY <1>3, <1>6, <2>1, <2>3
  <2>6. /\ r.own = s.own /\ Gives(r.t1.cc, s.t1.cc, c, at)
        /\ r.t1.events = s.t1.events \ {c} /\ r.t1.stops = {}
        /\ r.ir.statue = 2 /\ r.ir.stop = P!NoStop /\ r.ir.last = at
        /\ r.ir.index = s.ir.index + 1 /\ r.ir.data = s.ir.data
    <3>1. q.ir.stop = P!NoStop /\ P!Toggle(q.ir) # 0
          /\ NextAt(at, q.ir)
      BY <1>2, <1>6, <2>4 DEF NextAt, EndAt
    <3>2. /\ r.own = q.own /\ Gives(r.t1.cc, q.t1.cc, c, at)
          /\ r.t1.events = q.t1.events /\ r.t1.stops = q.t1.stops
          /\ r.ir.statue = q.ir.statue /\ r.ir.stop = P!NoStop /\ r.ir.last = at
          /\ r.ir.index = q.ir.index + 1 /\ r.ir.data = q.ir.data
      BY <1>2, <3>1, NextChan
    <3> QED BY <1>1, <1>2, <2>2, <3>2
  <2>7. /\ \A d, e \in P!Chan : d # e => r.t1.cc[d] # r.t1.cc[e]
        /\ \A d \in P!Chan : r.t1.cc[d] <= at
    <3>1. \A d, e \in P!Chan : d # e => s.t1.cc[d] # s.t1.cc[e]
      BY <1>1 DEF Ring
    <3> QED BY <1>3, <2>2, <2>5, <2>6, <3>1, Later
  <2>8. s.ir.index + 1 <= 2 * Len(s.ir.data)
    BY <1>3, <2>1
  <2>9. Ring(r.t1, r.ir)
    BY <2>4, <2>6, <2>7, <2>8 DEF Ring
  <2>10. r.t1.events # P!Chan
    BY <2>6
  <2> QED BY <1>1, <2>6, <2>9, <2>10 DEF Sends
<1>7. CASE s.ir.stop = P!NoStop /\ P!Toggle(s.ir) = 0
  <2>1. /\ s.ir.last <= Lead + s.ir.index * Longest /\ s.t1.stops = {}
        /\ s.ir.index <= 2 * Len(s.ir.data)
        /\ \A d \in P!Chan : s.t1.cc[d] <= s.ir.last
    BY <1>1, <1>7 DEF Ring
  <2>2. PICK at \in Nat : at = s.ir.last + Config.end
    BY <1>3
  <2>3. (s.ir.last + Config.end) % Width = at
    BY <1>1, <1>3, <2>1, <2>2, NoWrap
  <2>4. s.ir.last < at
    BY <1>3, <2>2
  <2>5. /\ r.own = s.own /\ Gives(r.t1.cc, s.t1.cc, c, at)
        /\ r.t1.events = s.t1.events \ {c} /\ r.t1.stops = {c}
        /\ r.ir.statue = 2 /\ r.ir.stop = c /\ r.ir.index = 0
    <3>1. q.ir.stop = P!NoStop /\ P!Toggle(q.ir) = 0
          /\ EndAt(at, q.ir)
      BY <1>2, <1>7, <2>3 DEF NextAt, EndAt
    <3>2. /\ r.own = q.own /\ Gives(r.t1.cc, q.t1.cc, c, at)
          /\ r.t1.events = q.t1.events /\ r.t1.stops = q.t1.stops \cup {c}
          /\ r.ir.statue = q.ir.statue /\ r.ir.stop = c /\ r.ir.index = 0
      BY <1>2, <3>1, LastChan
    <3>3. r.t1.stops = {c}
      <4>1. q.t1.stops = {}
        BY <1>2, <2>1
      <4> QED BY <3>2, <4>1
    <3>4. Gives(r.t1.cc, s.t1.cc, c, at)
      BY <1>2, <3>2, Zenon
    <3>5. r.ir.statue = 2 /\ r.own = s.own /\ r.t1.events = s.t1.events \ {c}
      BY <1>1, <1>2, <3>2
    <3> QED BY <3>2, <3>3, <3>4, <3>5, Zenon
  <2>6. \A d, e \in P!Chan : d # e => r.t1.cc[d] # r.t1.cc[e]
    <3>1. \A d, e \in P!Chan : d # e => s.t1.cc[d] # s.t1.cc[e]
      BY <1>1 DEF Ring
    <3>2. /\ \A d, e \in P!Chan : d # e => r.t1.cc[d] # r.t1.cc[e]
          /\ \A d \in P!Chan : r.t1.cc[d] <= at
      BY <1>3, <2>1, <2>4, <2>5, <3>1, Later
    <3> QED BY <3>2
  <2>7. c # P!NoStop
    BY DEF P!Chan, P!NoStop
  <2>8. Ring(r.t1, r.ir)
    BY <2>5, <2>6, <2>7 DEF Ring
  <2>9. r.t1.events # P!Chan
    BY <2>5
  <2> QED BY <1>1, <2>5, <2>8, <2>9 DEF Sends
<1> QED BY <1>4, <1>5, <1>6, <1>7


(* A channel served after the send was over: it loads one more toggle. *)
LEMMA EndedTurn ==
  ASSUME Short, NEW c \in P!Chan, NEW s, Turn(s, c), Ended(s, c), c \in s.t1.events,
         NEW q, Clears(q, s, c), NEW r, Serves(r, q, c)
  PROVE  Ended(r, c + 1)
<1>1. /\ s \in States /\ s.ir.data \in Signals /\ s.own = Both("free")
      /\ s.ir.statue = 1 /\ s.ir.stop = P!NoStop /\ ~s.t1.run /\ c # 0 /\ Few(s, c)
  BY DEF Turn, Ended
<1>2. /\ q \in States /\ q.own = s.own /\ q.ir = s.ir
      /\ q.t1.events = s.t1.events \ {c} /\ q.t1.run = s.t1.run
  BY <1>1, Cleared
<1>3. /\ s.ir \in Sender /\ s.ir.index \in Nat /\ s.ir.last \in Nat
      /\ Len(s.ir.data) \in Nat /\ Len(s.ir.data) > 0 /\ Width \in Nat \ {0}
  BY <1>1, Constants DEF States, Sender
<1>4. c \in {1, 2, 3}
  BY <1>1, ChanNumbers
<1>5. s.ir.index <= 1
  BY <1>1, <1>3, <1>4 DEF Few
<1>6. P!Toggle(s.ir) \in Nat /\ P!Toggle(s.ir) # 0
  <2>1. s.ir.index < 2 * Len(s.ir.data)
    BY <1>3, <1>5
  <2> QED BY <1>1, <1>3, <2>1, ToggleBounds
<1>7. PICK at \in Nat : NextAt(at, s.ir)
  <2>1. (s.ir.last + P!Toggle(s.ir)) % Width \in Nat
    BY <1>3, <1>6
  <2> QED BY <2>1 DEF NextAt, EndAt
<1>8. /\ r.own = Both("free") /\ r.t1.events = s.t1.events \ {c} /\ ~r.t1.run
      /\ r.ir.statue = 1 /\ r.ir.stop = P!NoStop /\ r.ir.index = s.ir.index + 1
  <2>1. /\ r.own = q.own /\ r.t1.events = q.t1.events /\ r.t1.run = q.t1.run
        /\ r.ir.statue = q.ir.statue /\ r.ir.stop = P!NoStop
        /\ r.ir.index = q.ir.index + 1
    <3>1. q.ir.stop = P!NoStop /\ P!Toggle(q.ir) # 0
          /\ NextAt(at, q.ir)
      BY <1>1, <1>2, <1>6, <1>7
    <3> QED BY <1>2, <3>1, NextChan
  <2> QED BY <1>1, <1>2, <2>1
<1>9. Few(r, c + 1)
  <2>1. CASE c = 1
    BY <1>1, <1>8, <2>1 DEF Few
  <2>2. CASE c = 2
    BY <1>1, <1>3, <1>8, <2>2 DEF Few
  <2>3. CASE c = 3
    BY <2>3 DEF Few
  <2> QED BY <1>4, <2>1, <2>2, <2>3
<1>10. c + 1 # 0
  BY <1>4
<1> QED BY <1>8, <1>9, <1>10 DEF Ended

LEMMA ServedTurn ==
  ASSUME Short, NEW c \in P!Chan, NEW s, Turn(s, c), NEW r, r = P!Served(s, c)
  PROVE  Turn(r, c + 1)
<1>1. /\ s \in States /\ s.t1.inten = P!Chan /\ s.ir.data \in Signals
      /\ \A d \in P!Chan : d < c => d \notin s.t1.events
      /\ Sends(s) \/ Ended(s, c)
  BY DEF Turn
<1>2. c \in 0 .. 3
  BY DEF P!Chan
<1>3. CASE c \notin s.t1.events
  <2>1. r = s
    BY <1>3 DEF P!Served
  <2>2. Ended(s, c) => Ended(s, c + 1)
    BY <1>1, <1>2, <1>3 DEF Ended, Few
  <2>3. \A d \in P!Chan : d < c + 1 => d \notin s.t1.events
    BY <1>1, <1>3 DEF P!Chan
  <2> QED BY <1>1, <2>1, <2>2, <2>3 DEF Turn
<1>4. CASE c \in s.t1.events
  <2>1. PICK q : Clears(q, s, c)
    BY DEF Clears
  <2>2. Serves(r, q, c)
    BY <1>4, <2>1 DEF P!Served, Serves, Clears
  <2>3. Sends(r) \/ Ended(r, c + 1)
    BY <1>1, <1>4, <2>1, <2>2, SendsTurn, EndedTurn
  <2>4. /\ q \in States /\ q.ir = s.ir /\ q.t1.events = s.t1.events \ {c}
        /\ q.t1.inten = P!Chan
    BY <1>1, <2>1, Cleared
  <2>5. /\ r \in States /\ r.ir.data = s.ir.data /\ r.t1.inten = P!Chan
        /\ r.t1.events = s.t1.events \ {c}
    <3>1. q.ir.data \in Signals /\ q.ir.data = s.ir.data
      BY <1>1, <2>4
    <3>2. /\ r \in States /\ r.ir.data = q.ir.data /\ r.t1.inten = q.t1.inten
          /\ r.t1.events = q.t1.events
      BY <2>2, <2>4, <3>1, ConfigChanFrame
    <3> QED BY <2>4, <3>1, <3>2
  <2>6. \A d \in P!Chan : d < c + 1 => d \notin r.t1.events
    BY <1>1, <2>5 DEF P!Chan
  <2> QED BY <1>1, <2>3, <2>5, <2>6 DEF Turn
<1> QED BY <1>3, <1>4

(* Whatever the times are, both timers change hands together. *)
Paired(s) == /\ s \in States
             /\ \/ s.own = Both("infrared") /\ s.ir.statue = 2
                \/ s.own = Both("free") /\ s.ir.statue = 1

LEMMA ToggleIsNat ==
  ASSUME NEW r \in Sender
  PROVE  P!Toggle(r) \in Nat
<1>1. /\ r.index \in Nat /\ r.data \in Seq({0, 1}) /\ Len(r.data) \in Nat
      /\ \A i \in 1 .. 2 : Config.one[i] \in Nat /\ Config.zero[i] \in Nat
  BY Constants DEF Sender, BitSeq
<1>2. r.index % 2 \in 0 .. 1
  BY <1>1, Halves
<1>3. (r.index % 2) + 1 \in 1 .. 2
  BY <1>2
<1>4. \/ P!Toggle(r) = 0 \/ P!Toggle(r) = Config.one[(r.index % 2) + 1]
      \/ P!Toggle(r) = Config.zero[(r.index % 2) + 1]
  BY Zenon DEF P!Toggle
<1> QED BY <1>1, <1>3, <1>4

LEMMA ConfigChanPaired ==
  ASSUME NEW s, Paired(s), NEW c \in P!Chan, NEW r, Serves(r, s, c)
  PROVE  Paired(r)
<1>1. /\ s \in States /\ s.ir \in Sender /\ s.ir.last \in Nat
      /\ Config.end \in Nat /\ Width \in Nat \ {0}
  BY Constants DEF Paired, States, Sender
<1>2. P!Toggle(s.ir) \in Nat
  BY <1>1, ToggleIsNat
<1>3. CASE s.ir.stop = c
  <2>1. r \in States /\ r.own = Both("free") /\ r.ir.statue = 1
    BY <1>1, <1>3, StopChan
  <2> QED BY <2>1 DEF Paired
<1>4. CASE s.ir.stop # c /\ s.ir.stop # P!NoStop
  <2>1. r = s
    BY <1>4, Zenon DEF P!ConfigChan, Serves
  <2> QED BY <2>1
<1>5. CASE s.ir.stop = P!NoStop /\ P!Toggle(s.ir) # 0
  <2>1. PICK at \in Nat : NextAt(at, s.ir)
    BY <1>1, <1>2 DEF NextAt
  <2>2. r \in States /\ r.own = s.own /\ r.ir.statue = s.ir.statue
    BY <1>1, <1>5, <2>1, NextChan
  <2> QED BY <2>2 DEF Paired
<1>6. CASE s.ir.stop = P!NoStop /\ P!Toggle(s.ir) = 0
  <2>1. PICK at \in Nat : EndAt(at, s.ir)
    BY <1>1 DEF EndAt
  <2>2. r \in States /\ r.own = s.own /\ r.ir.statue = s.ir.statue
    BY <1>1, <1>6, <2>1, LastChan
  <2> QED BY <2>2 DEF Paired
<1> QED BY <1>3, <1>4, <1>5, <1>6

LEMMA ServedPaired ==
  ASSUME NEW c \in P!Chan, NEW s, Paired(s), NEW r, r = P!Served(s, c)
  PROVE  Paired(r)
<1>1. CASE c \notin s.t1.events
  <2>1. r = s
    BY <1>1 DEF P!Served
  <2> QED BY <2>1
<1>2. CASE c \in s.t1.events
  <2>1. PICK q : Clears(q, s, c)
    BY DEF Clears
  <2>2. Serves(r, q, c)
    BY <1>2, <2>1 DEF P!Served, Serves, Clears
  <2>3. Paired(q)
    <3>1. q \in States /\ q.own = s.own /\ q.ir = s.ir
      BY <2>1, Cleared DEF Paired
    <3> QED BY <3>1 DEF Paired
  <2> QED BY <2>2, <2>3, ConfigChanPaired
<1> QED BY <1>1, <1>2

(* What a handler leaves behind: a send that goes on, or timers given back. *)
Settled(s) ==
    /\ s.ir.statue = 2 => Sending(s.t1, s.ir)
    /\ s.ir.statue = 1 => s.ir.stop = P!NoStop /\ ~s.t1.run /\ s.t1.events = {}

LEMMA SenderFrame ==
  ASSUME Separate, Inv, "infrared" \in use, own[1] # "timer", own[2] # "light",
         NEW s \in States, s.own = own', s.t1 = t1', s.t2 = t2', s.ir = ir',
         UNCHANGED <<use, timer, light, sound>>,
         Paired(s), Short => Settled(s)
  PROVE  Inv'
<1>1. Types'
  BY DEF Inv, Types, States
<1>2. ~light.on /\ light.at = 0
  <2>1. light.at \in 0 .. 4
    BY LightFields DEF Inv, Types
  <2> QED BY <2>1 DEF Inv, Hands, Painting
<1>3. /\ own'[1] = own'[2] /\ own'[1] \in {"free", "infrared"}
      /\ own'[1] = "infrared" <=> ir'.statue = 2
  BY DEF Paired, Both
<1>4. Short /\ own'[1] = "free" => ~t1'.run /\ t1'.events = {}
  BY DEF Paired, Settled, Both
<1>5. Hands'
  BY <1>2, <1>3, <1>4 DEF Hands, P!Pending
<1>6. Timing'
  BY <1>3 DEF Inv, Timing, Stopping, P!OneShot
<1>7. Signalling'
  BY DEF Signalling, Paired, Settled
<1>8. Painting'
  BY <1>2 DEF Inv, Painting, Colored, Clean, P!Dark
<1> QED BY <1>1, <1>5, <1>6, <1>7, <1>8 DEF Inv

LEMMA StateTyped ==
  ASSUME Types, NEW s, s = P!State
  PROVE  s \in States /\ s.own = own /\ s.t1 = t1 /\ s.t2 = t2 /\ s.ir = ir
BY DEF P!State, Types, States

LEMMA InfraredOwner ==
  ASSUME Inv, ir.statue = 2
  PROVE  own = Both("infrared") /\ "infrared" \in use /\ (Short => Sending(t1, ir))
<1>1. own \in Holders /\ own[1] = "infrared" /\ own[2] = "infrared"
  BY DEF Inv, Types, Hands
<1>2. own = Both("infrared")
  BY <1>1 DEF Holders, Both
<1> QED BY <1>2 DEF Inv, Timing, Signalling

LEMMA HandlerPaired ==
  ASSUME NEW s0, Paired(s0), NEW s1, NEW s2, NEW s3, NEW s4, s1 = P!Served(s0, 0),
         s2 = P!Served(s1, 1), s3 = P!Served(s2, 2), s4 = P!Served(s3, 3)
  PROVE  Paired(s4)
<1>1. 0 \in P!Chan /\ 1 \in P!Chan /\ 2 \in P!Chan /\ 3 \in P!Chan
  BY DEF P!Chan
<1>2. Paired(s1)
  BY <1>1, ServedPaired
<1>3. Paired(s2)
  BY <1>1, <1>2, ServedPaired
<1>4. Paired(s3)
  BY <1>1, <1>3, ServedPaired
<1> QED BY <1>1, <1>4, ServedPaired

LEMMA HandlerSettled ==
  ASSUME Short, NEW s0, Turn(s0, 0), NEW s1, NEW s2, NEW s3, NEW s4,
         s1 = P!Served(s0, 0), s2 = P!Served(s1, 1), s3 = P!Served(s2, 2),
         s4 = P!Served(s3, 3)
  PROVE  Settled(s4)
<1>1. 0 \in P!Chan /\ 1 \in P!Chan /\ 2 \in P!Chan /\ 3 \in P!Chan
  BY DEF P!Chan
<1>2. Turn(s1, 1)
  <2>1. Turn(s1, 0 + 1)
    BY <1>1, ServedTurn
  <2> QED BY <2>1
<1>3. Turn(s2, 2)
  <2>1. Turn(s2, 1 + 1)
    BY <1>1, <1>2, ServedTurn
  <2> QED BY <2>1
<1>4. Turn(s3, 3)
  <2>1. Turn(s3, 2 + 1)
    BY <1>1, <1>3, ServedTurn
  <2> QED BY <2>1
<1>5. Turn(s4, 4)
  <2>1. Turn(s4, 3 + 1)
    BY <1>1, <1>4, ServedTurn
  <2> QED BY <2>1
<1>6. s4.t1.events = {}
  <2>1. s4 \in States /\ \A d \in P!Chan : d < 4 => d \notin s4.t1.events
    BY <1>5 DEF Turn
  <2>2. s4.t1.events \subseteq P!Chan
    BY <2>1 DEF States, Timer1
  <2> QED BY <2>1, <2>2 DEF P!Chan
<1> QED BY <1>5, <1>6 DEF Turn, Sends, Ended, Sending, Settled

LEMMA SendIRQHandlerInv ==
  ASSUME Separate, Inv, P!SendIRQHandler
  PROVE  Inv'
<1>1. /\ own[1] = "infrared" /\ UNCHANGED <<use, timer, light, sound>>
      /\ P!Becomes(P!Served(P!Served(P!Served(P!Served(P!State, 0), 1), 2), 3))
  BY DEF P!SendIRQHandler
<1>2. ir.statue = 2
  BY <1>1 DEF Inv, Hands
<1>3. own = Both("infrared") /\ "infrared" \in use /\ (Short => Sending(t1, ir))
  BY <1>2, InfraredOwner
<1>4. PICK s0 : s0 = P!State
  OBVIOUS
<1>5. s0 \in States /\ s0.own = own /\ s0.t1 = t1 /\ s0.t2 = t2 /\ s0.ir = ir
  BY <1>4, StateTyped DEF Inv
<1>6. PICK s1 : s1 = P!Served(s0, 0)
  OBVIOUS
<1>7. PICK s2 : s2 = P!Served(s1, 1)
  OBVIOUS
<1>8. PICK s3 : s3 = P!Served(s2, 2)
  OBVIOUS
<1>9. PICK s4 : s4 = P!Served(s3, 3)
  OBVIOUS
<1>10. s4.own = own' /\ s4.t1 = t1' /\ s4.t2 = t2' /\ s4.ir = ir'
  BY <1>1, <1>4, <1>6, <1>7, <1>8, <1>9 DEF P!Becomes
<1>11. Paired(s4)
  <2>1. Paired(s0)
    BY <1>2, <1>3, <1>5 DEF Paired
  <2> QED BY <1>6, <1>7, <1>8, <1>9, <2>1, HandlerPaired
<1>12. Short => Settled(s4)
  <2>1. ASSUME Short  PROVE Turn(s0, 0)
    <3>1. \A d \in P!Chan : ~(d < 0)
      BY DEF P!Chan
    <3> QED BY <1>2, <1>3, <1>5, <2>1, <3>1 DEF Turn, Sends, Sending
  <2> QED BY <1>6, <1>7, <1>8, <1>9, <2>1, HandlerSettled
<1>13. s4 \in States
  BY <1>11 DEF Paired
<1>14. own[1] # "timer" /\ own[2] # "light"
  BY <1>3 DEF Both
<1> QED BY <1>1, <1>3, <1>10, <1>11, <1>12, <1>13, <1>14, SenderFrame

LEMMA InfraredConfigInv ==
  ASSUME Inv, P!InfraredConfig
  PROVE  Inv'
<1>1. /\ "infrared" \in use /\ ir.statue <= 1 /\ ir' = [ir EXCEPT !.statue = 1]
      /\ UNCHANGED <<use, own, t1, t2, timer, light, sound>>
  BY DEF P!InfraredConfig
<1>2. ir \in Sender /\ ir.statue # 2
  BY <1>1 DEF Inv, Types, Sender
<1>3. /\ ir' \in Sender /\ ir'.statue = 1 /\ ir'.stop = ir.stop
  BY <1>1, <1>2, StatueOf
<1>4. Types'
  BY <1>1, <1>3 DEF Inv, Types
<1>5. Hands' /\ Timing' /\ Signalling'
  BY <1>1, <1>2, <1>3 DEF Inv, Hands, Timing, Stopping, Signalling, P!Pending, P!OneShot
<1> QED BY <1>1, <1>4, <1>5, SamePainting DEF Inv

(* The start of a send: three compares, and the first toggle of the data. *)
Fresh(s) == /\ s.ir.data \in Signals /\ s.ir.index = 0 /\ s.ir.stop = P!NoStop
            /\ s.t1.inten = P!Chan /\ s.t1.events = {} /\ ~s.t1.clears
            /\ s.ir.ppi /\ s.ir.wave = <<>>

(* The channels hold the first four toggles. *)
Starts(r, s, at) ==
    /\ r.t1.cc[0] = Config.lead /\ r.t1.cc[1] = Config.lead + Config.mark
    /\ r.t1.cc[2] = Lead /\ r.t1.cc[3] = at /\ at = Lead + P!Toggle(s.ir)
    /\ r.t1.count = 0 /\ r.t1.events = {} /\ ~r.t1.clears
    /\ r.ir.statue = 2 /\ r.ir.ppi /\ r.ir.wave = <<>> /\ r.ir.data = s.ir.data
    /\ r.ir.last = at /\ r.ir.index = 1 /\ r.ir.stop = P!NoStop

LEMMA PwmStarted ==
  ASSUME NEW s, Paired(s), s.own = Both("infrared"), s.ir.statue = 2,
         NEW r, r = P!PwmStart(s)
  PROVE  /\ Paired(r)
         /\ Short /\ Fresh(s) => /\ r.ir.statue = 2 /\ Sending(r.t1, r.ir)
                                 /\ \E at \in Nat : Starts(r, s, at)
<1>1. PICK a \in Nat, b \in Nat, d \in Nat :
         a = Config.lead /\ b = a + Config.mark /\ d = b + Config.rest
  <2>1. Config.lead \in Nat /\ Config.mark \in Nat /\ Config.rest \in Nat
    BY Constants
  <2> QED BY <2>1
<1>2. 0 < a /\ a < b /\ b < d /\ d = Lead
  <2>1. PICK mark \in Nat \ {0}, rest \in Nat \ {0} :
           mark = Config.mark /\ rest = Config.rest
    BY Constants
  <2>2. a \in Nat \ {0} /\ b = a + mark /\ d = b + rest
    BY <1>1, <2>1, Constants
  <2>3. d = Lead
    BY <1>1 DEF Lead
  <2>4. 0 < a /\ a < b /\ b < d
    BY <2>2
  <2> QED BY <2>3, <2>4
<1>3. s.own \in Holders /\ s.t1 \in Timer1 /\ s.t2 \in Timer2 /\ s.ir \in Sender
      /\ s = [own |-> s.own, t1 |-> s.t1, t2 |-> s.t2, ir |-> s.ir]
  BY DEF Paired, States
<1>4. PICK cc : cc = [[[s.t1.cc EXCEPT ![0] = a] EXCEPT ![1] = b] EXCEPT ![2] = d]
  OBVIOUS
<1>5. /\ cc \in [P!Chan -> Nat] /\ cc[0] = a /\ cc[1] = b /\ cc[2] = d
  BY <1>3, <1>4, ChanNumbers DEF Timer1
<1>6. PICK t : t = [s.t1 EXCEPT !.stops = {}, !.cc = cc]
  OBVIOUS
<1>7. /\ t \in Timer1 /\ t.cc = cc /\ t.stops = {} /\ t.inten = s.t1.inten
      /\ t.events = s.t1.events /\ t.clears = s.t1.clears
  BY <1>3, <1>5, <1>6 DEF Timer1
<1>8. PICK i : i = [s.ir EXCEPT !.last = d]
  OBVIOUS
<1>9. /\ i \in Sender /\ i.last = d /\ i.index = s.ir.index /\ i.stop = s.ir.stop
      /\ i.statue = 2 /\ i.data = s.ir.data /\ i.ppi = s.ir.ppi /\ i.wave = s.ir.wave
  BY <1>1, <1>3, <1>8 DEF Sender
<1>10. PICK set : set = [s EXCEPT !.t1.stops = {}, !.ir.last = d,
                             !.t1.cc[0] = a, !.t1.cc[1] = b, !.t1.cc[2] = d]
  OBVIOUS
<1>11. set = [own |-> s.own, t1 |-> t, t2 |-> s.t2, ir |-> i]
  <2>1. PICK ta : ta = [s.t1 EXCEPT !.stops = {}]
    OBVIOUS
  <2>2. ta \in Timer1 /\ ta.cc = s.t1.cc
    BY <1>3, <2>1 DEF Timer1
  <2>3. PICK tb : tb = [ta EXCEPT !.cc = [ta.cc EXCEPT ![0] = a]]
    OBVIOUS
  <2>4. tb \in Timer1 /\ tb.cc = [s.t1.cc EXCEPT ![0] = a]
    <3>1. [ta.cc EXCEPT ![0] = a] \in [P!Chan -> Nat]
      BY <2>2 DEF Timer1
    <3> QED BY <2>2, <2>3, <3>1 DEF Timer1
  <2>5. PICK tc : tc = [tb EXCEPT !.cc = [tb.cc EXCEPT ![1] = b]]
    OBVIOUS
  <2>6. tc \in Timer1 /\ tc.cc = [tb.cc EXCEPT ![1] = b]
    <3>1. [tb.cc EXCEPT ![1] = b] \in [P!Chan -> Nat]
      BY <2>4 DEF Timer1
    <3> QED BY <2>4, <2>5, <3>1 DEF Timer1
  <2>7. PICK td : td = [tc EXCEPT !.cc = [tc.cc EXCEPT ![2] = d]]
    OBVIOUS
  <2>8. td = t
    <3>1. cc = [tc.cc EXCEPT ![2] = d]
      BY <1>4, <2>4, <2>6
    <3>2. td = [[[[s.t1 EXCEPT !.stops = {}] EXCEPT !.cc = tb.cc] EXCEPT !.cc = tc.cc]
                EXCEPT !.cc = cc]
      BY <2>1, <2>2, <2>3, <2>4, <2>5, <2>6, <2>7, <3>1
    <3> QED BY <1>3, <1>6, <3>2 DEF Timer1
  <2>9. PICK x0 : x0 = [s EXCEPT !.t1.stops = {}, !.ir.last = d]
    OBVIOUS
  <2>10. x0 = [own |-> s.own, t1 |-> ta, t2 |-> s.t2, ir |-> i]
    BY <1>3, <1>8, <2>1, <2>9
  <2>11. PICK x1 : x1 = [x0 EXCEPT !.t1.cc[0] = a]
    OBVIOUS
  <2>12. x1 = [own |-> s.own, t1 |-> tb, t2 |-> s.t2, ir |-> i]
    BY <2>3, <2>10, <2>11
  <2>13. PICK x2 : x2 = [x1 EXCEPT !.t1.cc[1] = b]
    OBVIOUS
  <2>14. x2 = [own |-> s.own, t1 |-> tc, t2 |-> s.t2, ir |-> i]
    BY <2>5, <2>12, <2>13
  <2>15. set = [x2 EXCEPT !.t1.cc[2] = d]
    BY <1>10, <2>9, <2>11, <2>13, Zenon
  <2>16. set = [own |-> s.own, t1 |-> td, t2 |-> s.t2, ir |-> i]
    BY <2>7, <2>14, <2>15
  <2> QED BY <2>8, <2>16
<1>12. set \in States /\ set.own = s.own /\ set.t1 = t /\ set.ir = i
  BY <1>3, <1>7, <1>9, <1>11 DEF States
<1>13. PICK q : q = P!ConfigChan(set, 3)
  OBVIOUS
<1>14. PICK w : w = P!ShockStart(q)
  OBVIOUS
<1>15. r = [w EXCEPT !.t1.count = 0, !.t1.run = TRUE]
  BY <1>1, <1>10, <1>13, <1>14, Zenon DEF P!PwmStart
<1>16. Serves(q, set, 3) /\ 3 \in P!Chan
  BY <1>13 DEF P!Chan, Serves
<1>17. Paired(q)
  <2>1. Paired(set)
    BY <1>9, <1>12 DEF Paired
  <2> QED BY <1>16, <2>1, ConfigChanPaired
<1>18. /\ r \in States /\ r.own = q.own /\ r.t1.cc = q.t1.cc /\ r.t1.events = q.t1.events
       /\ r.t1.inten = q.t1.inten /\ r.t1.stops = q.t1.stops
       /\ r.ir.statue = q.ir.statue /\ r.ir.stop = q.ir.stop /\ r.ir.last = q.ir.last
       /\ r.ir.index = q.ir.index /\ r.ir.data = q.ir.data
       /\ r.t1.count = 0 /\ r.t1.clears = q.t1.clears
       /\ r.ir.ppi = q.ir.ppi /\ r.ir.wave = q.ir.wave
  <2>1. q.own \in Holders /\ q.t1 \in Timer1 /\ q.t2 \in Timer2 /\ q.ir \in Sender
        /\ q = [own |-> q.own, t1 |-> q.t1, t2 |-> q.t2, ir |-> q.ir]
    BY <1>17 DEF Paired, States
  <2>2. PICK tt : tt = [q.t1 EXCEPT !.count = 0, !.run = TRUE]
    OBVIOUS
  <2>3. PICK t2t : t2t = [q.t2 EXCEPT !.run = TRUE]
    OBVIOUS
  <2>4. PICK irr : irr = [q.ir EXCEPT !.pins = "out"]
    OBVIOUS
  <2>5. w = [own |-> q.own, t1 |-> q.t1, t2 |-> t2t, ir |-> irr]
    <3>1. w = [q EXCEPT !.t2.run = TRUE, !.ir.pins = "out"]
      BY <1>14 DEF P!ShockStart
    <3> QED BY <2>1, <2>3, <2>4, <3>1
  <2>6. r = [own |-> q.own, t1 |-> tt, t2 |-> t2t, ir |-> irr]
    BY <1>15, <2>2, <2>5
  <2>7. /\ tt \in Timer1 /\ tt.cc = q.t1.cc /\ tt.events = q.t1.events
        /\ tt.inten = q.t1.inten /\ tt.stops = q.t1.stops
        /\ tt.count = 0 /\ tt.clears = q.t1.clears
    BY <2>1, <2>2 DEF Timer1
  <2>8. t2t \in Timer2
    BY <2>1, <2>3 DEF Timer2
  <2>9. /\ irr \in Sender /\ irr.statue = q.ir.statue /\ irr.stop = q.ir.stop
        /\ irr.last = q.ir.last /\ irr.index = q.ir.index /\ irr.data = q.ir.data
        /\ irr.ppi = q.ir.ppi /\ irr.wave = q.ir.wave
    BY <2>1, <2>4 DEF Sender
  <2> QED BY <2>1, <2>6, <2>7, <2>8, <2>9 DEF States
<1>19. Paired(r)
  BY <1>17, <1>18 DEF Paired
<1>20. ASSUME Short, Fresh(s)
       PROVE  r.ir.statue = 2 /\ Sending(r.t1, r.ir) /\ \E at \in Nat : Starts(r, s, at)
  <2>1. /\ i.data \in Signals /\ i.index = 0 /\ i.stop = P!NoStop
        /\ t.inten = P!Chan /\ t.events = {} /\ i.data = s.ir.data
        /\ ~t.clears /\ i.ppi /\ i.wave = <<>>
    BY <1>7, <1>9, <1>20 DEF Fresh
  <2>2. P!Toggle(i) \in Nat /\ P!Toggle(i) <= Longest /\ P!Toggle(i) # 0
        /\ 0 < 2 * Len(i.data)
    <3>1. Len(i.data) \in Nat /\ Len(i.data) > 0 /\ i.data \in Signals
      BY <1>9, <2>1, Constants
    <3> QED BY <1>9, <1>20, <2>1, <3>1, ToggleBounds
  <2>3. PICK v \in Nat : v = P!Toggle(i)
    BY <2>2
  <2>4. (d + v) % Width = d + v /\ d + v <= Lead + 1 * Longest
    <3>1. \A x \in Nat : x <= Longest =>
             (d + x) % Width = d + x /\ d + x <= Lead + 1 * Longest
      BY <1>2, <1>20, <2>1, FirstToggle
    <3> QED BY <2>2, <2>3, <3>1
  <2>5. PICK at \in Nat : at = d + v
    OBVIOUS
  <2>6. /\ q \in States /\ q.own = s.own /\ Gives(q.t1.cc, cc, 3, at)
        /\ q.t1.events = {} /\ q.t1.inten = P!Chan /\ q.t1.stops = {}
        /\ q.ir.statue = 2 /\ q.ir.stop = P!NoStop /\ q.ir.last = at
        /\ q.ir.index = 1 /\ q.ir.data = s.ir.data
        /\ ~q.t1.clears /\ q.ir.ppi /\ q.ir.wave = <<>>
    <3>1. 3 \in P!Chan /\ Serves(q, set, 3)
      BY <1>13 DEF P!Chan, Serves
    <3>2. set.ir.stop = P!NoStop /\ P!Toggle(set.ir) # 0 /\ NextAt(at, set.ir)
      BY <1>9, <2>1, <1>12, <2>2, <2>3, <2>4, <2>5 DEF NextAt
    <3>3. /\ q \in States /\ q.own = set.own /\ Gives(q.t1.cc, set.t1.cc, 3, at)
          /\ q.t1.events = set.t1.events /\ q.t1.inten = set.t1.inten
          /\ q.t1.stops = set.t1.stops
          /\ q.ir.statue = set.ir.statue /\ q.ir.stop = P!NoStop /\ q.ir.last = at
          /\ q.ir.index = set.ir.index + 1 /\ q.ir.data = set.ir.data
          /\ q.t1.clears = set.t1.clears /\ q.ir.ppi = set.ir.ppi /\ q.ir.wave = set.ir.wave
      BY <1>12, <3>1, <3>2, NextChan
    <3>4. set.t1.cc = cc /\ set.t1.events = {} /\ set.t1.inten = P!Chan
          /\ set.t1.stops = {} /\ set.ir.statue = 2 /\ set.ir.index = 0
          /\ set.ir.data = s.ir.data
          /\ ~set.t1.clears /\ set.ir.ppi /\ set.ir.wave = <<>>
      BY <1>7, <1>9, <1>12, <2>1
    <3>5. q.ir.index = 1
      BY <3>3, <3>4
    <3>6. Gives(q.t1.cc, cc, 3, at)
      BY <3>3, <3>4, Zenon
    <3> QED BY <1>12, <3>3, <3>4, <3>5, <3>6
  <2>7. /\ \A c, e \in P!Chan : c # e => q.t1.cc[c] # q.t1.cc[e]
        /\ \A c \in P!Chan : q.t1.cc[c] <= at
        /\ q.t1.cc[0] = a /\ q.t1.cc[1] = b /\ q.t1.cc[2] = d /\ q.t1.cc[3] = at
    <3>1. \A c \in P!Chan : q.t1.cc[c] = IF c = 3 THEN at ELSE cc[c]
      BY <1>5, <2>6 DEF Gives
    <3>2. q.t1.cc[0] = a /\ q.t1.cc[1] = b /\ q.t1.cc[2] = d /\ q.t1.cc[3] = at
      BY <1>5, <3>1, ChanNumbers
    <3>3. a < b /\ b < d /\ d < at
      BY <1>2, <2>2, <2>3, <2>5
    <3> QED BY <3>2, <3>3, ChanNumbers
  <2>8. Ring(r.t1, r.ir)
    <3>1. 1 <= 2 * Len(s.ir.data)
      BY <1>9, <2>1, <2>2, Constants
    <3>2. at <= Lead + 1 * Longest
      BY <2>4, <2>5
    <3> QED BY <2>6, <1>18, <2>7, <3>1, <3>2 DEF Ring
  <2>9. {} # P!Chan
    BY DEF P!Chan
  <2>10. P!Toggle(i) = P!Toggle(s.ir)
    BY <1>9, Zenon DEF P!Toggle
  <2>11. Starts(r, s, at)
    <3>1. /\ r.t1.cc[0] = Config.lead /\ r.t1.cc[1] = Config.lead + Config.mark
          /\ r.t1.cc[2] = Lead /\ r.t1.cc[3] = at /\ at = Lead + P!Toggle(s.ir)
      BY <1>1, <1>2, <1>18, <2>3, <2>5, <2>7, <2>10
    <3>2. /\ r.t1.count = 0 /\ r.t1.events = {} /\ ~r.t1.clears
          /\ r.ir.statue = 2 /\ r.ir.ppi /\ r.ir.wave = <<>> /\ r.ir.data = s.ir.data
          /\ r.ir.last = at /\ r.ir.index = 1 /\ r.ir.stop = P!NoStop
      BY <1>18, <2>6
    <3> QED BY <3>1, <3>2 DEF Starts
  <2> QED BY <1>18, <2>1, <2>6, <2>8, <2>9, <2>11 DEF Sending
<1> QED BY <1>19, <1>20

(* Refused, or both timers are taken and the send starts on a clean record. *)
LEMMA InfraredSendIs ==
  ASSUME Inv, NEW data \in Signals, P!InfraredSend(data)
  PROVE  \/ UNCHANGED <<own, t1, t2, ir>>
         \/ /\ own = Both("free")
            /\ \E s \in States : /\ Paired(s) /\ s.own = Both("infrared") /\ s.ir.statue = 2
                                 /\ Short => Fresh(s)
                                 /\ P!Becomes(P!PwmStart(s))
<1>1. "infrared" \in use /\ ir.statue = 1
  BY DEF P!InfraredSend
<1>2. /\ own \in Holders /\ own[1] # "infrared" /\ own[2] # "infrared"
      /\ ir \in Sender /\ t1 \in Timer1 /\ t2 \in Timer2 /\ Types
      /\ Short => ir.stop = P!NoStop /\ t1.events = {}
  BY <1>1 DEF Inv, Types, Hands, Signalling
<1>3. PICK s : s = P!State
  OBVIOUS
<1>4. s \in States /\ s.own = own /\ s.t1 = t1 /\ s.t2 = t2 /\ s.ir = ir
      /\ s = [own |-> own, t1 |-> t1, t2 |-> t2, ir |-> ir]
  BY <1>2, <1>3, StateTyped DEF P!State
<1>5. CASE own # Both("free")
  <2>1. P!ApplySysRes(s) = s
    BY <1>4, <1>5, Zenon DEF P!ApplySysRes, Both
  <2>2. P!Becomes(s)
    BY <1>2, <1>3, <1>4, <2>1, Zenon DEF P!InfraredSend
  <2>3. UNCHANGED <<own, t1, t2, ir>>
    BY <1>4, <2>2 DEF P!Becomes
  <2> QED BY <2>3
<1>6. CASE own = Both("free")
  <2>1. PICK s1 : s1 = [s EXCEPT !.own = Both("infrared")]
    OBVIOUS
  <2>2. s1 = [own |-> Both("infrared"), t1 |-> t1, t2 |-> t2, ir |-> ir]
    BY <1>4, <2>1
  <2>3. P!ApplySysRes(s) = s1
    BY <1>4, <1>6, <2>1, Zenon DEF P!ApplySysRes, Both
  <2>4. s1.own[1] = "infrared"
    BY <2>2 DEF Both
  <2>5. PICK s2 : s2 = [s1 EXCEPT !.ir.statue = 2]
    OBVIOUS
  <2>6. PICK s3 : s3 = P!PwmConfig(s2)
    OBVIOUS
  <2>7. PICK s4 : s4 = [s3 EXCEPT !.ir.data = data, !.ir.index = 0, !.ir.wave = <<>>]
    OBVIOUS
  <2>8. P!Becomes(P!PwmStart(s4))
    BY <1>3, <2>3, <2>4, <2>5, <2>6, <2>7, Zenon DEF P!InfraredSend, P!PwmSend
  <2>10. PICK i0 : i0 = [ir EXCEPT !.statue = 2]
    OBVIOUS
  <2>11. s2 = [own |-> Both("infrared"), t1 |-> t1, t2 |-> t2, ir |-> i0]
    BY <2>2, <2>5, <2>10
  <2>12. PICK i1 : i1 = [i0 EXCEPT !.pins = "in"]
    OBVIOUS
  <2>25. PICK short \in BOOLEAN : short = (t2.short \/ t2.power)
    BY <1>2 DEF Timer2
  <2>26. PICK u : u = [t2 EXCEPT !.out = 2, !.short = short]
    OBVIOUS
  <2>27. u \in Timer2
    <3>1. u = [power |-> t2.power, run |-> t2.run, short |-> short, out |-> 2]
      BY <1>2, <2>26 DEF Timer2
    <3> QED BY <1>2, <2>25, <3>1 DEF Timer2
  <2>13. P!ShockInit(s2) = [own |-> Both("infrared"), t1 |-> t1, t2 |-> u, ir |-> i1]
    <3>1. PICK x : x = P!ShockInit(s2)
      OBVIOUS
    <3>2. x = [s2 EXCEPT !.ir.pins = "in", !.t2.out = 2, !.t2.short = @ \/ s2.t2.power]
      BY <3>1 DEF P!ShockInit
    <3>4. (s2.t2.short \/ s2.t2.power) = short
      BY <2>11, <2>25
    <3>5. x = [s2 EXCEPT !.ir.pins = "in", !.t2.out = 2, !.t2.short = short]
      BY <3>2, <3>4
    <3>3. x = [own |-> Both("infrared"), t1 |-> t1, t2 |-> u, ir |-> i1]
      BY <2>11, <2>12, <2>26, <3>5
    <3> QED BY <3>1, <3>3
  <2>14. PICK i2 : i2 = [i1 EXCEPT !.ppi = TRUE]
    OBVIOUS
  <2>15. PICK t : t = [t1 EXCEPT !.counts = TRUE, !.inten = P!Chan, !.clears = FALSE]
    OBVIOUS
  <2>16. s3 = [own |-> Both("infrared"), t1 |-> t, t2 |-> u, ir |-> i2]
    <3>1. PICK x : x = P!ShockInit(s2)
      OBVIOUS
    <3>2. x = [own |-> Both("infrared"), t1 |-> t1, t2 |-> u, ir |-> i1]
      BY <2>13, <3>1
    <3>3. s3 = [x EXCEPT !.t1.counts = TRUE, !.t1.inten = P!Chan, !.t1.clears = FALSE,
                    !.ir.ppi = TRUE]
      BY <2>6, <3>1 DEF P!PwmConfig
    <3> QED BY <2>14, <2>15, <3>2, <3>3
  <2>17. PICK i3 : i3 = [i2 EXCEPT !.data = data, !.index = 0, !.wave = <<>>]
    OBVIOUS
  <2>18. s4 = [own |-> Both("infrared"), t1 |-> t, t2 |-> u, ir |-> i3]
    BY <2>7, <2>16, <2>17
  <2>19. t \in Timer1 /\ t.inten = P!Chan /\ t.events = t1.events /\ ~t.clears
    BY <1>2, <2>15 DEF Timer1
  <2>20. /\ i3 \in Sender /\ i3.statue = 2 /\ i3.stop = ir.stop /\ i3.index = 0
         /\ i3.data = data /\ i3.ppi /\ i3.wave = <<>>
    <3>1. i0 \in Sender /\ i0.statue = 2 /\ i0.stop = ir.stop
      BY <1>2, <2>10, StatueOf
    <3>2. i1 \in Sender /\ i1.statue = 2 /\ i1.stop = ir.stop
      BY <2>12, <3>1 DEF Sender
    <3>3. i2 \in Sender /\ i2.statue = 2 /\ i2.stop = ir.stop /\ i2.ppi
      BY <2>14, <3>2 DEF Sender
    <3>4. data \in BitSeq
      BY Constants DEF BitSeq
    <3>5. i3 \in Sender /\ i3.data = data /\ i3.index = 0 /\ i3.statue = i2.statue
          /\ i3.stop = i2.stop /\ i3.ppi = i2.ppi /\ i3.wave = <<>>
      <4>1. Loaded(i3, i2, data)
        BY <2>17 DEF Loaded
      <4>2. i2 \in Sender
        BY <3>3
      <4> QED BY ONLY <3>4, <4>1, <4>2, DataOf
    <3> QED BY <3>3, <3>5
  <2>21. Both("infrared") \in Holders
    BY DEF Both, Holders, Holder
  <2>22. s4 \in States /\ s4.own = Both("infrared") /\ s4.t1 = t /\ s4.ir = i3
    BY <1>2, <2>18, <2>19, <2>20, <2>21, <2>27 DEF States
  <2>23. Paired(s4) /\ s4.ir.statue = 2
    BY <2>20, <2>22 DEF Paired
  <2>24. Short => Fresh(s4)
    BY <1>2, <2>19, <2>20, <2>22 DEF Fresh
  <2> QED BY <1>6, <2>8, <2>22, <2>23, <2>24
<1> QED BY <1>5, <1>6

LEMMA InfraredSendInv ==
  ASSUME Separate, Inv, NEW data \in Signals, P!InfraredSend(data)
  PROVE  Inv'
<1>1. "infrared" \in use /\ UNCHANGED <<use, timer, light, sound>>
  BY DEF P!InfraredSend
<1>2. CASE UNCHANGED <<own, t1, t2, ir>>
  BY <1>1, <1>2, SameInv
<1>3. ASSUME NEW s \in States, Paired(s), s.own = Both("infrared"), s.ir.statue = 2,
             Short => Fresh(s), own = Both("free"), P!Becomes(P!PwmStart(s))
      PROVE  Inv'
  <2>1. PICK r : r = P!PwmStart(s)
    OBVIOUS
  <2>2. Paired(r) /\ (Short => r.ir.statue = 2 /\ Sending(r.t1, r.ir))
    BY <1>3, <2>1, PwmStarted
  <2>3. r \in States /\ (Short => Settled(r))
    BY <2>2 DEF Paired, Settled
  <2>4. r.own = own' /\ r.t1 = t1' /\ r.t2 = t2' /\ r.ir = ir'
    BY <1>3, <2>1 DEF P!Becomes
  <2>5. own[1] # "timer" /\ own[2] # "light"
    BY <1>3 DEF Both
  <2> QED BY <1>1, <2>2, <2>3, <2>4, <2>5, SenderFrame
<1> QED BY <1>2, <1>3, InfraredSendIs

-----------------------------------------------------------------------------
\* Every step.

LEMMA NextInv ==
  ASSUME Separate, Inv, AppNext \/ UNCHANGED <<vars, peripherals>>
  PROVE  Inv'
<1>1. CASE Serving(Next) \/ UNCHANGED <<vars, peripherals>>
  BY <1>1, SameInv DEF Serving, peripherals
<1>2. CASE P!Next
  <2>1. CASE P!Compare
    BY <2>1, CompareInv
  <2>2. CASE \E stops \in BOOLEAN : P!TimerIRQHandler(stops)
    BY <2>2, TimerIRQHandlerInv
  <2>3. CASE P!SendIRQHandler
    BY <2>3, SendIRQHandlerInv
  <2>4. CASE P!SetColor
    BY <2>4, SetColorInv
  <2>5. CASE P!LightDark
    BY <2>5, LightDarkInv
  <2>6. CASE P!PlaySound \/ P!NoteOn \/ P!NoteOff
    BY <2>6, SoundInv
  <2>7. CASE P!AdcMeasure \/ P!ADC_IRQHandler \/ P!OnComplete
    BY <2>7, AdcInv
  <2>8. CASE \E once \in BOOLEAN : P!TimerInit(once)
    BY <2>8, TimerInitInv
  <2>9. CASE \E v \in Periods : P!TimerStart(v)
    BY <2>9, TimerStartInv
  <2>10. CASE P!TimerStop
    BY <2>10, TimerStopInv
  <2>11. CASE P!LightOn
    BY <2>11, LightOnInv
  <2>12. CASE P!LightOff
    BY <2>12, LightOffInv
  <2>13. CASE P!LightTimerInterrupt
    BY <2>13, LightTimerInterruptInv
  <2>14. CASE \E v \in Colors : P!LightSetColor(v)
    BY <2>14, LightSetColorInv
  <2>15. CASE P!InfraredConfig
    BY <2>15, InfraredConfigInv
  <2>16. CASE \E d \in Signals : P!InfraredSend(d)
    BY <2>16, InfraredSendInv
  <2>17. CASE P!TimerFree
    BY <2>17, TimerFreeInv
  <2>18. CASE P!LightDisturbed
    BY <2>18, LightDisturbedInv
  <2> QED BY <1>2, <2>1, <2>2, <2>3, <2>4, <2>5, <2>6, <2>7, <2>8, <2>9, <2>10, <2>11,
             <2>12, <2>13, <2>14, <2>15, <2>16, <2>17, <2>18 DEF P!Next, P!Steps
<1> QED BY <1>1, <1>2 DEF AppNext

LEMMA NextMelody ==
  ASSUME Melody, AppNext \/ UNCHANGED <<vars, peripherals>>
  PROVE  Melody'
<1>1. CASE UNCHANGED sound
  BY <1>1 DEF Melody
<1>2. CASE P!PlaySound
  BY <1>2, PlaySoundMelody
<1>3. CASE P!NoteOn
  BY <1>3, NoteOnMelody
<1>4. CASE P!NoteOff
  BY <1>4, NoteOffMelody
<1>5. UNCHANGED sound \/ P!PlaySound \/ P!NoteOn \/ P!NoteOff
  <2>1. CASE Serving(Next) \/ UNCHANGED <<vars, peripherals>>
    BY <2>1 DEF Serving, peripherals
  <2>2. CASE P!Next
    BY <2>2 DEF P!Next, P!Steps, P!Compare, P!TimerIRQHandler, P!SendIRQHandler, P!SetColor,
       P!LightDark, P!ADC_IRQHandler, P!OnComplete, P!TimerInit, P!TimerStart, P!TimerStop,
       P!LightOn, P!LightOff, P!LightTimerInterrupt, P!LightSetColor, P!InfraredConfig,
       P!InfraredSend, P!AdcMeasure, P!TimerFree, P!LightDisturbed
  <2> QED BY <2>1, <2>2 DEF AppNext
<1> QED BY <1>1, <1>2, <1>3, <1>4, <1>5

LEMMA InvTimers ==
  ASSUME Separate, Short, Inv
  PROVE  TimersRight
<1> SUFFICES ASSUME ~timer.raced  PROVE P!TimersHeld /\ P!NoStorm /\ P!OneShot
  BY DEF TimersRight, P!TimersRight
<1>1. P!TimersHeld
  BY DEF Inv, Hands, Timing, Stopping, P!TimersHeld, P!Pending
<1>2. P!NoStorm
  <2>1. own[1] = "timer" => t1.inten \subseteq {0}
    BY DEF Separate, Inv, Types, Timing
  <2>2. own[1] = "free" => P!Pending = {}
    BY DEF Inv, Hands
  <2>3. P!Pending \subseteq t1.inten
    BY DEF P!Pending
  <2> QED BY <2>1, <2>2, <2>3 DEF P!NoStorm
<1>3. P!OneShot
  BY DEF Inv, Timing
<1> QED BY <1>1, <1>2, <1>3

LEMMA InvLight ==
  ASSUME Inv
  PROVE  LightRight
<1>1. /\ light.at = 0 =>
            IF light.on
            THEN /\ t2.run /\ t2.power
                 /\ \A i \in P!Pin : light.shown[i] = light.values[i] \/ i \in P!Spoilt
            ELSE light.shown = P!Dark
      /\ Clean
  BY DEF Inv, Painting, Colored
<1>2. {"infrared", "sound"} \cap use = {} => P!Spoilt = {}
  <2>1. ASSUME t2.out \in {0, 1}, NEW i \in P!Pin  PROVE ~(t2.out = i /\ i # 1)
    BY <2>1 DEF P!Pin
  <2> QED BY <1>1, <2>1, Zenon DEF Clean, P!Spoilt
<1> QED BY <1>1, <1>2, Zenon DEF LightRight, P!LightRight

LEMMA Prefix ==
  ASSUME NEW played \in Seq(0 .. 3), NEW tune \in Seq(0 .. 3), NEW n \in Nat,
         n = Len(played), n <= 12, Len(tune) = 12,
         \A i \in 1 .. n : played[i] = (i - 1) % 4,
         \A i \in 1 .. 12 : tune[i] = (i - 1) % 4
  PROVE  /\ Len(played) <= Len(tune)
         /\ SubSeq(played, 1, n) = SubSeq(tune, 1, n)
         /\ n = 12 => played = tune
<1>1. \A i \in 1 .. n : played[i] = tune[i]
  <2>1. \A i \in 1 .. n : i \in 1 .. 12
    OBVIOUS
  <2> QED BY <2>1, Zenon
<1>2. /\ \A i \in 1 .. n : played[i] \in 0 .. 3
      /\ \A i \in 1 .. n : tune[i] \in 0 .. 3
  <2>1. \A i \in 1 .. n : played[i] \in 0 .. 3
    BY ElementOfSeq
  <2> QED BY <1>1, <2>1
<1>3. 1 \in Int /\ n \in Int
  OBVIOUS
<1>4. /\ SubSeq(played, 1, n) \in Seq(0 .. 3)
      /\ Len(SubSeq(played, 1, n)) = IF 1 <= n THEN n - 1 + 1 ELSE 0
      /\ \A i \in 1 .. n - 1 + 1 : SubSeq(played, 1, n)[i] = played[1 + i - 1]
  BY <1>2, <1>3, SubSeqProperties
<1>5. /\ SubSeq(tune, 1, n) \in Seq(0 .. 3)
      /\ Len(SubSeq(tune, 1, n)) = IF 1 <= n THEN n - 1 + 1 ELSE 0
      /\ \A i \in 1 .. n - 1 + 1 : SubSeq(tune, 1, n)[i] = tune[1 + i - 1]
  BY <1>2, <1>3, SubSeqProperties
<1>6. SubSeq(played, 1, n) = SubSeq(tune, 1, n)
  <2>1. \A i \in 1 .. n : i \in 1 .. n - 1 + 1 /\ 1 + i - 1 = i
    OBVIOUS
  <2>2. ASSUME NEW i \in 1 .. n
        PROVE  SubSeq(played, 1, n)[i] = SubSeq(tune, 1, n)[i]
    <3>1. i \in 1 .. n - 1 + 1 /\ 1 + i - 1 = i
      BY <2>1
    <3>2. SubSeq(played, 1, n)[i] = played[1 + i - 1]
      BY <1>4, <3>1, Zenon
    <3>3. SubSeq(tune, 1, n)[i] = tune[1 + i - 1]
      BY <1>5, <3>1, Zenon
    <3> QED BY <1>1, <3>1, <3>2, <3>3, Zenon
  <2>3. (IF 1 <= n THEN n - 1 + 1 ELSE 0) = n
    OBVIOUS
  <2>4. Len(SubSeq(played, 1, n)) = n /\ Len(SubSeq(tune, 1, n)) = n
    BY <1>4, <1>5, <2>3, Zenon
  <2>5. /\ Len(SubSeq(played, 1, n)) = Len(SubSeq(tune, 1, n))
        /\ \A i \in 1 .. Len(SubSeq(played, 1, n)) :
              SubSeq(played, 1, n)[i] = SubSeq(tune, 1, n)[i]
    BY <2>2, <2>4, Zenon
  <2> QED BY <1>4, <1>5, <2>5, SeqEqual, Zenon
<1>7. n = 12 => played = tune
  BY <1>1, SeqEqual, Zenon
<1> QED BY <1>6, <1>7

LEMMA MelodyTune ==
  ASSUME Melody
  PROVE  WholeTune
<1>1. P!TotalRounds * P!Notes = 12 /\ P!Notes = 4
  BY DEF P!TotalRounds, P!Notes
<1>2. PICK tune : tune = [i \in 1 .. 12 |-> (i - 1) % 4]
  OBVIOUS
<1>3. /\ tune \in Seq(0 .. 3) /\ Len(tune) = 12
      /\ \A i \in 1 .. 12 : tune[i] = (i - 1) % 4
  BY <1>2
<1>4. /\ sound.played \in Seq(0 .. 3) /\ Len(sound.played) <= 12
      /\ \A i \in 1 .. Len(sound.played) : sound.played[i] = (i - 1) % 4
      /\ sound.plays > 0 /\ ~sound.running => Len(sound.played) = 12
  BY DEF Melody, Sound
<1>5. Len(sound.played) \in Nat
  BY <1>4, LenProperties
<1>6. /\ Len(sound.played) <= Len(tune)
      /\ SubSeq(sound.played, 1, Len(sound.played)) = SubSeq(tune, 1, Len(sound.played))
      /\ Len(sound.played) = 12 => sound.played = tune
  BY <1>3, <1>4, <1>5, Prefix, Zenon
<1>7. tune = [i \in 1 .. P!TotalRounds * P!Notes |-> (i - 1) % P!Notes]
  BY <1>1, <1>2, Zenon
<1> QED BY <1>4, <1>6, <1>7, Zenon DEF WholeTune, P!WholeTune, P!IsPrefix

(* The timers go from hand to hand: nobody keeps one it does not use, loses *)
(* one it uses, or leaves an event to the next (apply_sys_res_timer1 to     *)
(* free_sys_res_timer2, ble_infrared_config_timer_chan, TIMER_IRQHandler),  *)
(* when the signals end before TIMER1 wraps, and until timer_stop frees a   *)
(* timer that timer_on_fired has started again in the middle of it.         *)
THEOREM TimersAreRight ==
  ASSUME Separate, Short
  PROVE  AppSpec => []TimersRight
<1>1. AppInit => Inv
  BY InitInv
<1>2. Inv /\ [AppNext]_<<vars, peripherals>> => Inv'
  BY NextInv
<1>3. Inv => TimersRight
  BY InvTimers
<1> QED BY <1>1, <1>2, <1>3, PTL DEF AppSpec

(* Outside set_color the light shows nothing when it is off and its color   *)
(* when it is on, on every pin but those whose duty cycle is lost to the    *)
(* shortcut or the PPI channel a send has left in TIMER2; without a sender  *)
(* that is every pin (light_on, light_off, set_color, shock_signal_init).   *)
THEOREM LightIsRight ==
  ASSUME Separate
  PROVE  AppSpec => []LightRight
<1>1. AppInit => Inv
  BY InitInv
<1>2. Inv /\ [AppNext]_<<vars, peripherals>> => Inv'
  BY NextInv
<1>3. Inv => LightRight
  BY InvLight
<1> QED BY <1>1, <1>2, <1>3, PTL DEF AppSpec

(* What is played is a prefix of the tune, and the whole of it when the      *)
(* buzzer has stopped (play_sound, note_on, note_off), in every profile.    *)
THEOREM TuneIsWhole == AppSpec => []WholeTune
<1>1. AppInit => Melody
  BY MelodyInit
<1>2. Melody /\ [AppNext]_<<vars, peripherals>> => Melody'
  BY NextMelody
<1>3. Melody => WholeTune
  BY MelodyTune
<1> QED BY <1>1, <1>2, <1>3, PTL DEF AppSpec

-----------------------------------------------------------------------------
\* The signal on the pin: what has been loaded, and how far it has been shown.

(* n toggles, each its duration after the one before. *)
Timed(times, n, d) ==
    /\ times \in TimeSeq /\ Len(times) = n
    /\ \A i \in 1 .. n : times[i] = (IF i = 1 THEN 0 ELSE times[i - 1]) + d[i]
    /\ \A i, j \in 1 .. n : i < j => times[i] < times[j]

(* The pin has shown those up to the counter, and the channels hold the     *)
(* others, each one of them.                                                *)
Cut(times, wave, cc, count) ==
    /\ wave \in TimeSeq /\ Len(wave) <= Len(times) /\ count <= times[Len(times)]
    /\ \A i \in 1 .. Len(wave) : wave[i] = times[i] /\ times[i] <= count
    /\ \A i \in Len(wave) + 1 .. Len(times) :
          times[i] > count /\ \E c \in P!Chan : cc[c] = times[i]
    /\ \A c \in P!Chan : cc[c] > count =>
          \E i \in Len(wave) + 1 .. Len(times) : cc[c] = times[i]

(* How many toggles a sender has loaded, and the time of the last. *)
Number(r) == IF r.stop = P!NoStop THEN 3 + r.index ELSE 2 * Len(r.data) + 4
LastTime(t, r) == IF r.stop = P!NoStop THEN r.last ELSE t.cc[r.stop]

Shows(times, t, r) ==
    /\ r.ppi /\ ~t.clears
    /\ Timed(times, Number(r), P!Durations(r.data))
    /\ times[Number(r)] = LastTime(t, r)
    /\ Cut(times, r.wave, t.cc, t.count)
    /\ \A c \in t.events : t.cc[c] <= t.count
Shown(r) ==
    /\ r.pins = "in"
    /\ IF r.ppi THEN Timed(r.wave, 2 * Len(r.data) + 4, P!Durations(r.data))
       ELSE r.wave = <<>>
Waves(t, r) == IF r.statue = 2 THEN \E times \in TimeSeq : Shows(times, t, r) ELSE Shown(r)

Showing == Waves(t1, ir)

(* The durations, by their places. *)
LEMMA DurationsAre ==
  ASSUME NEW data \in BitSeq, NEW d, d = P!Durations(data)
  PROVE  /\ Len(d) = 2 * Len(data) + 4 /\ Len(data) \in Nat
         /\ d[1] = Config.lead /\ d[2] = Config.mark /\ d[3] = Config.rest
         /\ d[2 * Len(data) + 4] = Config.end
         /\ \A k \in 1 .. 2 * Len(data) :
               d[3 + k] = LET code == IF data[(k + 1) \div 2] = 1 THEN Config.one
                                      ELSE Config.zero
                          IN  IF k % 2 = 1 THEN code[1] ELSE code[2]
<1> DEFINE n == Len(data)
           pulse(k) == LET code == IF data[(k + 1) \div 2] = 1 THEN Config.one
                                   ELSE Config.zero
                       IN  IF k % 2 = 1 THEN code[1] ELSE code[2]
<1>1. n \in Nat
  BY DEF BitSeq
<1>2. PICK start : start = <<Config.lead, Config.mark, Config.rest>>
  OBVIOUS
<1>3. /\ start \in Seq(Nat) /\ Len(start) = 3
      /\ start[1] = Config.lead /\ start[2] = Config.mark /\ start[3] = Config.rest
  BY <1>2, Constants
<1>4. PICK pulses : pulses = [k \in 1 .. 2 * n |-> pulse(k)]
  OBVIOUS
<1>5. \A k \in 1 .. 2 * n : pulse(k) \in Nat
  <2>1. \A i \in 1 .. 2 : Config.one[i] \in Nat /\ Config.zero[i] \in Nat
    BY Constants
  <2>2. 1 \in 1 .. 2 /\ 2 \in 1 .. 2
    OBVIOUS
  <2>3. Config.one[1] \in Nat /\ Config.one[2] \in Nat /\ Config.zero[1] \in Nat
        /\ Config.zero[2] \in Nat
    BY <2>1, <2>2
  <2> QED BY <2>3
<1> HIDE DEF pulse
<1>6. /\ pulses \in Seq(Nat) /\ Len(pulses) = 2 * n
      /\ \A k \in 1 .. 2 * n : pulses[k] = pulse(k)
  <2>1. 2 * n \in Nat
    BY <1>1
  <2> QED BY <1>4, <1>5, <2>1
<1>7. PICK end : end = <<Config.end>>
  OBVIOUS
<1>8. end \in Seq(Nat) /\ Len(end) = 1 /\ end[1] = Config.end
  BY <1>7, Constants
<1>9. d = (start \o pulses) \o end
  BY <1>2, <1>4, <1>7 DEF P!Durations, pulse, n
<1>10. PICK head : head = start \o pulses
  OBVIOUS
<1>11. /\ head \in Seq(Nat) /\ Len(head) = 3 + 2 * n
       /\ \A i \in 1 .. 3 + 2 * n : head[i] = IF i <= 3 THEN start[i] ELSE pulses[i - 3]
  <2>1. /\ head \in Seq(Nat) /\ Len(head) = Len(start) + Len(pulses)
        /\ \A i \in 1 .. Len(start) + Len(pulses) :
              head[i] = IF i <= Len(start) THEN start[i] ELSE pulses[i - Len(start)]
    BY <1>3, <1>6, <1>10, ConcatProperties
  <2> QED BY <1>3, <1>6, <2>1
<1>12. /\ Len(d) = 2 * n + 4
       /\ \A i \in 1 .. 2 * n + 4 : d[i] = IF i <= 3 + 2 * n THEN head[i] ELSE end[i - (3 + 2 * n)]
  <2>1. /\ Len(d) = Len(head) + Len(end)
        /\ \A i \in 1 .. Len(head) + Len(end) :
              d[i] = IF i <= Len(head) THEN head[i] ELSE end[i - Len(head)]
    <3>1. d = head \o end
      BY ONLY <1>9, <1>10
    <3> QED BY ONLY <1>8, <1>11, <3>1, ConcatProperties
  <2>2. Len(head) + Len(end) = 2 * n + 4
    BY <1>1, <1>8, <1>11
  <2> QED BY <1>11, <2>1, <2>2
<1>13. d[1] = Config.lead /\ d[2] = Config.mark /\ d[3] = Config.rest
  <2>1. \A i \in 1 .. 3 : i \in 1 .. 2 * n + 4 /\ i <= 3 + 2 * n /\ i \in 1 .. 3 + 2 * n
    BY <1>1
  <2>2. \A i \in 1 .. 3 : d[i] = start[i]
    BY <1>11, <1>12, <2>1
  <2> QED BY <1>3, <2>2
<1>14. d[2 * n + 4] = Config.end
  <2>1. 2 * n + 4 \in 1 .. 2 * n + 4 /\ ~(2 * n + 4 <= 3 + 2 * n) /\ 2 * n + 4 - (3 + 2 * n) = 1
    BY <1>1
  <2> QED BY <1>8, <1>12, <2>1
<1>15. ASSUME NEW k \in 1 .. 2 * n  PROVE d[3 + k] = pulse(k)
  <2>1. /\ 3 + k \in 1 .. 2 * n + 4 /\ 3 + k \in 1 .. 3 + 2 * n /\ 3 + k <= 3 + 2 * n
        /\ ~(3 + k <= 3) /\ 3 + k - 3 = k
    BY <1>1
  <2>2. d[3 + k] = head[3 + k]
    BY <1>12, <2>1
  <2>3. head[3 + k] = pulses[k]
    BY <1>11, <2>1
  <2> QED BY <1>6, <2>2, <2>3
<1> QED BY <1>1, <1>12, <1>13, <1>14, <1>15 DEF pulse
LEMMA Parity ==
  ASSUME NEW i \in Nat
  PROVE  /\ (i \div 2) + 1 = (i + 2) \div 2
         /\ i % 2 = 0 => (i + 1) % 2 = 1
         /\ i % 2 # 0 => i % 2 = 1 /\ (i + 1) % 2 = 0
OBVIOUS

(* What the code computes for the next toggle is the next duration. *)
LEMMA ToggleIsDuration ==
  ASSUME NEW r \in Sender, r.index < 2 * Len(r.data), NEW d, d = P!Durations(r.data)
  PROVE  P!Toggle(r) = d[4 + r.index]
<1>1. r.index \in Nat /\ r.data \in BitSeq /\ Len(r.data) \in Nat
  BY DEF Sender, BitSeq
<1>2. PICK k \in 1 .. 2 * Len(r.data) : k = r.index + 1
  BY <1>1
<1>3. /\ (r.index \div 2) + 1 = (k + 1) \div 2
      /\ ~((r.index \div 2) >= Len(r.data))
      /\ (k % 2 = 1 /\ (r.index % 2) + 1 = 1) \/ (k % 2 # 1 /\ (r.index % 2) + 1 = 2)
  <2>1. (r.index \div 2) + 1 = (k + 1) \div 2
    <3>1. k + 1 = r.index + 2
      BY <1>1, <1>2
    <3> QED BY ONLY <1>1, <3>1, Parity
  <2>2. ~((r.index \div 2) >= Len(r.data))
    BY <1>1, Halves
  <2>3. (k % 2 = 1 /\ (r.index % 2) + 1 = 1) \/ (k % 2 # 1 /\ (r.index % 2) + 1 = 2)
    <3>1. /\ r.index % 2 = 0 => (r.index + 1) % 2 = 1
          /\ r.index % 2 # 0 => r.index % 2 = 1 /\ (r.index + 1) % 2 = 0
      BY ONLY <1>1, Parity
    <3>2. CASE r.index % 2 = 0
      BY ONLY <1>2, <3>1, <3>2
    <3>3. CASE r.index % 2 # 0
      BY ONLY <1>2, <3>1, <3>3
    <3> QED BY ONLY <3>2, <3>3
  <2> QED BY ONLY <2>1, <2>2, <2>3
<1>4. d[3 + k] = LET code == IF r.data[(k + 1) \div 2] = 1 THEN Config.one ELSE Config.zero
                 IN  IF k % 2 = 1 THEN code[1] ELSE code[2]
  BY <1>1, DurationsAre
<1>5. P!Toggle(r) = (IF r.data[(r.index \div 2) + 1] = 1 THEN Config.one
                     ELSE Config.zero)[(r.index % 2) + 1]
  BY <1>3, Zenon DEF P!Toggle
<1>6. 3 + k = 4 + r.index
  BY <1>1, <1>2
<1>7. P!Toggle(r) = d[3 + k]
  <2>1. PICK code : code = IF r.data[(k + 1) \div 2] = 1 THEN Config.one ELSE Config.zero
    OBVIOUS
  <2>2. d[3 + k] = IF k % 2 = 1 THEN code[1] ELSE code[2]
    BY ONLY <1>4, <2>1
  <2>3. P!Toggle(r) = code[(r.index % 2) + 1]
    BY ONLY <1>3, <1>5, <2>1
  <2> QED BY ONLY <1>3, <2>2, <2>3
<1> QED BY <1>6, <1>7

(* One more toggle loaded, in a channel that has shown its own. *)
LEMMA TimedNext ==
  ASSUME NEW times, NEW n \in Nat, n > 0, NEW d, Timed(times, n, d),
         d[n + 1] \in Nat, d[n + 1] > 0
  PROVE  \E more \in TimeSeq :
            /\ Timed(more, n + 1, d) /\ more[n + 1] = times[n] + d[n + 1]
            /\ times[n] + d[n + 1] \in Nat /\ times[n] < times[n] + d[n + 1]
            /\ \A i \in 1 .. n : more[i] = times[i]
<1>6. PICK v : v = d[n + 1]
  OBVIOUS
<1>7. v \in Nat /\ v > 0
  BY ONLY <1>6, d[n + 1] \in Nat, d[n + 1] > 0
<1>8. PICK at : at = times[n] + v
  OBVIOUS
<1>9. PICK more : more = Append(times, at)
  OBVIOUS
<1>1. /\ times \in Seq(Nat) /\ Len(times) = n /\ times[n] \in Nat
      /\ \A i \in 1 .. n : times[i] \in Nat
      /\ \A i \in 1 .. n : times[i] = (IF i = 1 THEN 0 ELSE times[i - 1]) + d[i]
      /\ \A i, j \in 1 .. n : i < j => times[i] < times[j]
  <2>1. times \in Seq(Nat) /\ Len(times) = n
    BY DEF Timed, TimeSeq
  <2>2. n \in 1 .. n /\ \A i \in 1 .. n : times[i] \in Nat
    BY <2>1
  <2> QED BY <2>1, <2>2 DEF Timed
<1>2. at \in Nat /\ times[n] < at
  BY <1>1, <1>7, <1>8
<1>3. /\ more \in Seq(Nat) /\ Len(more) = n + 1 /\ more[n + 1] = at
      /\ \A i \in 1 .. n : more[i] = times[i]
  BY <1>1, <1>2, <1>9
<1>4. ASSUME NEW i \in 1 .. n + 1
      PROVE  more[i] = (IF i = 1 THEN 0 ELSE more[i - 1]) + d[i]
  <2>1. CASE i = n + 1
    <3>1. i # 1 /\ i - 1 = n /\ n \in 1 .. n
      BY <2>1
    <3> QED BY <1>3, <1>6, <1>8, <2>1, <3>1
  <2>2. CASE i # n + 1
    <3>1. i \in 1 .. n /\ (i # 1 => i - 1 \in 1 .. n)
      BY <2>2
    <3> QED BY <1>1, <1>3, <3>1
  <2> QED BY <2>1, <2>2
<1>5. ASSUME NEW i \in 1 .. n + 1, NEW j \in 1 .. n + 1, i < j
      PROVE  more[i] < more[j]
  <2>1. i \in 1 .. n /\ n \in 1 .. n
    BY <1>5
  <2>2. CASE j = n + 1
    <3>1. times[i] <= times[n]
      <4>1. i = n \/ i < n
        BY <2>1
      <4> QED BY <1>1, <2>1, <4>1
    <3>2. more[i] = times[i] /\ more[j] = at /\ times[i] \in Nat
      BY <1>1, <1>3, <2>1, <2>2
    <3> QED BY <1>1, <1>2, <3>1, <3>2
  <2>3. CASE j # n + 1
    <3>1. j \in 1 .. n
      BY <2>3
    <3> QED BY <1>1, <1>3, <1>5, <2>1, <3>1
  <2> QED BY <2>2, <2>3
<1>10. Timed(more, n + 1, d) /\ more \in TimeSeq
  BY <1>3, <1>4, <1>5 DEF Timed, TimeSeq
<1> QED BY ONLY <1>2, <1>3, <1>6, <1>8, <1>10

LEMMA CutMore ==
  ASSUME NEW times \in TimeSeq, NEW n \in Nat, n = Len(times), NEW wave,
         NEW cc \in [P!Chan -> Nat], NEW count \in Nat, Cut(times, wave, cc, count),
         NEW c \in P!Chan, cc[c] <= count, NEW at \in Nat, at > count,
         NEW dd, Gives(dd, cc, c, at), NEW more \in TimeSeq, Len(more) = n + 1,
         more[n + 1] = at, \A i \in 1 .. n : more[i] = times[i]
  PROVE  Cut(more, wave, dd, count)
<1> DEFINE w == Len(wave)
<1>1. w \in Nat /\ w <= n
  BY DEF Cut, TimeSeq
<1>2. \A i \in 1 .. w : i \in 1 .. n
  BY <1>1
<1>3. \A i \in w + 1 .. n + 1 : i = n + 1 \/ (i \in 1 .. n /\ i \in w + 1 .. n)
  BY <1>1
<1>4. \A i \in w + 1 .. n : i \in w + 1 .. n + 1 /\ i \in 1 .. n
  BY <1>1
<1>5. n + 1 \in w + 1 .. n + 1
  BY <1>1
<1>6. dd[c] = at /\ \A e \in P!Chan : e # c => dd[e] = cc[e]
  BY DEF Gives
<1>7. /\ \A i \in 1 .. w : wave[i] = times[i] /\ times[i] <= count
      /\ \A i \in w + 1 .. n : times[i] > count /\ \E e \in P!Chan : cc[e] = times[i]
      /\ \A e \in P!Chan : cc[e] > count => \E i \in w + 1 .. n : cc[e] = times[i]
      /\ wave \in TimeSeq
  BY DEF Cut
<1> HIDE DEF w
<1>8. \A i \in 1 .. w : wave[i] = more[i] /\ more[i] <= count
  BY <1>2, <1>7
<1>9. ASSUME NEW i \in w + 1 .. n + 1
      PROVE  more[i] > count /\ \E e \in P!Chan : dd[e] = more[i]
  <2>1. CASE i = n + 1
    BY <1>6, <2>1
  <2>2. CASE i # n + 1
    <3>1. i \in 1 .. n /\ i \in w + 1 .. n
      BY <1>3, <2>2
    <3>2. PICK e \in P!Chan : cc[e] = times[i]
      BY <1>7, <3>1
    <3>3. times[i] > count
      BY <1>7, <3>1
    <3>4. cc[e] \in Nat /\ cc[e] > count
      BY <3>2, <3>3
    <3>5. e # c
      BY <3>4
    <3> QED BY <1>6, <3>1, <3>2, <3>3, <3>5
  <2> QED BY <2>1, <2>2
<1>10. ASSUME NEW e \in P!Chan, dd[e] > count
       PROVE  \E i \in w + 1 .. n + 1 : dd[e] = more[i]
  <2>1. CASE e = c
    BY <1>5, <1>6, <2>1
  <2>2. CASE e # c
    <3>1. dd[e] = cc[e]
      BY <1>6, <2>2
    <3>2. PICK i \in w + 1 .. n : cc[e] = times[i]
      BY <1>7, <1>10, <3>1
    <3> QED BY <1>4, <3>1, <3>2
  <2> QED BY <2>1, <2>2
<1>11. w <= n + 1 /\ count <= more[n + 1]
  BY <1>1
<1> QED BY <1>7, <1>8, <1>9, <1>10, <1>11 DEF Cut, w
(* The time the handler loads next: it does not wrap. *)
LEMMA NextTime ==
  ASSUME Short, NEW t, NEW r \in Sender, r.data \in Signals, Ring(t, r), r.stop = P!NoStop
  PROVE  /\ P!Toggle(r) \in Nat
         /\ P!Toggle(r) # 0 => r.index < 2 * Len(r.data) /\ NextAt(r.last + P!Toggle(r), r)
         /\ P!Toggle(r) = 0 => r.index = 2 * Len(r.data) /\ EndAt(r.last + Config.end, r)
<1>1. /\ r.last \in Nat /\ r.index \in Nat /\ Len(r.data) \in Nat
      /\ r.last <= Lead + r.index * Longest /\ r.index <= 2 * Len(r.data)
  BY Constants DEF Sender, Ring
<1>2. /\ P!Toggle(r) \in Nat /\ P!Toggle(r) <= Longest
      /\ P!Toggle(r) # 0 <=> r.index < 2 * Len(r.data)
  BY ToggleBounds
<1>3. PICK index \in Nat, last \in Nat, v \in Nat :
         index = r.index /\ last = r.last /\ v = P!Toggle(r)
  BY <1>1, <1>2
<1>4. /\ \A x \in Nat : x <= Longest /\ index < 2 * Len(r.data) =>
            /\ (last + x) % Width = last + x
            /\ last + x <= Lead + (index + 1) * Longest
      /\ index <= 2 * Len(r.data) => (last + Config.end) % Width = last + Config.end
  BY <1>1, <1>3, NoWrap
<1>5. ASSUME P!Toggle(r) # 0
      PROVE  r.index < 2 * Len(r.data) /\ NextAt(r.last + P!Toggle(r), r)
  <2>1. index < 2 * Len(r.data) /\ v <= Longest
    BY <1>2, <1>3, <1>5
  <2>2. (last + v) % Width = last + v
    BY <1>4, <2>1
  <2> QED BY <1>3, <2>1, <2>2 DEF NextAt
<1>6. ASSUME P!Toggle(r) = 0
      PROVE  r.index = 2 * Len(r.data) /\ EndAt(r.last + Config.end, r)
  <2>1. r.index = 2 * Len(r.data)
    BY <1>1, <1>2, <1>6
  <2>2. (last + Config.end) % Width = last + Config.end
    BY <1>1, <1>3, <1>4
  <2> QED BY <1>3, <2>1, <2>2 DEF EndAt
<1> QED BY <1>2, <1>5, <1>6

LEMMA ShownFrame ==
  ASSUME NEW t, NEW r, NEW m, r.statue # 2, m.statue # 2, Waves(t, r),
         m.wave = r.wave, m.ppi = r.ppi, m.pins = r.pins, m.data = r.data,
         NEW u
  PROVE  Waves(u, m)
BY DEF Waves, Shown

(* A channel served while the send is on: it has shown its toggle, and gets *)
(* the next; the one that stops the send is the last to be shown.           *)
LEMMA ServedShows ==
  ASSUME Short, NEW c \in P!Chan, NEW s \in States, s.ir.data \in Signals,
         Ring(s.t1, s.ir), s.ir.statue = 2, c \in s.t1.events,
         NEW times \in TimeSeq, Shows(times, s.t1, s.ir),
         NEW q, Clears(q, s, c), NEW r, Serves(r, q, c)
  PROVE  Waves(r.t1, r.ir)
<1>1. /\ s.ir \in Sender /\ s.ir.last \in Nat /\ s.ir.index \in Nat /\ s.ir.wave \in TimeSeq
      /\ s.ir.data \in BitSeq /\ Len(s.ir.data) \in Nat /\ Len(s.ir.wave) \in Nat
      /\ s.t1.cc \in [P!Chan -> Nat] /\ s.t1.count \in Nat
      /\ Config.end \in Nat /\ Config.end > 0
  <2>1. s.ir \in Sender /\ s.t1 \in Timer1
    BY DEF States
  <2>2. /\ s.ir.last \in Nat /\ s.ir.index \in Nat /\ s.ir.wave \in TimeSeq
        /\ s.ir.data \in BitSeq
    BY <2>1 DEF Sender
  <2>3. Len(s.ir.data) \in Nat /\ Len(s.ir.wave) \in Nat
    BY <2>2 DEF BitSeq, TimeSeq
  <2>4. s.t1.cc \in [P!Chan -> Nat] /\ s.t1.count \in Nat
    BY <2>1 DEF Timer1
  <2>5. Config.end \in Nat /\ Config.end > 0
    <3>1. Config.end \in Nat \ {0}
      BY Constants
    <3> QED BY ONLY <3>1
  <2> QED BY ONLY <2>1, <2>2, <2>3, <2>4, <2>5
<1>2. /\ q \in States /\ q.ir = s.ir
      /\ q.t1.events = s.t1.events \ {c} /\ q.t1.cc = s.t1.cc
      /\ q.t1.count = s.t1.count /\ q.t1.clears = s.t1.clears
  BY Cleared
<1> DEFINE n == Number(s.ir)
           d == P!Durations(s.ir.data)
           all == 2 * Len(s.ir.data) + 4
<1>3. /\ s.ir.ppi /\ ~s.t1.clears /\ Timed(times, n, d)
      /\ times[n] = LastTime(s.t1, s.ir)
      /\ Cut(times, s.ir.wave, s.t1.cc, s.t1.count)
      /\ \A e \in s.t1.events : s.t1.cc[e] <= s.t1.count
  BY DEF Shows
<1>4. s.t1.cc[c] <= s.t1.count
  BY <1>3
<1>5. n \in Nat /\ n > 0 /\ n = Len(times)
  BY <1>1, <1>3 DEF Number, Timed
<1>6. CASE s.ir.stop = c
  <2>1. /\ r.ir.statue = 1 /\ r.ir.data = s.ir.data /\ r.ir.wave = s.ir.wave
        /\ r.ir.ppi = s.ir.ppi /\ r.ir.pins = "in"
    BY <1>2, <1>6, StopChan
  <2>2. n = all /\ times[n] = s.t1.cc[c]
    BY <1>3, <1>6 DEF Number, LastTime, P!Chan, P!NoStop
  <2>3. Len(s.ir.wave) = n
    <3>1. SUFFICES ASSUME Len(s.ir.wave) # n  PROVE FALSE
      OBVIOUS
    <3>2. n \in Len(s.ir.wave) + 1 .. Len(times)
      BY <1>1, <1>3, <1>5, <3>1 DEF Cut
    <3>3. times[n] > s.t1.count
      BY <1>3, <3>2 DEF Cut
    <3> QED BY <1>1, <1>4, <2>2, <3>3
  <2>4. s.ir.wave = times
    <3>1. \A i \in 1 .. n : s.ir.wave[i] = times[i]
      BY <1>3, <2>3 DEF Cut
    <3> QED BY <1>1, <1>5, <2>3, <3>1, SeqEqual DEF TimeSeq
  <2>5. Timed(s.ir.wave, all, d)
    BY <1>3, <2>2, <2>4
  <2> QED BY <1>3, <2>1, <2>5 DEF Waves, Shown
<1>7. CASE s.ir.stop # c /\ s.ir.stop # P!NoStop
  <2>1. r = q
    BY <1>2, <1>7, Zenon DEF P!ConfigChan, Serves
  <2>2. Shows(times, q.t1, q.ir)
    BY <1>2, <1>3 DEF Shows, LastTime
  <2> QED BY <1>2, <2>1, <2>2 DEF Waves
<1>8. ASSUME s.ir.stop = P!NoStop, NEW v \in Nat, v > 0, v = d[n + 1],
             NEW at, at = s.ir.last + v, Gives(r.t1.cc, s.t1.cc, c, at),
             r.t1.events = s.t1.events \ {c}, r.t1.count = s.t1.count, ~r.t1.clears,
             r.ir.statue = 2, r.ir.ppi, r.ir.data = s.ir.data, r.ir.wave = s.ir.wave,
             Number(r.ir) = n + 1, LastTime(r.t1, r.ir) = at
      PROVE  Waves(r.t1, r.ir)
  <2>1. times[n] = s.ir.last
    BY <1>3, <1>8 DEF LastTime
  <2>2. PICK durations : durations = d
    OBVIOUS
  <2>3. n \in Nat /\ n > 0 /\ Timed(times, n, durations)
        /\ durations[n + 1] \in Nat /\ durations[n + 1] > 0
    <3> HIDE DEF n, d
    <3>1. v \in Nat
      OBVIOUS
    <3> QED BY ONLY <1>3, <1>5, <1>8, <2>2, <3>1
  <2>4. PICK more \in TimeSeq :
          /\ Timed(more, n + 1, d) /\ more[n + 1] = at /\ at \in Nat /\ times[n] < at
          /\ \A i \in 1 .. n : more[i] = times[i]
    <3> HIDE DEF n, d
    <3>1. at = times[n] + durations[n + 1]
      BY ONLY <1>8, <2>1, <2>2
    <3>2. \E more \in TimeSeq :
            /\ Timed(more, n + 1, durations) /\ more[n + 1] = times[n] + durations[n + 1]
            /\ times[n] + durations[n + 1] \in Nat /\ times[n] < times[n] + durations[n + 1]
            /\ \A i \in 1 .. n : more[i] = times[i]
      BY ONLY <2>3, TimedNext
    <3> QED BY ONLY <2>2, <3>1, <3>2
  <2>9. Len(more) = n + 1
    BY <2>4 DEF Timed
  <2>5. at > s.t1.count
    <3>1. s.t1.count <= times[n]
      BY <1>3, <1>5 DEF Cut
    <3> QED BY <1>1, <2>1, <2>4, <3>1
  <2>6. Cut(more, s.ir.wave, r.t1.cc, s.t1.count)
    <3> HIDE DEF n
    <3>1. PICK cc \in [P!Chan -> Nat], count \in Nat, wave \in TimeSeq :
             cc = s.t1.cc /\ count = s.t1.count /\ wave = s.ir.wave
      BY <1>1
    <3>2. PICK dd : dd = r.t1.cc
      OBVIOUS
    <3>3. Cut(times, wave, cc, count) /\ cc[c] <= count /\ at > count /\ Gives(dd, cc, c, at)
      BY ONLY <1>3, <1>4, <1>8, <2>5, <3>1, <3>2
    <3>4. c \in P!Chan /\ times \in TimeSeq
      OBVIOUS
    <3>5. Cut(more, wave, dd, count)
      BY ONLY <1>5, <2>4, <2>9, <3>1, <3>3, <3>4, CutMore
    <3> QED BY ONLY <3>1, <3>2, <3>5
  <2>7. \A e \in r.t1.events : r.t1.cc[e] <= r.t1.count
    <3>1. \A e \in P!Chan : e # c => r.t1.cc[e] = s.t1.cc[e]
      BY <1>1, <1>8 DEF Gives
    <3>2. s.t1.events \subseteq P!Chan
      BY DEF States, Timer1
    <3> QED BY <1>3, <1>8, <3>1, <3>2
  <2>8. Shows(more, r.t1, r.ir)
    BY <1>8, <2>4, <2>6, <2>7 DEF Shows
  <2> QED BY <1>8, <2>4, <2>8 DEF Waves
<1>9. s.ir.stop = P!NoStop =>
         /\ P!Toggle(s.ir) \in Nat
         /\ P!Toggle(s.ir) # 0 => s.ir.index < 2 * Len(s.ir.data)
                                /\ NextAt(s.ir.last + P!Toggle(s.ir), s.ir)
         /\ P!Toggle(s.ir) = 0 => s.ir.index = 2 * Len(s.ir.data)
                                /\ EndAt(s.ir.last + Config.end, s.ir)
  BY <1>1, NextTime
<1>10. CASE s.ir.stop = P!NoStop /\ P!Toggle(s.ir) # 0
  <2>1. PICK v \in Nat, at \in Nat : v = P!Toggle(s.ir) /\ at = s.ir.last + v
    BY <1>1, <1>9, <1>10
  <2>2. q.ir.stop = P!NoStop /\ P!Toggle(q.ir) # 0 /\ NextAt(at, q.ir)
    BY <1>2, <1>9, <1>10, <2>1
  <2>3. /\ Gives(r.t1.cc, q.t1.cc, c, at) /\ r.t1.events = q.t1.events
        /\ r.t1.count = q.t1.count /\ r.t1.clears = q.t1.clears
        /\ r.ir.statue = q.ir.statue /\ r.ir.stop = P!NoStop /\ r.ir.last = at
        /\ r.ir.index = q.ir.index + 1 /\ r.ir.data = q.ir.data
        /\ r.ir.wave = q.ir.wave /\ r.ir.ppi = q.ir.ppi
    BY <1>2, <2>2, NextChan
  <2>4. v = d[n + 1] /\ v > 0
    <3>1. n + 1 = 4 + s.ir.index
      BY <1>1, <1>10 DEF Number
    <3>2. P!Toggle(s.ir) = d[4 + s.ir.index]
      BY <1>1, <1>9, <1>10, ToggleIsDuration
    <3> QED BY <1>10, <2>1, <3>1, <3>2
  <2>5. Number(r.ir) = n + 1 /\ LastTime(r.t1, r.ir) = at
    BY <1>1, <1>2, <1>10, <2>3 DEF Number, LastTime
  <2>6. Gives(r.t1.cc, s.t1.cc, c, at)
    BY <1>2, <2>3, Zenon
  <2>7. /\ r.t1.events = s.t1.events \ {c} /\ r.t1.count = s.t1.count /\ ~r.t1.clears
        /\ r.ir.statue = 2 /\ r.ir.ppi /\ r.ir.data = s.ir.data /\ r.ir.wave = s.ir.wave
    BY <1>2, <1>3, <2>3
  <2> HIDE DEF n, d
  <2> QED BY ONLY <1>8, <1>10, <2>1, <2>4, <2>5, <2>6, <2>7
<1>11. CASE s.ir.stop = P!NoStop /\ P!Toggle(s.ir) = 0
  <2>1. PICK v \in Nat, at \in Nat : v = Config.end /\ at = s.ir.last + v
    BY ONLY <1>1
  <2>2. q.ir.stop = P!NoStop /\ P!Toggle(q.ir) = 0 /\ EndAt(at, q.ir)
    BY <1>2, <1>9, <1>11, <2>1
  <2>3. /\ Gives(r.t1.cc, q.t1.cc, c, at) /\ r.t1.events = q.t1.events
        /\ r.t1.count = q.t1.count /\ r.t1.clears = q.t1.clears
        /\ r.ir.statue = q.ir.statue /\ r.ir.stop = c /\ r.ir.data = q.ir.data
        /\ r.ir.wave = q.ir.wave /\ r.ir.ppi = q.ir.ppi
    BY <1>2, <2>2, LastChan
  <2>4. v = d[n + 1] /\ v > 0 /\ n + 1 = all
    <3>1. n + 1 = all
      BY <1>1, <1>9, <1>11 DEF Number
    <3>2. d[all] = Config.end
      BY <1>1, DurationsAre
    <3> QED BY <1>1, <2>1, <3>1, <3>2
  <2>5. Gives(r.t1.cc, s.t1.cc, c, at)
    BY <1>2, <2>3, Zenon
  <2>6. Number(r.ir) = n + 1 /\ LastTime(r.t1, r.ir) = at
    <3>1. c # P!NoStop
      BY DEF P!Chan, P!NoStop
    <3>2. r.t1.cc[c] = at
      BY <1>1, <2>5 DEF Gives
    <3>3. Number(r.ir) = all
      BY <1>2, <2>3, <3>1 DEF Number
    <3> QED BY <2>3, <2>4, <3>1, <3>2, <3>3 DEF LastTime
  <2>7. /\ r.t1.events = s.t1.events \ {c} /\ r.t1.count = s.t1.count /\ ~r.t1.clears
        /\ r.ir.statue = 2 /\ r.ir.ppi /\ r.ir.data = s.ir.data /\ r.ir.wave = s.ir.wave
    BY <1>2, <1>3, <2>3
  <2> HIDE DEF n, d
  <2> QED BY ONLY <1>8, <1>11, <2>1, <2>4, <2>5, <2>6, <2>7
<1> QED BY <1>6, <1>7, <1>10, <1>11

(* A channel served after the send was over shows nothing. *)
LEMMA ServedShown ==
  ASSUME Short, NEW c \in P!Chan, NEW s \in States, s.ir.data \in Signals,
         s.ir.statue = 1, s.ir.stop = P!NoStop, Waves(s.t1, s.ir),
         NEW q, Clears(q, s, c), NEW r, Serves(r, q, c)
  PROVE  Waves(r.t1, r.ir)
<1>1. /\ s.ir \in Sender /\ s.ir.last \in Nat /\ Config.end \in Nat /\ Width \in Nat \ {0}
  BY Constants DEF States, Sender
<1>2. q \in States /\ q.ir = s.ir /\ P!Toggle(q.ir) \in Nat
  BY <1>1, Cleared, ToggleIsNat
<1>3. /\ r.ir.statue = 1 /\ r.ir.wave = s.ir.wave /\ r.ir.ppi = s.ir.ppi
      /\ r.ir.pins = s.ir.pins /\ r.ir.data = s.ir.data
  <2>1. CASE P!Toggle(q.ir) # 0
    <3>1. PICK at \in Nat : NextAt(at, q.ir)
      BY <1>1, <1>2 DEF NextAt
    <3> QED BY <1>2, <2>1, <3>1, NextChan
  <2>2. CASE P!Toggle(q.ir) = 0
    <3>1. PICK at \in Nat : EndAt(at, q.ir)
      BY <1>1, <1>2 DEF EndAt
    <3> QED BY <1>2, <2>2, <3>1, LastChan
  <2> QED BY <2>1, <2>2
<1> QED BY <1>3, ShownFrame

LEMMA ServedWaves ==
  ASSUME Short, NEW c \in P!Chan, NEW s, Turn(s, c), Waves(s.t1, s.ir),
         NEW r, r = P!Served(s, c)
  PROVE  Waves(r.t1, r.ir)
<1>1. s \in States /\ s.ir.data \in Signals /\ (Sends(s) \/ Ended(s, c))
  BY DEF Turn
<1>2. CASE c \notin s.t1.events
  <2>1. r = s
    BY <1>2 DEF P!Served
  <2> QED BY <2>1
<1>3. CASE c \in s.t1.events
  <2>1. PICK q : Clears(q, s, c)
    BY DEF Clears
  <2>2. Serves(r, q, c)
    BY <1>3, <2>1 DEF P!Served, Serves, Clears
  <2>3. CASE Sends(s)
    <3>1. PICK times \in TimeSeq : Shows(times, s.t1, s.ir)
      BY <2>3 DEF Sends, Waves
    <3> QED BY <1>1, <1>3, <2>1, <2>2, <2>3, <3>1, ServedShows DEF Sends
  <2>4. CASE Ended(s, c)
    BY <1>1, <2>1, <2>2, <2>4, ServedShown DEF Ended
  <2> QED BY <1>1, <2>3, <2>4
<1> QED BY <1>2, <1>3

LEMMA HandlerWaves ==
  ASSUME Short, NEW s0, Turn(s0, 0), Waves(s0.t1, s0.ir), NEW s1, NEW s2, NEW s3, NEW s4,
         s1 = P!Served(s0, 0), s2 = P!Served(s1, 1), s3 = P!Served(s2, 2),
         s4 = P!Served(s3, 3)
  PROVE  Waves(s4.t1, s4.ir)
<1>1. 0 \in P!Chan /\ 1 \in P!Chan /\ 2 \in P!Chan /\ 3 \in P!Chan
  BY DEF P!Chan
<1>2. Turn(s1, 1) /\ Waves(s1.t1, s1.ir)
  <2>1. Turn(s1, 0 + 1)
    BY <1>1, ServedTurn
  <2> QED BY <1>1, <2>1, ServedWaves
<1>3. Turn(s2, 2) /\ Waves(s2.t1, s2.ir)
  <2>1. Turn(s2, 1 + 1)
    BY <1>1, <1>2, ServedTurn
  <2> QED BY <1>1, <1>2, <2>1, ServedWaves
<1>4. Turn(s3, 3) /\ Waves(s3.t1, s3.ir)
  <2>1. Turn(s3, 2 + 1)
    BY <1>1, <1>3, ServedTurn
  <2> QED BY <1>1, <1>3, <2>1, ServedWaves
<1> QED BY <1>1, <1>4, ServedWaves

LEMMA SendIRQHandlerShowing ==
  ASSUME Short, Inv, Showing, P!SendIRQHandler
  PROVE  Showing'
<1>1. /\ own[1] = "infrared"
      /\ P!Becomes(P!Served(P!Served(P!Served(P!Served(P!State, 0), 1), 2), 3))
  BY DEF P!SendIRQHandler
<1>2. ir.statue = 2
  BY <1>1 DEF Inv, Hands
<1>3. own = Both("infrared") /\ Sending(t1, ir)
  BY <1>2, InfraredOwner
<1>4. PICK s0 : s0 = P!State
  OBVIOUS
<1>5. s0 \in States /\ s0.own = own /\ s0.t1 = t1 /\ s0.t2 = t2 /\ s0.ir = ir
  BY <1>4, StateTyped DEF Inv
<1>6. PICK s1 : s1 = P!Served(s0, 0)
  OBVIOUS
<1>7. PICK s2 : s2 = P!Served(s1, 1)
  OBVIOUS
<1>8. PICK s3 : s3 = P!Served(s2, 2)
  OBVIOUS
<1>9. PICK s4 : s4 = P!Served(s3, 3)
  OBVIOUS
<1>10. s4.t1 = t1' /\ s4.ir = ir'
  BY <1>1, <1>4, <1>6, <1>7, <1>8, <1>9 DEF P!Becomes
<1>11. Turn(s0, 0)
  <2>1. \A d \in P!Chan : ~(d < 0)
    BY DEF P!Chan
  <2> QED BY <1>2, <1>3, <1>5, <2>1 DEF Turn, Sends, Sending
<1>12. Waves(s0.t1, s0.ir)
  BY <1>5 DEF Showing
<1>13. Waves(s4.t1, s4.ir)
  BY <1>6, <1>7, <1>8, <1>9, <1>11, <1>12, HandlerWaves
<1> QED BY <1>10, <1>13 DEF Showing

(* A compare shows the next toggle. *)
LEMMA CutShown ==
  ASSUME NEW times \in TimeSeq, NEW n \in Nat, NEW d, Timed(times, n, d),
         NEW wave, NEW cc \in [P!Chan -> Nat], NEW count \in Nat,
         Cut(times, wave, cc, count), NEW f \in P!Chan, NEW now \in Nat, now = cc[f],
         now > count, \A e \in P!Chan : cc[e] > count => now <= cc[e],
         NEW more, more = Append(wave, now)
  PROVE  Cut(times, more, cc, now)
<1>1. /\ Len(times) = n /\ \A i \in 1 .. n : times[i] \in Nat
      /\ \A i, j \in 1 .. n : i < j => times[i] < times[j]
  BY DEF Timed, TimeSeq
<1>2. PICK w : w = Len(wave)
  OBVIOUS
<1>3. /\ wave \in Seq(Nat) /\ w \in Nat /\ w <= n
      /\ \A i \in 1 .. w : wave[i] = times[i] /\ times[i] <= count
      /\ \A i \in w + 1 .. n : times[i] > count /\ \E e \in P!Chan : cc[e] = times[i]
      /\ \A e \in P!Chan : cc[e] > count => \E i \in w + 1 .. n : cc[e] = times[i]
  BY <1>1, <1>2 DEF Cut, TimeSeq
<1>4. PICK k \in w + 1 .. n : now = times[k]
  BY <1>3
<1>5. w + 1 \in w + 1 .. n /\ w + 1 \in 1 .. n /\ k \in 1 .. n /\ (k = w + 1 \/ w + 1 < k)
  BY <1>3
<1>6. now = times[w + 1]
  <2>1. PICK e \in P!Chan : cc[e] = times[w + 1]
    BY <1>3, <1>5
  <2>2. now <= times[w + 1]
    BY <1>3, <1>5, <2>1
  <2>3. times[w + 1] \in Nat /\ times[k] \in Nat
    BY <1>1, <1>5
  <2>4. times[k] = now /\ (k = w + 1 \/ times[w + 1] < times[k])
    BY <1>1, <1>4, <1>5
  <2>5. CASE k = w + 1
    BY <2>4, <2>5
  <2>6. CASE times[w + 1] < times[k]
    BY ONLY <2>2, <2>3, <2>4, <2>6
  <2> QED BY <2>4, <2>5, <2>6
<1>7. /\ more \in Seq(Nat) /\ Len(more) = w + 1 /\ more[w + 1] = now
      /\ \A i \in 1 .. w : more[i] = wave[i]
  BY <1>2, <1>3
<1>8. ASSUME NEW i \in 1 .. w + 1
      PROVE  more[i] = times[i] /\ times[i] <= now
  <2>1. CASE i = w + 1
    BY <1>6, <1>7, <2>1
  <2>2. CASE i # w + 1
    <3>1. i \in 1 .. w /\ i \in 1 .. n
      BY <1>3, <2>2
    <3>2. times[i] \in Nat /\ times[i] <= count
      BY <1>1, <1>3, <3>1
    <3> QED BY <1>3, <1>7, <3>1, <3>2
  <2> QED BY <2>1, <2>2
<1>9. ASSUME NEW i \in w + 2 .. n
      PROVE  times[i] > now /\ \E e \in P!Chan : cc[e] = times[i]
  <2>1. i \in w + 1 .. n /\ i \in 1 .. n /\ w + 1 < i
    BY <1>3
  <2>2. times[i] \in Nat /\ times[w + 1] < times[i]
    BY <1>1, <1>5, <2>1
  <2> QED BY <1>3, <1>6, <2>1, <2>2
<1>10. ASSUME NEW e \in P!Chan, cc[e] > now
       PROVE  \E i \in w + 2 .. n : cc[e] = times[i]
  <2>1. cc[e] \in Nat /\ cc[e] > count
    BY <1>10
  <2>2. PICK i \in w + 1 .. n : cc[e] = times[i]
    BY <1>3, <2>1
  <2>3. i # w + 1
    BY <1>6, <1>10, <2>1, <2>2
  <2>4. i \in w + 2 .. n
    BY <1>3, <2>3
  <2> QED BY <2>2, <2>4
<1>11. now <= times[n]
  <2>1. n \in 1 .. n /\ k \in 1 .. n /\ (k = n \/ k < n)
    BY <1>5
  <2>2. times[k] = now /\ (k = n \/ times[k] < times[n])
    BY <1>1, <1>4, <2>1
  <2>3. times[k] \in Nat /\ times[n] \in Nat
    BY <1>1, <2>1
  <2>4. CASE k = n
    BY ONLY <2>2, <2>3, <2>4
  <2>5. CASE times[k] < times[n]
    BY ONLY <2>2, <2>3, <2>5
  <2> QED BY <2>2, <2>4, <2>5
<1>12. w + 1 <= n /\ (w + 1) + 1 = w + 2
  BY <1>3, <1>5
<1>13. more \in TimeSeq /\ Len(more) <= Len(times) /\ now <= times[Len(times)]
  BY <1>1, <1>7, <1>11, <1>12 DEF TimeSeq
<1>14. /\ \A i \in 1 .. Len(more) : more[i] = times[i] /\ times[i] <= now
       /\ \A i \in Len(more) + 1 .. Len(times) :
             times[i] > now /\ \E e \in P!Chan : cc[e] = times[i]
       /\ \A e \in P!Chan : cc[e] > now =>
             \E i \in Len(more) + 1 .. Len(times) : cc[e] = times[i]
  <2>1. Len(more) = w + 1 /\ Len(more) + 1 = w + 2 /\ Len(times) = n
    BY <1>1, <1>7, <1>12
  <2> QED BY ONLY <1>8, <1>9, <1>10, <2>1
<1> QED BY ONLY <1>13, <1>14 DEF Cut

LEMMA CompareShowing ==
  ASSUME Short, Inv, Showing, P!Compare
  PROVE  Showing'
<1>8. /\ t1.run /\ Ahead(t1) # {}
      /\ t1' = [t1 EXCEPT !.events = @ \cup Fires(t1),
                   !.count = IF t1.clears /\ 0 \in Fires(t1) THEN 0
                             ELSE t1.cc[CHOOSE c \in Fires(t1) : TRUE],
                   !.run = Fires(t1) \cap t1.stops = {}]
      /\ ir' = (IF ir.ppi THEN [ir EXCEPT !.wave =
                                   Append(@, t1.cc[CHOOSE c \in Fires(t1) : TRUE])]
                ELSE ir)
  BY Zenon DEF P!Compare, Ahead, Fires
<1>9. PICK fires, now : fires = Fires(t1) /\ now = t1.cc[CHOOSE c \in fires : TRUE]
  OBVIOUS
<1>1. /\ fires = Fires(t1) /\ now = t1.cc[CHOOSE c \in fires : TRUE]
      /\ t1.run /\ Ahead(t1) # {}
      /\ t1' = [t1 EXCEPT !.events = @ \cup fires,
                   !.count = IF t1.clears /\ 0 \in fires THEN 0 ELSE now,
                   !.run = fires \cap t1.stops = {}]
      /\ ir' = (IF ir.ppi THEN [ir EXCEPT !.wave = Append(@, now)] ELSE ir)
  BY <1>8, <1>9
<1>2. t1 \in Timer1 /\ ir \in Sender
  BY DEF Inv, Types
<1>3. PICK f \in P!Chan : f \in fires /\ now = t1.cc[f]
  BY <1>1, <1>2, OneFires DEF Fires, Ahead
<1>4. /\ t1.cc \in [P!Chan -> Nat] /\ t1.count \in Nat /\ now \in Nat
      /\ t1.events \subseteq P!Chan
  BY <1>2, <1>3 DEF Timer1
<1>5. /\ now > t1.count /\ \A e \in P!Chan : t1.cc[e] > t1.count => now <= t1.cc[e]
      /\ \A e \in fires : e \in P!Chan /\ t1.cc[e] <= now
  BY <1>1, <1>3 DEF Fires, Ahead
<1>6. CASE ir.statue = 2
  <2>1. PICK times \in TimeSeq : Shows(times, t1, ir)
    BY <1>6 DEF Showing, Waves
  <2>2. /\ ir.ppi /\ ~t1.clears /\ Timed(times, Number(ir), P!Durations(ir.data))
        /\ times[Number(ir)] = LastTime(t1, ir)
        /\ Cut(times, ir.wave, t1.cc, t1.count)
        /\ \A c \in t1.events : t1.cc[c] <= t1.count
    BY <2>1 DEF Shows
  <2>3. PICK more : more = Append(ir.wave, now)
    OBVIOUS
  <2>4. Cut(times, more, t1.cc, now)
    <3>1. PICK n, d : n = Number(ir) /\ d = P!Durations(ir.data)
      OBVIOUS
    <3>2. n \in Nat
      BY <2>2, <3>1 DEF Timed, TimeSeq
    <3>3. Timed(times, n, d) /\ Cut(times, ir.wave, t1.cc, t1.count)
      BY <2>2, <3>1
    <3> QED BY ONLY <1>3, <1>4, <1>5, <2>1, <2>3, <3>2, <3>3, CutShown
  <2>5. /\ t1'.events = t1.events \cup fires /\ t1'.count = now /\ t1'.cc = t1.cc
        /\ ~t1'.clears
    BY <1>1, <1>2, <2>2 DEF Timer1
  <2>6. /\ ir'.wave = more /\ ir'.ppi /\ ir'.data = ir.data /\ ir'.statue = 2
        /\ ir'.stop = ir.stop /\ ir'.index = ir.index /\ ir'.last = ir.last
    <3>1. ir' = [ir EXCEPT !.wave = more]
      BY <1>1, <2>2, <2>3
    <3> QED BY <1>2, <1>6, <2>2, <3>1 DEF Sender
  <2>7. Number(ir') = Number(ir) /\ LastTime(t1', ir') = LastTime(t1, ir)
    BY <2>5, <2>6 DEF Number, LastTime
  <2>8. \A c \in t1'.events : t1'.cc[c] <= t1'.count
    <3>1. \A c \in t1.events : t1.cc[c] <= now
      <4>1. \A c \in t1.events : t1.cc[c] \in Nat
        BY <1>4
      <4> QED BY <1>4, <1>5, <2>2, <4>1
    <3> QED BY <1>5, <2>5, <3>1
  <2>9. Shows(times, t1', ir')
    BY <2>2, <2>4, <2>5, <2>6, <2>7, <2>8 DEF Shows
  <2> QED BY <2>1, <2>6, <2>9 DEF Showing, Waves
<1>7. CASE ir.statue # 2
  <2>1. ~ir.ppi
    BY <1>1, <1>7 DEF Inv, Timing, Signalling
  <2>2. ir' = ir
    BY <1>1, <2>1
  <2> QED BY <1>7, <2>2 DEF Showing, Waves
<1> QED BY <1>6, <1>7

(* The first four toggles are in the channels and none has been shown. *)
LEMMA StartsShowing ==
  ASSUME Short, NEW s \in States, Fresh(s), NEW r, NEW at \in Nat, Starts(r, s, at)
  PROVE  Waves(r.t1, r.ir)
<1>1. /\ s.ir \in Sender /\ s.ir.data \in Signals /\ s.ir.data \in BitSeq
      /\ s.ir.index = 0 /\ 0 < 2 * Len(s.ir.data)
  BY Constants DEF States, Fresh, BitSeq
<1>2. PICK d : d = P!Durations(s.ir.data)
  OBVIOUS
<1>3. P!Toggle(s.ir) = d[4]
  <2>1. P!Toggle(s.ir) = d[4 + s.ir.index]
    BY <1>1, <1>2, ToggleIsDuration
  <2> QED BY <1>1, <2>1
<1>4. d[1] = Config.lead /\ d[2] = Config.mark /\ d[3] = Config.rest
  BY <1>1, <1>2, DurationsAre
<1>5. P!Toggle(s.ir) \in Nat /\ P!Toggle(s.ir) > 0
  <2>1. s.ir.index <= 2 * Len(s.ir.data) /\ s.ir.index < 2 * Len(s.ir.data)
    BY <1>1
  <2> QED BY <1>1, <2>1, ToggleBounds
<1>15. PICK a, b, e :
         a = Config.lead /\ b = a + Config.mark /\ e = b + Config.rest
  OBVIOUS
<1>6. /\ a \in Nat /\ b \in Nat /\ e \in Nat /\ at \in Nat
      /\ 0 < a /\ a < b /\ b < e /\ e < at
      /\ a = Config.lead /\ b = Config.lead + Config.mark /\ e = Lead
      /\ a = 0 + d[1] /\ b = a + d[2] /\ e = b + d[3] /\ at = e + d[4]
  <2>1. PICK lead \in Nat \ {0}, mark \in Nat \ {0}, rest \in Nat \ {0} :
           lead = Config.lead /\ mark = Config.mark /\ rest = Config.rest
    BY Constants
  <2>2. a = lead /\ b = lead + mark /\ e = (lead + mark) + rest
    BY <1>15, <2>1
  <2>3. e = Lead /\ at = Lead + P!Toggle(s.ir)
    BY <1>15 DEF Lead, Starts
  <2>4. PICK v \in Nat : v = d[4] /\ v > 0 /\ v = P!Toggle(s.ir)
    BY <1>3, <1>5
  <2>5. at = e + v
    BY <2>3, <2>4
  <2>6. /\ a \in Nat /\ b \in Nat /\ e \in Nat /\ at \in Nat
        /\ 0 < a /\ a < b /\ b < e /\ e < at /\ a = 0 + lead
    BY ONLY <2>1, <2>2, <2>4, <2>5
  <2> QED BY <1>4, <1>15, <2>1, <2>3, <2>4, <2>5, <2>6
<1>7. PICK times : times = <<a, b, e, at>>
  OBVIOUS
<1>8. /\ times \in Seq(Nat) /\ Len(times) = 4
      /\ times[1] = a /\ times[2] = b /\ times[3] = e /\ times[4] = at
  BY <1>6, <1>7
<1>9. Timed(times, 4, d)
  <2>1. \A i \in 1 .. 4 : i = 1 \/ i = 2 \/ i = 3 \/ i = 4
    OBVIOUS
  <2>2. \A i \in 1 .. 4 : times[i] = (IF i = 1 THEN 0 ELSE times[i - 1]) + d[i]
    <3>1. times[1] = 0 + d[1] /\ times[2] = times[1] + d[2]
          /\ times[3] = times[2] + d[3] /\ times[4] = times[3] + d[4]
      BY ONLY <1>6, <1>8
    <3>2. 2 - 1 = 1 /\ 3 - 1 = 2 /\ 4 - 1 = 3
      OBVIOUS
    <3> QED BY ONLY <2>1, <3>1, <3>2
  <2>3. ASSUME NEW i \in 1 .. 4, NEW j \in 1 .. 4, i < j  PROVE times[i] < times[j]
    <3>1. a < b /\ a < e /\ a < at /\ b < e /\ b < at /\ e < at
      BY ONLY <1>6
    <3>2. \/ i = 1 /\ j \in {2, 3, 4}
          \/ i = 2 /\ j \in {3, 4}
          \/ i = 3 /\ j = 4
      BY <2>3
    <3>3. times[1] = a /\ times[2] = b /\ times[3] = e /\ times[4] = at
      BY <1>8
    <3> QED BY ONLY <3>1, <3>2, <3>3
  <2> QED BY <1>8, <2>2, <2>3 DEF Timed, TimeSeq
<1>10. r.t1.cc[0] = a /\ r.t1.cc[1] = b /\ r.t1.cc[2] = e /\ r.t1.cc[3] = at
  BY <1>6 DEF Starts
<1>11. /\ r.t1.count = 0 /\ r.t1.events = {} /\ ~r.t1.clears
       /\ r.ir.statue = 2 /\ r.ir.ppi /\ r.ir.wave = <<>> /\ r.ir.data = s.ir.data
       /\ r.ir.last = at /\ r.ir.index = 1 /\ r.ir.stop = P!NoStop
  BY DEF Starts
<1>12. Cut(times, <<>>, r.t1.cc, 0)
  <2>1. \A i \in 1 .. 4 : times[i] > 0 /\ \E c \in P!Chan : r.t1.cc[c] = times[i]
    <3>1. 0 < a /\ 0 < b /\ 0 < e /\ 0 < at
      BY ONLY <1>6
    <3>2. times[1] = a /\ times[2] = b /\ times[3] = e /\ times[4] = at
      BY <1>8
    <3>3. \A i \in 1 .. 4 : i = 1 \/ i = 2 \/ i = 3 \/ i = 4
      OBVIOUS
    <3>4. \A i \in 1 .. 4 : times[i] > 0
      BY ONLY <3>1, <3>2, <3>3
    <3> QED BY ONLY <1>10, <3>2, <3>3, <3>4, ChanNumbers
  <2>2. \A c \in P!Chan : \E i \in 1 .. 4 : r.t1.cc[c] = times[i]
    BY ONLY <1>8, <1>10, ChanNumbers
  <2>3. <<>> \in Seq(Nat) /\ Len(<<>>) = 0 /\ 0 + 1 = 1 /\ 0 <= times[4]
    BY <1>6, <1>8
  <2> QED BY <1>8, <2>1, <2>2, <2>3 DEF Cut, TimeSeq
<1>13. Number(r.ir) = 4 /\ LastTime(r.t1, r.ir) = at
  BY <1>11 DEF Number, LastTime
<1>14. Shows(times, r.t1, r.ir)
  BY <1>2, <1>8, <1>9, <1>11, <1>12, <1>13 DEF Shows
<1> QED BY <1>8, <1>11, <1>14 DEF Waves, TimeSeq

LEMMA InfraredSendShowing ==
  ASSUME Short, Inv, Showing, NEW data \in Signals, P!InfraredSend(data)
  PROVE  Showing'
<1>1. CASE UNCHANGED <<own, t1, t2, ir>>
  BY <1>1 DEF Showing
<1>2. ASSUME NEW s \in States, Paired(s), s.own = Both("infrared"), s.ir.statue = 2,
             Fresh(s), P!Becomes(P!PwmStart(s))
      PROVE  Showing'
  <2>1. PICK r : r = P!PwmStart(s)
    OBVIOUS
  <2>2. PICK at \in Nat : Starts(r, s, at)
    BY <1>2, <2>1, PwmStarted
  <2>3. Waves(r.t1, r.ir)
    BY <1>2, <2>2, StartsShowing
  <2>4. r.t1 = t1' /\ r.ir = ir'
    BY <1>2, <2>1 DEF P!Becomes
  <2> QED BY <2>3, <2>4 DEF Showing
<1> QED BY <1>1, <1>2, InfraredSendIs

LEMMA InfraredConfigShowing ==
  ASSUME Inv, Showing, P!InfraredConfig
  PROVE  Showing'
<1>1. /\ ir.statue <= 1 /\ ir' = [ir EXCEPT !.statue = 1]
  BY DEF P!InfraredConfig
<1>2. ir \in Sender /\ ir.statue # 2
  BY <1>1 DEF Inv, Types, Sender
<1>3. /\ ir'.statue = 1 /\ ir'.data = ir.data /\ ir'.wave = ir.wave
      /\ ir'.ppi = ir.ppi /\ ir'.pins = ir.pins
  BY <1>1, <1>2, StatueOf
<1> QED BY <1>2, <1>3, ShownFrame DEF Showing

(* The other steps leave the sender alone, and TIMER1 too while it sends. *)
LEMMA OthersShowing ==
  ASSUME Inv, Showing, ir' = ir, t1' = t1 \/ own[1] # "infrared"
  PROVE  Showing'
<1>1. t1' = t1 \/ ir.statue # 2
  BY DEF Inv, Hands
<1> QED BY <1>1 DEF Showing, Waves

LEMMA NextShowing ==
  ASSUME Short, Inv, Showing, AppNext \/ UNCHANGED <<vars, peripherals>>
  PROVE  Showing'
<1>1. CASE P!Compare
  BY <1>1, CompareShowing
<1>2. CASE P!SendIRQHandler
  BY <1>2, SendIRQHandlerShowing
<1>3. CASE P!InfraredConfig
  BY <1>3, InfraredConfigShowing
<1>4. CASE \E d \in Signals : P!InfraredSend(d)
  BY <1>4, InfraredSendShowing
<1>5. CASE ir' = ir /\ (t1' = t1 \/ own[1] # "infrared")
  BY <1>5, OthersShowing
<1>6. \/ P!Compare \/ P!SendIRQHandler \/ P!InfraredConfig
      \/ \E d \in Signals : P!InfraredSend(d)
      \/ ir' = ir /\ (t1' = t1 \/ own[1] # "infrared")
  <2>1. CASE Serving(Next) \/ UNCHANGED <<vars, peripherals>>
    BY <2>1 DEF Serving, peripherals
  <2>2. CASE P!Next
    <3>1. (\E stops \in BOOLEAN : P!TimerIRQHandler(stops)) \/ P!TimerStop
          => ir' = ir /\ own[1] # "infrared"
      BY DEF P!TimerIRQHandler, P!TimerStop
    <3>2. ASSUME NEW v \in Periods, P!TimerStart(v)
          PROVE  ir' = ir /\ own[1] # "infrared"
      BY <3>2 DEF P!TimerStart, P!Apply
    <3>3. \/ P!SetColor \/ P!LightDark \/ P!LightOn \/ P!LightOff \/ P!LightTimerInterrupt
          \/ P!NoteOn \/ P!NoteOff \/ P!PlaySound
          \/ P!ADC_IRQHandler \/ P!OnComplete \/ P!AdcMeasure
          \/ P!TimerFree \/ P!LightDisturbed
          => ir' = ir /\ t1' = t1
      BY Zenon DEF P!TimerFree, P!LightDisturbed, P!SetColor, P!LightDark, P!LightOn, P!LightOff, P!LightTimerInterrupt,
         P!NoteOn, P!NoteOff, P!PlaySound, P!ADC_IRQHandler, P!OnComplete, P!AdcMeasure
    <3>4. ASSUME NEW once \in BOOLEAN, P!TimerInit(once)  PROVE ir' = ir /\ t1' = t1
      BY <3>4 DEF P!TimerInit
    <3>5. ASSUME NEW v \in Colors, P!LightSetColor(v)  PROVE ir' = ir /\ t1' = t1
      BY <3>5 DEF P!LightSetColor
    <3> QED BY <2>2, <3>1, <3>2, <3>3, <3>4, <3>5, Zenon DEF P!Next, P!Steps
  <2> QED BY <2>1, <2>2 DEF AppNext
<1> QED BY <1>1, <1>2, <1>3, <1>4, <1>5, <1>6

LEMMA InitShowing == AppInit => Showing
BY DEF AppInit, P!Init, Showing, Waves, Shown

LEMMA InvWave ==
  ASSUME Short, Inv, Showing
  PROVE  WaveRight
<1>1. ir \in Sender /\ ir.data \in BitSeq /\ ir.index \in Nat
  BY DEF Inv, Types, Sender
<1>2. PICK d, all : d = P!Durations(ir.data) /\ all = 2 * Len(ir.data) + 4
  OBVIOUS
<1>3. Len(d) = all /\ all \in Nat
  BY <1>1, <1>2, DurationsAre
<1>4. CASE ir.statue = 2
  <2>1. PICK times \in TimeSeq : Shows(times, t1, ir)
    BY <1>4 DEF Showing, Waves
  <2>2. PICK n : n = Number(ir)
    OBVIOUS
  <2>3. Timed(times, n, d) /\ Cut(times, ir.wave, t1.cc, t1.count)
    BY <1>2, <2>1, <2>2 DEF Shows
  <2>4. n <= all
    <3>1. ir.stop = P!NoStop => ir.index <= 2 * Len(ir.data)
      BY <1>4 DEF Inv, Signalling, Sending, Ring
    <3>2. Len(ir.data) \in Nat
      BY <1>1 DEF BitSeq
    <3> QED BY <1>1, <1>2, <2>2, <3>1, <3>2 DEF Number
  <2>5. PICK w : w = Len(ir.wave)
    OBVIOUS
  <2>6. n \in Nat /\ w \in Nat /\ w <= n /\ \A i \in 1 .. w : ir.wave[i] = times[i]
    BY <2>3, <2>5 DEF Timed, Cut, TimeSeq
  <2>7. \A i \in 1 .. n : times[i] = (IF i = 1 THEN 0 ELSE times[i - 1]) + d[i]
    BY <2>3 DEF Timed
  <2>8. \A i \in 1 .. w : ir.wave[i] = (IF i = 1 THEN 0 ELSE ir.wave[i - 1]) + d[i]
    <3>1. \A i \in 1 .. w : i \in 1 .. n /\ (i # 1 => i - 1 \in 1 .. w)
      BY <2>6
    <3> QED BY <2>6, <2>7, <3>1
  <2>9. w <= all
    BY <1>3, <2>4, <2>6
  <2>10. P!Follows(ir.wave, d)
    BY <1>3, <2>5, <2>8, <2>9 DEF P!Follows
  <2> QED BY <1>2, <1>4, <2>10 DEF WaveRight, P!WaveRight
<1>5. CASE ir.statue # 2
  <2>1. Shown(ir)
    BY <1>5 DEF Showing, Waves
  <2>2. CASE ir.ppi
    <3>1. Timed(ir.wave, all, d)
      BY <1>2, <2>1, <2>2 DEF Shown
    <3>2. Len(ir.wave) = all /\ P!Follows(ir.wave, d)
      BY <1>3, <3>1 DEF Timed, P!Follows
    <3> QED BY <1>2, <1>3, <2>1, <3>2 DEF WaveRight, P!WaveRight, Shown
  <2>3. CASE ~ir.ppi
    <3>1. ir.wave = <<>>
      BY <2>1, <2>3 DEF Shown
    <3>2. Len(ir.wave) = 0 /\ Len(ir.wave) <= Len(d)
      BY <1>3, <3>1
    <3>3. P!Follows(ir.wave, d)
      BY <3>2 DEF P!Follows
    <3> QED BY <1>2, <2>1, <2>3, <3>3 DEF WaveRight, P!WaveRight, Shown
  <2> QED BY <2>2, <2>3
<1> QED BY <1>4, <1>5

(* Whatever order the four channels are refilled in, the infrared pin       *)
(* toggles at the times of the signal, at all of them when the send is over *)
(* and at none after it (ble_infrared_config_timer_chan), when the signals  *)
(* end before TIMER1 wraps.                                                 *)
THEOREM WaveIsRight ==
  ASSUME Separate, Short
  PROVE  AppSpec => []WaveRight
<1>1. AppInit => Inv /\ Showing
  BY InitInv, InitShowing
<1>2. Inv /\ Showing /\ [AppNext]_<<vars, peripherals>> => Inv' /\ Showing'
  BY NextInv, NextShowing
<1>3. Inv /\ Showing => WaveRight
  BY InvWave
<1> QED BY <1>1, <1>2, <1>3, PTL DEF AppSpec

-----------------------------------------------------------------------------
(***************************************************************************)
(* The serial port, for FIFOs of any size, any number of bytes and an      *)
(* interrupt between any two steps of the main loop.                       *)
(*                                                                         *)
(* Both directions are one sequence cut in pieces: what the interrupt and  *)
(* the main loop do is move the cuts.  That a move happens once rests on   *)
(* who may touch TXD (Turns) and on where a byte in RXD is announced       *)
(* (Announced).                                                            *)
(***************************************************************************)

Places == {"dispatch", "put", "check", "fetch", "transmit", "get", "data", "wait"}

(* A byte, or none. *)
Slot == Nat \cup {None}

MainLoop == [at : Places, left : Nat, byte : Slot]

Uart == [rxd : Seq(Nat), rxdrdy : BOOLEAN, txd : Slot, txdrdy : BOOLEAN]

(* The types of the variables. *)
Shape ==
    /\ hw \in [rxd : Seq(Nat), rxdrdy : BOOLEAN, txd : Slot, txdrdy : BOOLEAN]
    /\ rx \in Seq(Nat) /\ tx \in Seq(Nat)
    /\ overflow \in BOOLEAN /\ event \in BOOLEAN /\ state \in {"READY", "ON"}
    /\ main \in MainLoop
    /\ world \in [arrived : Nat, lost : SUBSET Nat, given : Seq(Nat), taken : Nat,
                  line : Seq(Nat)]

(* The FIFOs and the UART have room for what they hold. *)
Bounds == Len(hw.rxd) <= Hardware /\ Len(rx) < Fifo /\ Len(tx) <= Fifo

(* What is left of a call of serial_send was counted when it began.         *)
Quota ==
    /\ main.left <= MaxSend /\ world.taken <= MaxOut
    /\ main.at = "put" => main.left > 0 /\ world.taken + main.left <= MaxOut
    /\ main.at \in {"check", "fetch", "transmit"} => main.left > 0 /\ world.taken + main.left <= MaxOut + 1

(* Who may write TXD: the main loop while the state is READY, and then      *)
(* nothing is in TXD and no TXDRDY will bring the interrupt; the interrupt  *)
(* after TXDRDY, and then TXD is free.                                      *)
Turns ==
    /\ hw.txdrdy => hw.txd = None
    /\ state = "READY" => hw.txd = None /\ ~hw.txdrdy
    /\ main.at \in {"fetch", "transmit"} => state = "READY"
    /\ main.byte # None <=> main.at = "transmit"

(* RxAnnounced, and that a byte is announced by one of the two only.        *)
Announced ==
    /\ RxAnnounced
    /\ hw.rxdrdy => hw.rxd # <<>>
    /\ ~(hw.rxdrdy /\ overflow)

(* What was lost has arrived. *)
Known == world.lost \subseteq 1 .. world.arrived

SerialInv ==
    /\ Shape /\ Bounds /\ Quota /\ Turns /\ Announced /\ Known
    /\ RxInOrder /\ TxInOrder

-----------------------------------------------------------------------------
(***************************************************************************)
(* Moving a cut.                                                           *)
(***************************************************************************)

Joins(a, b, c) == (a \o b) \o c = a \o (b \o c)

LEMMA Associative == \A a, b, c \in Seq(Nat) : Joins(a, b, c)
<1> TAKE a, b, c \in Seq(Nat)
<1>1. (a \o b) \o c = a \o (b \o c)
  BY ConcatAssociative, SMTT(30)
<1> QED BY <1>1 DEF Joins

(* The head of the second piece becomes the last of the first. *)
LEMMA MoveHead ==
  ASSUME NEW a \in Seq(Nat), NEW b \in Seq(Nat), b # <<>>
  PROVE  /\ Head(b) \in Nat /\ Tail(b) \in Seq(Nat) /\ Append(a, Head(b)) \in Seq(Nat)
         /\ Len(Tail(b)) = Len(b) - 1 /\ Len(Append(a, Head(b))) = Len(a) + 1
         /\ b = <<Head(b)>> \o Tail(b)
         /\ Append(a, Head(b)) \o Tail(b) = a \o b
<1>1. /\ Head(b) \in Nat /\ Tail(b) \in Seq(Nat) /\ Len(Tail(b)) = Len(b) - 1
      /\ \A i \in 1 .. Len(Tail(b)) : Tail(b)[i] = b[i+1]
  BY HeadTailProperties
<1>2. Append(a, Head(b)) \in Seq(Nat) /\ Len(Append(a, Head(b))) = Len(a) + 1
  BY <1>1, AppendProperties
<1>3. Append(a, Head(b)) = a \o <<Head(b)>>
  BY <1>1, AppendIsConcat
<1>4. <<Head(b)>> \in Seq(Nat)
  BY <1>1
<1>5. b = <<Head(b)>> \o Tail(b)
  BY <1>1, <1>4
<1>6. Joins(a, <<Head(b)>>, Tail(b))
  BY <1>1, <1>4, Associative
<1> QED BY <1>1, <1>2, <1>3, <1>5, <1>6 DEF Joins

(* The same with a piece in front. *)
LEMMA MoveNext ==
  ASSUME NEW a \in Seq(Nat), NEW b \in Seq(Nat), NEW c \in Seq(Nat), c # <<>>
  PROVE  (a \o Append(b, Head(c))) \o Tail(c) = (a \o b) \o c
<1>1. Append(b, Head(c)) \in Seq(Nat) /\ Tail(c) \in Seq(Nat)
  BY MoveHead
<1>2. PICK longer \in Seq(Nat), shorter \in Seq(Nat) :
        longer = Append(b, Head(c)) /\ shorter = Tail(c)
  BY <1>1
<1>3. longer \o shorter = b \o c
  BY <1>2, MoveHead
<1>4. Joins(a, longer, shorter) /\ Joins(a, b, c)
  BY Associative
<1>5. (a \o longer) \o shorter = (a \o b) \o c
  BY <1>3, <1>4 DEF Joins
<1> QED BY <1>2, <1>5

(* What comes after the last piece comes after all.                         *)
LEMMA AppendLast ==
  ASSUME NEW a \in Seq(Nat), NEW b \in Seq(Nat), NEW x \in Nat
  PROVE  /\ Append(b, x) \in Seq(Nat) /\ Append(b, x) # <<>>
         /\ Len(Append(b, x)) = Len(b) + 1
         /\ a \o Append(b, x) = Append(a \o b, x)
<1> DEFINE all == a \o b
<1>1. all \in Seq(Nat)
  BY ConcatProperties
<1>2. (a \o b) \o <<x>> = a \o (b \o <<x>>)
  BY Associative
<1> HIDE DEF all
<1>3. Append(b, x) = b \o <<x>> /\ Append(all, x) = all \o <<x>>
  BY <1>1, AppendIsConcat
<1> QED BY <1>2, <1>3, AppendProperties DEF all

(* A number above all of an ascending sequence goes to its end.             *)
LEMMA AscendingAppend ==
  ASSUME NEW s \in Seq(Nat), NEW b \in Nat, Ascending(s), \A n \in ToSet(s) : n < b
  PROVE  Ascending(Append(s, b)) /\ ToSet(Append(s, b)) = ToSet(s) \cup {b}
<1> DEFINE t == Append(s, b)
<1>1. /\ t \in Seq(Nat) /\ Len(t) = Len(s) + 1 /\ t[Len(s) + 1] = b
      /\ \A i \in 1 .. Len(s) : t[i] = s[i]
  BY AppendProperties
<1>2. DOMAIN t = 1 .. Len(s) + 1 /\ DOMAIN s = 1 .. Len(s) /\ Len(s) \in Nat
  BY <1>1
<1>3. \A i \in 1 .. Len(s) : s[i] \in Nat /\ s[i] < b
  BY <1>2, ElementOfSeq DEF ToSet
<1> HIDE DEF t
<1>4. ASSUME NEW i \in DOMAIN t, NEW j \in DOMAIN t, i < j PROVE t[i] < t[j]
  <2>1. CASE j \in 1 .. Len(s)
    BY <1>1, <1>2, <1>4, <2>1 DEF Ascending
  <2>2. CASE j = Len(s) + 1
    BY <1>1, <1>2, <1>3, <1>4, <2>2, SMTT(20)
  <2> QED BY <1>2, <2>1, <2>2
<1>5. ToSet(t) = ToSet(s) \cup {b}
  BY <1>1, <1>2 DEF ToSet
<1> QED BY <1>4, <1>5 DEF t, Ascending

(* The bytes the application sent, from the line back to the FIFO. *)
Held(b) == IF b = None THEN <<>> ELSE <<b>>
Pipe(line, txd, byte, fifo) == line \o Held(txd) \o Held(byte) \o fifo

LEMMA PipeRight ==
  TxInOrder <=> Pipe(world.line, hw.txd, main.byte, tx) = [i \in 1 .. world.taken |-> i]
BY DEF TxInOrder, Pipe, Held

(* A byte goes from TXD to the line, or from the main loop to TXD. *)
LEMMA PipeOut ==
  ASSUME NEW line \in Seq(Nat), NEW fifo \in Seq(Nat), NEW byte \in Slot, NEW b \in Nat
  PROVE  /\ Pipe(line \o <<b>>, None, byte, fifo) = Pipe(line, b, byte, fifo)
         /\ Pipe(line, b, None, fifo) = Pipe(line, None, b, fifo)
<1>1. /\ Held(None) = <<>> /\ Held(b) = <<b>>
  BY SerialAssumption DEF Held
<1>2. line \o <<>> = line
  BY ConcatEmptySeq
<1>3. (line \o <<b>>) \o <<>> = line \o <<b>>
  BY ConcatEmptySeq
<1>4. Pipe(line \o <<b>>, None, byte, fifo) = Pipe(line, b, byte, fifo)
  BY <1>1, <1>2, <1>3 DEF Pipe
<1>5. Pipe(line, b, None, fifo) = Pipe(line, None, b, fifo)
  BY <1>1, <1>2, <1>3 DEF Pipe
<1> QED BY <1>4, <1>5

(* The first byte of the FIFO goes to TXD, or to the main loop.             *)
LEMMA PipeGet ==
  ASSUME NEW line \in Seq(Nat), NEW fifo \in Seq(Nat), fifo # <<>>
  PROVE  /\ Head(fifo) \in Nat /\ Tail(fifo) \in Seq(Nat) /\ Len(Tail(fifo)) = Len(fifo) - 1
         /\ Pipe(line, Head(fifo), None, Tail(fifo)) = Pipe(line, None, None, fifo)
         /\ Pipe(line, None, Head(fifo), Tail(fifo)) = Pipe(line, None, None, fifo)
<1>1. /\ Append(line, Head(fifo)) \o Tail(fifo) = line \o fifo
      /\ Head(fifo) \in Nat /\ Tail(fifo) \in Seq(Nat) /\ Len(Tail(fifo)) = Len(fifo) - 1
  BY MoveHead
<1>2. Held(Head(fifo)) = <<Head(fifo)>> /\ Held(None) = <<>>
  BY <1>1, SerialAssumption DEF Held
<1>3. Append(line, Head(fifo)) = line \o <<Head(fifo)>>
  BY <1>1, AppendIsConcat
<1>4. (line \o <<Head(fifo)>>) \o <<>> = line \o <<Head(fifo)>> /\ line \o <<>> = line
  BY <1>1, ConcatEmptySeq
<1> QED BY <1>1, <1>2, <1>3, <1>4 DEF Pipe

-----------------------------------------------------------------------------
LEMMA SerialInitInv == Init => SerialInv
<1> SUFFICES ASSUME Init PROVE SerialInv
  OBVIOUS
<1> USE SerialAssumption DEF Init, UartInit, Loop, Nothing
<1>1. Shape
  <2>1. hw \in [rxd : Seq(Nat), rxdrdy : BOOLEAN, txd : Slot, txdrdy : BOOLEAN]
    BY DEF Slot
  <2>2. main \in MainLoop
    BY DEF Places, MainLoop, Slot
  <2>3. world \in [arrived : Nat, lost : SUBSET Nat, given : Seq(Nat), taken : Nat,
                   line : Seq(Nat)]
    OBVIOUS
  <2> QED BY <2>1, <2>2, <2>3 DEF Shape
<1>2. Bounds /\ Quota /\ Turns /\ Announced /\ Known
  BY DEF Bounds, Quota, Turns, Announced, RxAnnounced, Known
<1>3. RxInOrder
  <2>1. world.given \o rx \o hw.rxd = <<>> /\ (1 .. world.arrived) \ world.lost = {}
    OBVIOUS
  <2> QED BY <2>1 DEF RxInOrder, Ascending, ToSet
<1>4. TxInOrder
  BY DEF TxInOrder
<1> QED BY <1>1, <1>2, <1>3, <1>4 DEF SerialInv

(***************************************************************************)
(* The steps.                                                              *)
(***************************************************************************)
LEMMA ArriveInv == SerialInv /\ Arrive => SerialInv'
<1> SUFFICES ASSUME SerialInv, Arrive PROVE SerialInv'
  OBVIOUS
<1> USE SerialAssumption
<1> DEFINE b == world.arrived + 1
           full == Len(hw.rxd) = Hardware
<1>1. /\ UNCHANGED <<rx, overflow, tx, state, main, event>>
      /\ world' = [world EXCEPT !.arrived = b, !.lost = IF full THEN @ \cup {b} ELSE @]
      /\ hw' = IF full THEN hw ELSE [hw EXCEPT !.rxd = Append(@, b),
                                              !.rxdrdy = @ \/ hw.rxd = <<>>]
  BY DEF Arrive
<1>2. /\ hw.rxd \in Seq(Nat) /\ rx \in Seq(Nat) /\ world.given \in Seq(Nat)
      /\ Len(hw.rxd) \in Nat /\ b \in Nat /\ world.lost \in SUBSET Nat
  BY DEF SerialInv, Shape
<1>3. /\ Append(hw.rxd, b) \in Seq(Nat) /\ Append(hw.rxd, b) # <<>>
      /\ Len(Append(hw.rxd, b)) = Len(hw.rxd) + 1
  <2> HIDE DEF b
  <2> QED BY <1>2, AppendLast
<1>4. /\ hw'.txd = hw.txd /\ hw'.txdrdy = hw.txdrdy
      /\ full => hw' = hw
      /\ ~full => hw'.rxd = Append(hw.rxd, b) /\ hw'.rxdrdy = (hw.rxdrdy \/ hw.rxd = <<>>)
      /\ world'.given = world.given /\ world'.taken = world.taken /\ world'.line = world.line
      /\ world'.arrived = b /\ world'.lost = IF full THEN world.lost \cup {b} ELSE world.lost
  BY <1>1 DEF SerialInv, Shape
<1>5. Shape'
  BY <1>1, <1>2, <1>3 DEF SerialInv, Shape
<1>6. Bounds' /\ Quota' /\ Turns'
  BY <1>1, <1>2, <1>3, <1>4 DEF SerialInv, Bounds, Quota, Turns
<1>7. Announced'
  BY <1>1, <1>3, <1>4 DEF SerialInv, Announced, RxAnnounced
<1>8. TxInOrder'
  BY <1>1, <1>4 DEF SerialInv, TxInOrder
<1>9. RxInOrder'
  <2> DEFINE here == world.given \o rx
             all == here \o hw.rxd
  <2>1. here \in Seq(Nat) /\ all \in Seq(Nat)
    BY <1>2, ConcatProperties
  <2>2. Ascending(all) /\ ToSet(all) = (1 .. world.arrived) \ world.lost
    BY DEF SerialInv, RxInOrder
  <2>3. world.arrived \in Nat /\ b = world.arrived + 1
    BY DEF SerialInv, Shape
  <2> HIDE DEF here, b
  <2>4. CASE full
    <3>1. world'.given \o rx' \o hw'.rxd = all
      BY <1>1, <1>4, <2>4 DEF here
    <3>2. (1 .. b) \ (world.lost \cup {b}) = (1 .. world.arrived) \ world.lost
      BY <2>3
    <3> QED BY <1>4, <2>2, <2>4, <3>1, <3>2 DEF RxInOrder
  <2>5. CASE ~full
    <3>1. here \o Append(hw.rxd, b) = Append(all, b)
      <4>1. PICK last \in Seq(Nat) : last = hw.rxd
        BY <1>2
      <4>2. here \o Append(last, b) = Append(here \o last, b)
        BY <1>2, <2>1, AppendLast, SMTT(20)
      <4> QED BY <4>1, <4>2
    <3>2. world'.given \o rx' \o hw'.rxd = Append(all, b)
      BY <1>1, <1>4, <2>5, <3>1 DEF here
    <3>3. \A n \in ToSet(all) : n < b
      BY <2>2, <2>3
    <3>4. Ascending(Append(all, b)) /\ ToSet(Append(all, b)) = ToSet(all) \cup {b}
      BY <1>2, <2>1, <2>2, <3>3, AscendingAppend
    <3>5. b \notin world.lost
      BY <2>3 DEF SerialInv, Known
    <3>6. (1 .. b) \ world.lost = ((1 .. world.arrived) \ world.lost) \cup {b}
      BY <2>3, <3>5
    <3> QED BY <1>4, <2>2, <2>5, <3>2, <3>4, <3>6 DEF RxInOrder
  <2> QED BY <2>4, <2>5
<1>10. Known'
  BY <1>2, <1>4 DEF SerialInv, Shape, Known
<1> QED BY <1>5, <1>6, <1>7, <1>8, <1>9, <1>10 DEF SerialInv

LEMMA SentMoves ==
  ASSUME NEW m \in MainLoop, m.left > 0
  PROVE  /\ Sent(m) \in MainLoop /\ Sent(m).byte = None /\ Sent(m).left = m.left - 1
         /\ Sent(m).at = (IF m.left = 1 THEN "get" ELSE "put")
<1>1. {"get", "put"} \subseteq Places /\ None \in Slot
  BY DEF Places, Slot
<1>2. m.left - 1 \in Nat
  BY DEF MainLoop
<1> QED BY <1>1, <1>2 DEF MainLoop, Sent

(* Steps that move the main loop on and leave the bytes where they are.     *)
LEMMA NothingMoved ==
  ASSUME SerialInv, UNCHANGED <<hw, rx, overflow, tx, world>>, main'.byte = main.byte,
         Shape', Quota', Turns'
  PROVE  SerialInv'
<1>1. Bounds' /\ Announced' /\ Known'
  BY DEF SerialInv, Bounds, Announced, RxAnnounced, Known
<1>2. RxInOrder' /\ TxInOrder'
  BY DEF SerialInv, RxInOrder, TxInOrder
<1> QED BY <1>1, <1>2 DEF SerialInv

LEMMA QuietInv ==
  ASSUME SerialInv,
         \/ \E n \in 1 .. MaxSend : SerialSend(n)
         \/ NoSend \/ OnUartPut \/ Emptied \/ Wait \/ OtherEvent
  PROVE  SerialInv'
<1> USE SerialAssumption
<1>1. /\ main \in MainLoop /\ event \in BOOLEAN
      /\ state \in {"READY", "ON"} /\ world.taken \in Nat
  BY DEF SerialInv, Shape
<1>2. CASE \E n \in 1 .. MaxSend : SerialSend(n)
  <2>1. PICK n \in 1 .. MaxSend : SerialSend(n)
    BY <1>2
  <2>2. /\ main.at \in {"dispatch", "data"} /\ world.taken + n <= MaxOut
        /\ main' = [main EXCEPT !.at = "put", !.left = n]
        /\ UNCHANGED <<hw, rx, overflow, tx, state, event, world>>
    BY <2>1 DEF SerialSend
  <2>3. main' \in MainLoop /\ main'.at = "put" /\ main'.left = n /\ main'.byte = main.byte
    <3>1. "put" \in Places /\ n \in Nat
      BY DEF Places
    <3> QED BY <1>1, <2>2, <3>1 DEF MainLoop
  <2>4. Shape'
    BY <2>2, <2>3 DEF SerialInv, Shape
  <2>5. Quota' /\ Turns'
    BY <1>1, <2>2, <2>3 DEF SerialInv, Quota, Turns
  <2> QED BY <2>2, <2>3, <2>4, <2>5, NothingMoved
<1>3. CASE OnUartPut
  <2>1. /\ main.at = "check" /\ UNCHANGED <<hw, rx, overflow, tx, state, event, world>>
        /\ main' = IF state = "READY" THEN [main EXCEPT !.at = "fetch"] ELSE Sent(main)
    BY <1>3 DEF OnUartPut
  <2>2. main.byte = None
    BY <2>1 DEF SerialInv, Turns
  <2>3. main.left > 0
    BY <2>1 DEF SerialInv, Quota
  <2>4. /\ main' \in MainLoop /\ main'.byte = main.byte
        /\ \/ state = "READY" /\ main'.at = "fetch" /\ main'.left = main.left
           \/ /\ main'.at = IF main.left = 1 THEN "get" ELSE "put"
              /\ main'.left = main.left - 1
    <3>1. CASE state = "READY"
      <4>1. "fetch" \in Places
        BY DEF Places
      <4> QED BY <1>1, <2>1, <3>1, <4>1 DEF MainLoop
    <3>2. CASE state # "READY"
      BY <1>1, <2>1, <2>2, <2>3, <3>2, SentMoves
    <3> QED BY <3>1, <3>2
  <2>5. Shape'
    BY <2>1, <2>4 DEF SerialInv, Shape
  <2>6. Quota' /\ Turns'
    BY <1>1, <2>1, <2>2, <2>3, <2>4 DEF SerialInv, Quota, Turns, MainLoop
  <2> QED BY <2>1, <2>4, <2>5, <2>6, NothingMoved
<1>4. CASE NoSend \/ Emptied \/ Wait \/ OtherEvent
  <2>1. /\ UNCHANGED <<hw, rx, overflow, tx, state, world>> /\ event' \in BOOLEAN
        /\ \/ main' = main
           \/ /\ main.at \in {"dispatch", "data", "get", "wait"}
              /\ \E place \in {"get", "wait", "dispatch"} : main' = [main EXCEPT !.at = place]
    BY <1>1, <1>4 DEF NoSend, Emptied, Wait, OtherEvent
  <2>2. /\ main' \in MainLoop /\ main'.left = main.left /\ main'.byte = main.byte
        /\ \/ main' = main
           \/ /\ main'.at \in {"get", "wait", "dispatch"}
              /\ main.at \in {"dispatch", "data", "get", "wait"}
    <3>1. {"get", "wait", "dispatch"} \subseteq Places
      BY DEF Places
    <3> QED BY <1>1, <2>1, <3>1 DEF MainLoop
  <2>3. Shape'
    BY <2>1, <2>2 DEF SerialInv, Shape
  <2>4. Quota' /\ Turns'
    BY <1>1, <2>1, <2>2 DEF SerialInv, Quota, Turns
  <2> QED BY <2>1, <2>2, <2>3, <2>4, NothingMoved
<1> QED BY <1>2, <1>3, <1>4

(* A full FIFO is an error, and a reset starts anew: what had arrived is    *)
(* lost.                                                                    *)
LEMMA ResetInv == ASSUME SerialInv, Reset PROVE SerialInv'
<1> USE SerialAssumption
<1>1. /\ hw' = UartInit /\ rx' = <<>> /\ overflow' = FALSE /\ tx' = <<>> /\ state' = "READY"
      /\ main' = Loop /\ event' = FALSE
      /\ world' = [Nothing EXCEPT !.arrived = world.arrived, !.lost = 1 .. world.arrived]
      /\ world.arrived \in Nat
  BY DEF Reset, SerialInv, Shape
<1>2. /\ hw'.rxd = <<>> /\ ~hw'.rxdrdy /\ hw'.txd = None /\ ~hw'.txdrdy
      /\ main'.at = "dispatch" /\ main'.left = 0 /\ main'.byte = None
      /\ world'.arrived = world.arrived /\ world'.lost = 1 .. world.arrived
      /\ world'.given = <<>> /\ world'.taken = 0 /\ world'.line = <<>>
  BY <1>1 DEF UartInit, Loop, Nothing
<1>3. Shape'
  <2>1. hw' \in [rxd : Seq(Nat), rxdrdy : BOOLEAN, txd : Slot, txdrdy : BOOLEAN]
    BY <1>1 DEF UartInit, Slot
  <2>2. main' \in MainLoop
    BY <1>1 DEF Places, Loop, MainLoop, Slot
  <2>3. world' \in [arrived : Nat, lost : SUBSET Nat, given : Seq(Nat), taken : Nat,
                    line : Seq(Nat)]
    <3>1. PICK n \in Nat : n = world.arrived
      BY <1>1
    <3>2. 1 .. n \in SUBSET Nat
      OBVIOUS
    <3>3. [arrived |-> n, lost |-> 1 .. n, given |-> <<>>, taken |-> 0, line |-> <<>>] \in
            [arrived : Nat, lost : SUBSET Nat, given : Seq(Nat), taken : Nat, line : Seq(Nat)]
      BY <3>2
    <3>4. world' = [arrived |-> n, lost |-> 1 .. n, given |-> <<>>, taken |-> 0, line |-> <<>>]
      BY <1>1, <3>1 DEF Nothing
    <3> QED BY <3>3, <3>4
  <2>4. <<>> \in Seq(Nat)
    OBVIOUS
  <2> QED BY <1>1, <2>1, <2>2, <2>3, <2>4 DEF Shape
<1>4. Bounds' /\ Quota' /\ Turns' /\ Announced' /\ Known'
  BY <1>1, <1>2 DEF Bounds, Quota, Turns, Announced, RxAnnounced, Known
<1>5. RxInOrder'
  <2>1. world'.given \o rx' \o hw'.rxd = <<>> /\ (1 .. world'.arrived) \ world'.lost = {}
    BY <1>1, <1>2
  <2> QED BY <2>1 DEF RxInOrder, Ascending, ToSet
<1>6. TxInOrder'
  BY <1>1, <1>2 DEF TxInOrder
<1> QED BY <1>3, <1>4, <1>5, <1>6 DEF SerialInv

LEMMA AppUartPutInv == ASSUME SerialInv, AppUartPut PROVE SerialInv'
<1> USE SerialAssumption
<1>1. CASE Len(tx) = Fifo
  BY <1>1, ResetInv DEF AppUartPut
<1>2. CASE Len(tx) # Fifo
  <2> DEFINE b == world.taken + 1
  <2>1. /\ main.at = "put" /\ tx' = Append(tx, b)
        /\ world' = [world EXCEPT !.taken = b] /\ main' = [main EXCEPT !.at = "check"]
        /\ UNCHANGED <<hw, rx, overflow, state, event>>
    BY <1>2 DEF AppUartPut
  <2>2. /\ tx \in Seq(Nat) /\ b \in Nat /\ world.line \in Seq(Nat) /\ world.taken \in Nat
        /\ hw.txd \in Slot /\ main.byte \in Slot
    BY DEF SerialInv, Shape, MainLoop
  <2>3. /\ world'.taken = b /\ world'.line = world.line /\ world'.given = world.given
        /\ world'.arrived = world.arrived /\ world'.lost = world.lost
    BY <2>1 DEF SerialInv, Shape
  <2>a. /\ main' \in MainLoop
        /\ main'.at = "check" /\ main'.left = main.left /\ main'.byte = main.byte
    <3>1. "check" \in Places /\ main \in MainLoop
      BY DEF Places, SerialInv, Shape
    <3> QED BY <2>1, <3>1 DEF MainLoop
  <2> HIDE DEF b
  <2>4. tx' \in Seq(Nat) /\ Len(tx') = Len(tx) + 1
    BY <2>1, <2>2, AppendProperties
  <2>5. Shape'
    BY <2>1, <2>2, <2>4, <2>a DEF SerialInv, Shape
  <2>6. Bounds' /\ Turns' /\ Announced' /\ Known'
    BY <1>2, <2>1, <2>2, <2>3, <2>4, <2>a DEF SerialInv, Bounds, Turns, Announced, RxAnnounced, Known
  <2>7. Quota'
    <3>1. /\ main.left \in Nat /\ main.left > 0 /\ main.left <= MaxSend /\ world.taken \in Nat
          /\ world.taken + main.left <= MaxOut
      BY <2>1 DEF SerialInv, Quota, Shape, MainLoop
    <3> QED BY <2>3, <2>a, <3>1 DEF Quota, b
  <2>8. RxInOrder'
    BY <2>1, <2>3 DEF SerialInv, RxInOrder
  <2>9. TxInOrder'
    <3> DEFINE front == world.line \o Held(hw.txd) \o Held(main.byte)
    <3>1. front \in Seq(Nat)
      BY <2>2, ConcatProperties DEF Held, Slot
    <3>2. front \o tx = [i \in 1 .. world.taken |-> i]
      BY DEF SerialInv, TxInOrder, Held
    <3>3. Pipe(world'.line, hw'.txd, main'.byte, tx') = front \o Append(tx, b)
      BY <2>1, <2>3, <2>a DEF Pipe
    <3> HIDE DEF front
    <3>4. front \o Append(tx, b) = Append(front \o tx, b)
      BY <2>2, <3>1, AppendLast
    <3>5. Append([i \in 1 .. world.taken |-> i], b) = [i \in 1 .. b |-> i]
      BY <2>2 DEF b
    <3> QED BY <2>3, <3>2, <3>3, <3>4, <3>5 DEF TxInOrder, Pipe, Held
  <2> QED BY <2>5, <2>6, <2>7, <2>8, <2>9 DEF SerialInv
<1> QED BY <1>1, <1>2

(* Fields of hw and of main when TXD changes. *)
LEMMA Fields ==
  ASSUME SerialInv
  PROVE  /\ hw.rxd \in Seq(Nat) /\ rx \in Seq(Nat) /\ tx \in Seq(Nat) /\ hw.txd \in Slot
         /\ main \in MainLoop /\ main.byte \in Slot /\ main.at \in Places /\ main.left \in Nat
         /\ world.given \in Seq(Nat) /\ world.line \in Seq(Nat) /\ world.taken \in Nat
BY DEF SerialInv, Shape, MainLoop

(* The byte of TXD is on the line. *)
LEMMA TransmittedInv == ASSUME SerialInv, Transmitted PROVE SerialInv'
<1> USE SerialAssumption
<1>1. /\ hw.txd # None /\ world' = [world EXCEPT !.line = Append(@, hw.txd)]
      /\ hw' = [hw EXCEPT !.txd = None, !.txdrdy = TRUE]
      /\ UNCHANGED <<rx, overflow, tx, state, main, event>>
  BY DEF Transmitted
<1>2. /\ hw.txd \in Nat /\ main.byte \in Slot /\ tx \in Seq(Nat) /\ world.line \in Seq(Nat)
  BY <1>1, Fields DEF Slot
<1>3. Append(world.line, hw.txd) = world.line \o <<hw.txd>>
  BY <1>2, AppendIsConcat
<1>4. world.line \o <<hw.txd>> \in Seq(Nat)
  BY <1>2, ConcatProperties
<1>5. /\ hw'.rxd = hw.rxd /\ hw'.rxdrdy = hw.rxdrdy /\ hw'.txd = None /\ hw'.txdrdy
      /\ world'.line = world.line \o <<hw.txd>> /\ world'.given = world.given
      /\ world'.arrived = world.arrived /\ world'.lost = world.lost
      /\ world'.taken = world.taken
  BY <1>1, <1>3 DEF SerialInv, Shape
<1>6. Shape'
  BY <1>1, <1>3, <1>4 DEF SerialInv, Shape, Slot
<1>7. Bounds' /\ Quota' /\ Announced' /\ Known'
  BY <1>1, <1>5 DEF SerialInv, Bounds, Quota, Announced, RxAnnounced, Known
<1>8. Turns'
  BY <1>1, <1>5 DEF SerialInv, Turns
<1>9. RxInOrder'
  BY <1>1, <1>5 DEF SerialInv, RxInOrder
<1>10. TxInOrder'
  <2>1. PICK line \in Seq(Nat), b \in Nat, byte \in Slot :
          line = world.line /\ b = hw.txd /\ byte = main.byte
    BY <1>2
  <2>2. Pipe(line \o <<b>>, None, byte, tx) = Pipe(line, b, byte, tx)
    BY <1>2, PipeOut
  <2>3. Pipe(line, b, byte, tx) = [i \in 1 .. world.taken |-> i]
    BY <2>1, PipeRight DEF SerialInv
  <2>4. Pipe(world'.line, hw'.txd, main'.byte, tx') = [i \in 1 .. world'.taken |-> i]
    BY <1>1, <1>5, <2>1, <2>2, <2>3
  <2> QED BY <2>4 DEF TxInOrder, Pipe, Held
<1> QED BY <1>6, <1>7, <1>8, <1>9, <1>10 DEF SerialInv

(* The main loop takes a byte out of the FIFO, while the UART is idle. *)
LEMMA FetchInv == ASSUME SerialInv, Fetch PROVE SerialInv'
<1> USE SerialAssumption
<1>1. /\ main.at = "fetch" /\ UNCHANGED <<hw, rx, overflow, event, world>>
      /\ main.left > 0 /\ main.byte = None /\ state = "READY" /\ hw.txd = None
      /\ world.taken + main.left <= MaxOut + 1
  BY DEF Fetch, SerialInv, Quota, Turns
<1>2. CASE tx = <<>>
  <2>1. main' = Sent(main) /\ tx' = tx /\ state' = state
    BY <1>1, <1>2 DEF Fetch
  <2>2. /\ main' \in MainLoop /\ main'.byte = None /\ main'.left = main.left - 1
        /\ main'.at = IF main.left = 1 THEN "get" ELSE "put"
    BY <1>1, <2>1, Fields, SentMoves
  <2>3. Shape'
    BY <1>1, <2>1, <2>2 DEF SerialInv, Shape
  <2>4. Quota' /\ Turns'
    BY <1>1, <2>1, <2>2, Fields DEF SerialInv, Quota, Turns
  <2> QED BY <1>1, <2>1, <2>2, <2>3, <2>4, NothingMoved
<1>3. CASE tx # <<>>
  <2>1. /\ main' = [main EXCEPT !.at = "transmit", !.byte = Head(tx)]
        /\ tx' = Tail(tx) /\ state' = state
    BY <1>3 DEF Fetch
  <2>2. /\ Head(tx) \in Nat /\ Tail(tx) \in Seq(Nat) /\ Len(Tail(tx)) = Len(tx) - 1
    BY <1>3, Fields, HeadTailProperties
  <2>3. /\ main' \in MainLoop /\ main'.at = "transmit" /\ main'.left = main.left
        /\ main'.byte = Head(tx) /\ main'.byte # None
    <3>1. "transmit" \in Places /\ Head(tx) \in Slot /\ Head(tx) # None
      BY <2>2 DEF Places, Slot
    <3> QED BY <2>1, <3>1, Fields DEF MainLoop
  <2>4. Shape'
    BY <1>1, <2>1, <2>2, <2>3 DEF SerialInv, Shape
  <2>5. Announced' /\ Known'
    BY <1>1 DEF SerialInv, Announced, RxAnnounced, Known
  <2>a. Bounds'
    <3>1. Len(tx') = Len(tx) - 1 /\ Len(tx) \in Nat /\ Len(tx) <= Fifo
      BY <2>1, <2>2, Fields DEF SerialInv, Bounds
    <3>2. Len(tx') <= Fifo
      BY <3>1
    <3> QED BY <1>1, <3>2 DEF SerialInv, Bounds
  <2>6. Quota' /\ Turns'
    BY <1>1, <2>1, <2>3 DEF SerialInv, Quota, Turns
  <2>7. RxInOrder'
    BY <1>1 DEF SerialInv, RxInOrder
  <2>8. TxInOrder'
    <3>1. PICK line \in Seq(Nat), fifo \in Seq(Nat) : line = world.line /\ fifo = tx
      BY Fields
    <3>2. Pipe(line, None, Head(fifo), Tail(fifo)) = Pipe(line, None, None, fifo)
      BY <1>3, <3>1, PipeGet
    <3>3. Pipe(line, None, None, fifo) = [i \in 1 .. world.taken |-> i]
      BY <1>1, <3>1, PipeRight DEF SerialInv
    <3>4. Pipe(world'.line, hw'.txd, main'.byte, tx') = [i \in 1 .. world'.taken |-> i]
      BY <1>1, <2>1, <2>3, <3>1, <3>2, <3>3
    <3> QED BY <3>4 DEF TxInOrder, Pipe, Held
  <2> QED BY <2>4, <2>5, <2>a, <2>6, <2>7, <2>8 DEF SerialInv
<1> QED BY <1>2, <1>3

(* The byte of the main loop goes to TXD, which nothing is in. *)
LEMMA ActionTxSendInv == ASSUME SerialInv, ActionTxSend PROVE SerialInv'
<1> USE SerialAssumption
<1>1. /\ main.at = "transmit" /\ hw' = [hw EXCEPT !.txd = main.byte] /\ state' = "ON"
      /\ main' = Sent(main) /\ UNCHANGED <<rx, overflow, tx, event, world>>
      /\ main.left > 0 /\ main.byte # None /\ state = "READY" /\ hw.txd = None /\ ~hw.txdrdy
      /\ world.taken + main.left <= MaxOut + 1
  BY DEF ActionTxSend, SerialInv, Quota, Turns
<1>2. main.byte \in Nat
  BY <1>1, Fields DEF Slot
<1>3. /\ main' \in MainLoop /\ main'.byte = None /\ main'.left = main.left - 1
      /\ main'.at = IF main.left = 1 THEN "get" ELSE "put"
  BY <1>1, Fields, SentMoves
<1>4. /\ hw'.rxd = hw.rxd /\ hw'.rxdrdy = hw.rxdrdy /\ hw'.txd = main.byte /\ ~hw'.txdrdy
  BY <1>1 DEF SerialInv, Shape
<1>5. Shape'
  BY <1>1, <1>2, <1>3 DEF SerialInv, Shape, Slot
<1>6. Bounds' /\ Announced' /\ Known'
  BY <1>1, <1>4 DEF SerialInv, Bounds, Announced, RxAnnounced, Known
<1>7. Quota' /\ Turns'
  BY <1>1, <1>3, <1>4, Fields, SMTT(20) DEF SerialInv, Quota, Turns
<1>8. RxInOrder'
  BY <1>1, <1>4 DEF SerialInv, RxInOrder
<1>9. TxInOrder'
  <2>1. PICK line \in Seq(Nat), b \in Nat : line = world.line /\ b = main.byte
    BY <1>2, Fields
  <2>2. Pipe(line, b, None, tx) = Pipe(line, None, b, tx)
    BY Fields, PipeOut
  <2>3. Pipe(line, None, b, tx) = [i \in 1 .. world.taken |-> i]
    BY <1>1, <2>1, PipeRight DEF SerialInv
  <2>4. Pipe(world'.line, hw'.txd, main'.byte, tx') = [i \in 1 .. world'.taken |-> i]
    BY <1>1, <1>3, <1>4, <2>1, <2>2, <2>3
  <2> QED BY <2>4 DEF TxInOrder, Pipe, Held
<1> QED BY <1>5, <1>6, <1>7, <1>8, <1>9 DEF SerialInv

(* RXD is read: the next byte moves up, and is ready. *)
LEMMA RxdReadIs ==
  ASSUME NEW h \in Uart, h.rxd # <<>>
  PROVE  /\ RxdRead(h).rxd = Tail(h.rxd) /\ RxdRead(h).txd = h.txd
         /\ RxdRead(h).txdrdy = h.txdrdy
         /\ RxdRead(h).rxdrdy = (h.rxdrdy \/ Tail(h.rxd) # <<>>)
         /\ RxdRead(h) \in Uart
         /\ Len(Tail(h.rxd)) = Len(h.rxd) - 1 /\ Len(h.rxd) \in Nat
         /\ Head(h.rxd) \in Nat /\ Tail(h.rxd) \in Seq(Nat)
<1>1. /\ Head(h.rxd) \in Nat /\ Tail(h.rxd) \in Seq(Nat) /\ Len(h.rxd) \in Nat
      /\ Len(Tail(h.rxd)) = Len(h.rxd) - 1
  <2>1. PICK rxd \in Seq(Nat) : rxd = h.rxd /\ rxd # <<>>
    BY DEF Uart
  <2>2. Head(rxd) \in Nat /\ Tail(rxd) \in Seq(Nat) /\ Len(Tail(rxd)) = Len(rxd) - 1 /\ Len(rxd) \in Nat
    BY <2>1, HeadTailProperties
  <2> QED BY <2>1, <2>2
<1>2. Len(h.rxd) > 1 <=> Tail(h.rxd) # <<>>
  <2>1. PICK rest \in Seq(Nat) : rest = Tail(h.rxd)
    BY <1>1
  <2>2. rest = <<>> <=> Len(rest) = 0
    BY EmptySeq
  <2> QED BY <1>1, <2>1, <2>2, SMTT(20)
<1> QED BY <1>1, <1>2 DEF RxdRead, Uart

LEMMA AppUartGetInv == ASSUME SerialInv, AppUartGet PROVE SerialInv'
<1> USE SerialAssumption
<1>1. /\ main.at = "get" /\ rx # <<>>
      /\ rx' = IF overflow THEN Append(Tail(rx), Head(hw.rxd)) ELSE Tail(rx)
      /\ hw' = IF overflow THEN RxdRead(hw) ELSE hw
      /\ overflow' = FALSE /\ world' = [world EXCEPT !.given = Append(@, Head(rx))]
      /\ main' = [main EXCEPT !.at = "data"] /\ UNCHANGED <<tx, state, event>>
  BY DEF AppUartGet
<1>2. /\ Head(rx) \in Nat /\ Tail(rx) \in Seq(Nat) /\ Len(Tail(rx)) = Len(rx) - 1 /\ Len(rx) \in Nat
  <2>1. rx # <<>> /\ rx \in Seq(Nat)
    BY <1>1, Fields
  <2> QED BY <2>1, HeadTailProperties
<1>3. Append(world.given, Head(rx)) \in Seq(Nat)
  BY <1>2, Fields, AppendProperties
<1>4. /\ world'.given = Append(world.given, Head(rx)) /\ world'.line = world.line
      /\ world'.arrived = world.arrived /\ world'.lost = world.lost
      /\ world'.taken = world.taken
  BY <1>1 DEF SerialInv, Shape
<1>5. /\ main' \in MainLoop /\ main'.at = "data" /\ main'.left = main.left
      /\ main'.byte = main.byte
  <2>1. "data" \in Places
    BY DEF Places
  <2> QED BY <1>1, <2>1, Fields DEF MainLoop
<1>6. overflow => hw.rxd # <<>>
  BY DEF SerialInv, Announced, RxAnnounced
<1>7. /\ hw' \in [rxd : Seq(Nat), rxdrdy : BOOLEAN, txd : Slot, txdrdy : BOOLEAN]
      /\ hw'.txd = hw.txd /\ hw'.txdrdy = hw.txdrdy
      /\ ~overflow => hw'.rxd = hw.rxd /\ hw'.rxdrdy = hw.rxdrdy
      /\ overflow => /\ hw'.rxd = Tail(hw.rxd) /\ hw'.rxdrdy = (hw.rxdrdy \/ Tail(hw.rxd) # <<>>)
                     /\ Len(hw'.rxd) < Len(hw.rxd) /\ Len(hw.rxd) \in Nat /\ Len(hw'.rxd) \in Nat
  <2>1. CASE ~overflow
    BY <1>1, <2>1 DEF SerialInv, Shape
  <2>2. CASE overflow
    <3>1. hw' = RxdRead(hw) /\ hw.rxd # <<>>
      BY <1>1, <1>6, <2>2
    <3>2. hw \in Uart
      BY DEF SerialInv, Shape, Uart
    <3>3. Len(Tail(hw.rxd)) < Len(hw.rxd) /\ Len(hw.rxd) \in Nat /\ Len(Tail(hw.rxd)) \in Nat
      BY <3>1, <3>2, RxdReadIs
    <3> QED BY <2>2, <3>1, <3>2, <3>3, RxdReadIs DEF Uart
  <2> QED BY <2>1, <2>2
<1>8. rx' \in Seq(Nat) /\ Len(rx') <= Len(rx) /\ Len(rx') \in Nat
  <2>1. CASE ~overflow
    BY <1>1, <1>2, <2>1
  <2>2. CASE overflow
    <3>1. Head(hw.rxd) \in Nat
      BY <1>6, <2>2, RxdReadIs DEF SerialInv, Shape, Uart
    <3> QED BY <1>1, <1>2, <2>2, <3>1, AppendProperties
  <2> QED BY <2>1, <2>2
<1>9. Shape'
  <2>1. world' \in [arrived : Nat, lost : SUBSET Nat, given : Seq(Nat), taken : Nat,
                    line : Seq(Nat)]
    BY <1>1, <1>3 DEF SerialInv, Shape
  <2> QED BY <1>1, <1>5, <1>7, <1>8, <2>1 DEF SerialInv, Shape
<1>10. Bounds'
  <2>1. Len(hw'.rxd) <= Hardware
    BY <1>7 DEF SerialInv, Bounds
  <2> QED BY <1>1, <1>2, <1>8, <2>1 DEF SerialInv, Bounds
<1>11. Quota' /\ Turns' /\ Known'
  BY <1>1, <1>4, <1>5, <1>7 DEF SerialInv, Quota, Turns, Known
<1>12. Announced'
  <2>1. ~overflow' /\ (hw'.rxd # <<>> <=> hw'.rxdrdy)
    BY <1>1, <1>7 DEF SerialInv, Announced, RxAnnounced
  <2> QED BY <2>1 DEF Announced, RxAnnounced
<1>13. RxInOrder'
  <2> DEFINE given == Append(world.given, Head(rx))
             rest == Tail(rx)
  <2>1. given \in Seq(Nat) /\ rest \in Seq(Nat)
    BY <1>2, <1>3
  <2>2. given \o rest = world.given \o rx
    <3>1. PICK first \in Seq(Nat), fifo \in Seq(Nat) : first = world.given /\ fifo = rx
      BY Fields
    <3>2. fifo # <<>>
      BY <1>1, <3>1
    <3>3. Append(first, Head(fifo)) \o Tail(fifo) = first \o fifo
      BY <3>2, MoveHead
    <3> QED BY <3>1, <3>3
  <2> HIDE DEF given, rest
  <2>3. world'.given \o rx' \o hw'.rxd = world.given \o rx \o hw.rxd
    <3>1. CASE ~overflow
      <4>1. rx' = rest /\ hw'.rxd = hw.rxd /\ world'.given = given
        BY <1>1, <1>4, <1>7, <3>1 DEF given, rest
      <4> QED BY <2>2, <4>1
    <3>2. CASE overflow
      <4>1. PICK rxd \in Seq(Nat) : rxd = hw.rxd
        BY Fields
      <4>a. rxd # <<>>
        BY <1>6, <3>2, <4>1
      <4>2. (given \o Append(rest, Head(rxd))) \o Tail(rxd) = (given \o rest) \o rxd
        BY <2>1, <4>a, MoveNext
      <4>3. rx' = Append(rest, Head(rxd)) /\ hw'.rxd = Tail(rxd) /\ world'.given = given
        BY <1>1, <1>4, <1>7, <3>2, <4>1 DEF given, rest
      <4> QED BY <2>2, <4>1, <4>2, <4>3
    <3> QED BY <3>1, <3>2
  <2> QED BY <1>4, <2>3 DEF SerialInv, RxInOrder
<1>14. TxInOrder'
  <2>1. /\ world'.line = world.line /\ hw'.txd = hw.txd /\ main'.byte = main.byte /\ tx' = tx
        /\ world'.taken = world.taken
    BY <1>1, <1>4, <1>5, <1>7
  <2> QED BY <2>1 DEF SerialInv, TxInOrder
<1> QED BY <1>9, <1>10, <1>11, <1>12, <1>13, <1>14 DEF SerialInv

(* What the interrupt leaves to reception, when TXD is served.              *)
Transmits(h) ==
    /\ h.rxd = hw.rxd /\ h.rxdrdy = hw.rxdrdy /\ Received(h)
    /\ h.txdrdy => h.txd = None
    /\ state' = "READY" => h.txd = None /\ ~h.txdrdy
    /\ main.at \in {"fetch", "transmit"} => state' = "READY"
    /\ tx' \in Seq(Nat) /\ Len(tx') <= Len(tx) /\ state' \in {"READY", "ON"}
    /\ Pipe(world.line, h.txd, main.byte, tx') = [i \in 1 .. world.taken |-> i]

(* Transmission, the first half of the interrupt: the next byte to TXD, or  *)
(* the state READY, when TXD has become free.                               *)
LEMMA TransmitHalf ==
  ASSUME SerialInv, ActionTxReady(hw), main' = main, world' = world
  PROVE  \E h \in Uart : Transmits(h)
<1> USE SerialAssumption
<1>1. /\ hw \in Uart /\ tx \in Seq(Nat) /\ state \in {"READY", "ON"} /\ Len(tx) \in Nat
      /\ Pipe(world.line, hw.txd, main.byte, tx) = [i \in 1 .. world.taken |-> i]
  BY PipeRight DEF SerialInv, Shape, Uart
<1>2. /\ hw.txdrdy => hw.txd = None
      /\ state = "READY" => hw.txd = None /\ ~hw.txdrdy
      /\ main.at \in {"fetch", "transmit"} => state = "READY"
      /\ main.byte # None <=> main.at = "transmit"
  BY DEF SerialInv, Turns
<1>3. CASE ~hw.txdrdy
  <2>1. Received(hw) /\ tx' = tx /\ state' = state
    BY <1>3 DEF ActionTxReady
  <2>2. Transmits(hw)
    BY <1>1, <1>2, <2>1 DEF Transmits
  <2> QED BY <1>1, <2>2
<1>4. CASE hw.txdrdy /\ tx # <<>>
  <2> DEFINE h == [hw EXCEPT !.txdrdy = FALSE, !.txd = Head(tx)]
  <2>1. Received(h) /\ tx' = Tail(tx) /\ state' = "ON"
    BY <1>4 DEF ActionTxReady
  <2>2. /\ hw.txd = None /\ main.byte = None /\ main.at \notin {"fetch", "transmit"}
    BY <1>2, <1>4
  <2>3. PICK line \in Seq(Nat), fifo \in Seq(Nat) : line = world.line /\ fifo = tx
    BY Fields
  <2>4. /\ Head(fifo) \in Nat /\ Tail(fifo) \in Seq(Nat) /\ Len(Tail(fifo)) = Len(fifo) - 1
        /\ Pipe(line, Head(fifo), None, Tail(fifo)) = Pipe(line, None, None, fifo)
    BY <1>4, <2>3, PipeGet
  <2>5. Pipe(line, Head(fifo), None, Tail(fifo)) = [i \in 1 .. world.taken |-> i]
    BY <1>1, <2>2, <2>3, <2>4
  <2>6. /\ h \in Uart /\ h.rxd = hw.rxd /\ h.rxdrdy = hw.rxdrdy /\ ~h.txdrdy
        /\ h.txd = Head(fifo)
    BY <1>1, <2>3, <2>4 DEF Uart, Slot
  <2> HIDE DEF h
  <2>7. tx' = Tail(fifo) /\ Len(tx') <= Len(tx) /\ tx' \in Seq(Nat)
    BY <1>1, <2>1, <2>3, <2>4
  <2>8. Pipe(world.line, h.txd, main.byte, tx') = [i \in 1 .. world.taken |-> i]
    BY <2>2, <2>3, <2>5, <2>6, <2>7
  <2>9. Transmits(h)
    BY <2>1, <2>2, <2>6, <2>7, <2>8 DEF Transmits
  <2> QED BY <2>6, <2>9
<1>5. CASE hw.txdrdy /\ tx = <<>>
  <2> DEFINE h == [hw EXCEPT !.txdrdy = FALSE]
  <2>1. Received(h) /\ tx' = tx /\ state' = "READY"
    BY <1>5 DEF ActionTxReady
  <2>2. /\ h \in Uart /\ h.rxd = hw.rxd /\ h.rxdrdy = hw.rxdrdy /\ ~h.txdrdy /\ h.txd = hw.txd
    BY <1>1 DEF Uart
  <2> HIDE DEF h
  <2>3. Pipe(world.line, h.txd, main.byte, tx') = [i \in 1 .. world.taken |-> i]
    BY <1>1, <2>1, <2>2
  <2>4. /\ tx' \in Seq(Nat) /\ Len(tx') <= Len(tx)
    BY <1>1, <2>1
  <2>5. Transmits(h)
    BY <1>2, <1>5, <2>1, <2>2, <2>3, <2>4 DEF Transmits
  <2> QED BY <2>2, <2>5
<1> QED BY <1>3, <1>4, <1>5

(* Reception, the second half: the byte of RXD to the FIFO, or the flag     *)
(* that it stays in RXD.                                                    *)
LEMMA ReceiveHalf ==
  ASSUME SerialInv, NEW h \in Uart, h.rxd = hw.rxd, h.rxdrdy = hw.rxdrdy, Received(h),
         world' = world
  PROVE  /\ hw' \in Uart /\ hw'.txd = h.txd /\ hw'.txdrdy = h.txdrdy
         /\ rx' \in Seq(Nat) /\ overflow' \in BOOLEAN
         /\ Len(rx') < Fifo /\ Len(hw'.rxd) <= Hardware
         /\ Announced' /\ RxInOrder'
<1> USE SerialAssumption
<1>1. /\ hw.rxd \in Seq(Nat) /\ rx \in Seq(Nat) /\ Len(rx) \in Nat /\ Len(hw.rxd) \in Nat
      /\ world.given \in Seq(Nat) /\ overflow \in BOOLEAN
  BY DEF SerialInv, Shape
<1>2. /\ Len(hw.rxd) <= Hardware /\ Len(rx) < Fifo
      /\ hw.rxd # <<>> => hw.rxdrdy \/ overflow
      /\ overflow => rx # <<>> /\ hw.rxd # <<>>
      /\ hw.rxdrdy => hw.rxd # <<>> /\ ~overflow
  BY DEF SerialInv, Bounds, Announced, RxAnnounced
<1>3. CASE ~h.rxdrdy
  <2>1. hw' = h /\ rx' = rx /\ overflow' = overflow
    BY <1>3 DEF Received
  <2>2. Announced'
    BY <1>2, <1>3, <2>1 DEF Announced, RxAnnounced
  <2>3. RxInOrder'
    BY <2>1 DEF SerialInv, RxInOrder
  <2> QED BY <1>1, <1>2, <2>1, <2>2, <2>3 DEF Uart
<1>4. CASE h.rxdrdy /\ Len(rx) < Fifo - 1
  <2>1. PICK rxd \in Seq(Nat), fifo \in Seq(Nat), given \in Seq(Nat) :
          rxd = hw.rxd /\ fifo = rx /\ given = world.given
    BY <1>1
  <2>2. rxd # <<>>
    BY <1>2, <1>4, <2>1
  <2>3. /\ Head(rxd) \in Nat /\ Tail(rxd) \in Seq(Nat) /\ Len(Tail(rxd)) = Len(rxd) - 1
        /\ Append(fifo, Head(rxd)) \in Seq(Nat) /\ Len(Append(fifo, Head(rxd))) = Len(fifo) + 1
        /\ Append(fifo, Head(rxd)) # <<>>
    BY <2>2, MoveHead, AppendLast
  <2>4. (given \o Append(fifo, Head(rxd))) \o Tail(rxd) = (given \o fifo) \o rxd
    BY <2>2, MoveNext
  <2>5. Tail(rxd) # <<>> <=> Len(rxd) > 1
    <3>1. PICK rest \in Seq(Nat) : rest = Tail(rxd)
      BY <2>3
    <3>2. rest = <<>> <=> Len(rest) = 0
      BY EmptySeq
    <3>3. Len(rest) = Len(rxd) - 1 /\ Len(rxd) \in Nat
      BY <2>3, <3>1
    <3>4. rest # <<>> <=> Len(rxd) > 1
      BY <3>2, <3>3
    <3> QED BY <3>1, <3>4
  <2>6. /\ rx' = Append(rx, Head(h.rxd)) /\ hw' = RxdRead([h EXCEPT !.rxdrdy = FALSE])
        /\ overflow' = overflow
    BY <1>4 DEF Received
  <2>7. rx' = Append(fifo, Head(rxd))
    BY <2>1, <2>6
  <2>8. /\ hw' \in Uart /\ hw'.txd = h.txd /\ hw'.txdrdy = h.txdrdy
        /\ hw'.rxd = Tail(rxd) /\ hw'.rxdrdy = (Len(rxd) > 1)
    <3> DEFINE read == [h EXCEPT !.rxdrdy = FALSE]
    <3>1. /\ read \in Uart /\ read.rxd = rxd /\ read.txd = h.txd /\ read.txdrdy = h.txdrdy
          /\ read.rxdrdy = FALSE
      BY <2>1 DEF Uart
    <3>2. hw' = RxdRead(read)
      BY <2>6
    <3> HIDE DEF read
    <3>3. read.rxd # <<>>
      BY <2>2, <3>1
    <3>4. /\ hw'.rxd = Tail(read.rxd) /\ hw'.txd = read.txd /\ hw'.txdrdy = read.txdrdy
          /\ hw'.rxdrdy = (read.rxdrdy \/ Tail(read.rxd) # <<>>) /\ hw' \in Uart
      BY <3>1, <3>2, <3>3, RxdReadIs
    <3> QED BY <2>5, <3>1, <3>4
  <2>9. Len(rx') < Fifo /\ Len(hw'.rxd) <= Hardware
    BY <1>1, <1>2, <1>4, <2>1, <2>3, <2>7, <2>8
  <2>10. Announced'
    BY <1>2, <1>4, <2>3, <2>5, <2>6, <2>7, <2>8 DEF Announced, RxAnnounced
  <2>11. RxInOrder'
    <3>1. world'.given \o rx' \o hw'.rxd = world.given \o rx \o hw.rxd
      BY <2>1, <2>4, <2>7, <2>8
    <3> QED BY <3>1 DEF SerialInv, RxInOrder
  <2> QED BY <1>1, <2>3, <2>6, <2>7, <2>8, <2>9, <2>10, <2>11
<1>5. CASE h.rxdrdy /\ ~(Len(rx) < Fifo - 1)
  <2>1. overflow' = TRUE /\ hw' = [h EXCEPT !.rxdrdy = FALSE] /\ rx' = rx
    BY <1>5 DEF Received
  <2>2. /\ hw' \in Uart /\ hw'.txd = h.txd /\ hw'.txdrdy = h.txdrdy /\ hw'.rxd = hw.rxd
        /\ ~hw'.rxdrdy
    BY <2>1 DEF Uart
  <2>3. rx # <<>>
    BY <1>5, EmptySeq
  <2>4. Announced'
    BY <1>2, <1>5, <2>1, <2>2, <2>3 DEF Announced, RxAnnounced
  <2>5. RxInOrder'
    BY <2>1, <2>2 DEF SerialInv, RxInOrder
  <2> QED BY <1>1, <1>2, <2>1, <2>2, <2>4, <2>5
<1> QED BY <1>3, <1>4, <1>5

LEMMA UART0_IRQHandlerInv == ASSUME SerialInv, UART0_IRQHandler PROVE SerialInv'
<1> USE SerialAssumption
<1>1. ActionTxReady(hw) /\ event' = TRUE /\ main' = main /\ world' = world
  BY DEF UART0_IRQHandler
<1>2. PICK h \in Uart : Transmits(h)
  BY <1>1, TransmitHalf
<1>3. /\ hw' \in Uart /\ hw'.txd = h.txd /\ hw'.txdrdy = h.txdrdy
      /\ rx' \in Seq(Nat) /\ overflow' \in BOOLEAN
      /\ Len(rx') < Fifo /\ Len(hw'.rxd) <= Hardware
      /\ Announced' /\ RxInOrder'
  BY <1>1, <1>2, ReceiveHalf DEF Transmits
<1>4. Shape'
  BY <1>1, <1>2, <1>3 DEF Transmits, SerialInv, Shape, Uart
<1>5. Bounds'
  <2>1. Len(tx') <= Len(tx) /\ Len(tx) <= Fifo /\ Len(tx) \in Nat /\ Len(tx') \in Nat
    BY <1>2, Fields DEF Transmits, SerialInv, Bounds
  <2>2. Len(tx') <= Fifo
    BY <2>1
  <2> QED BY <1>3, <2>2 DEF Bounds
<1>6. Quota' /\ Turns' /\ Known'
  BY <1>1, <1>2, <1>3 DEF Transmits, SerialInv, Quota, Turns, Known
<1>7. TxInOrder'
  <2>1. Pipe(world'.line, hw'.txd, main'.byte, tx') = [i \in 1 .. world'.taken |-> i]
    BY <1>1, <1>2, <1>3 DEF Transmits
  <2> QED BY <2>1 DEF TxInOrder, Pipe, Held
<1> QED BY <1>3, <1>4, <1>5, <1>6, <1>7 DEF SerialInv

-----------------------------------------------------------------------------
LEMMA StepInv == SerialInv /\ [Next]_vars => SerialInv'
<1> SUFFICES ASSUME SerialInv, [Next]_vars PROVE SerialInv'
  OBVIOUS
<1>1. CASE UNCHANGED vars
  <2>1. Shape' /\ Bounds' /\ Quota' /\ Turns'
    BY <1>1 DEF vars, SerialInv, Shape, Bounds, Quota, Turns
  <2>2. Announced' /\ Known' /\ RxInOrder' /\ TxInOrder'
    BY <1>1 DEF vars, SerialInv, Announced, RxAnnounced, Known, RxInOrder, TxInOrder
  <2> QED BY <2>1, <2>2 DEF SerialInv
<1>2. CASE Arrive
  BY <1>2, ArriveInv
<1>3. CASE Transmitted \/ UART0_IRQHandler
  BY <1>3, TransmittedInv, UART0_IRQHandlerInv
<1>4. CASE \/ \E n \in 1 .. MaxSend : SerialSend(n)
           \/ NoSend \/ OnUartPut \/ Emptied \/ Wait \/ OtherEvent
  BY <1>4, QuietInv
<1>5. CASE AppUartPut \/ Fetch \/ ActionTxSend \/ AppUartGet
  BY <1>5, AppUartPutInv, FetchInv, ActionTxSendInv, AppUartGetInv
<1> QED BY <1>1, <1>2, <1>3, <1>4, <1>5 DEF Next, Main

(* A byte in TXD is one of those the application sent. *)
LEMMA InTxd ==
  ASSUME SerialInv, hw.txd # None
  PROVE  hw.txd \in 1 .. world.taken
<1>1. hw.txd \in Nat /\ main.byte \in Slot
  BY Fields DEF Slot
<1> DEFINE rest == Held(main.byte) \o tx
<1>2. PICK line \in Seq(Nat), b \in Nat : line = world.line /\ b = hw.txd
  BY <1>1, Fields
<1>3. Held(main.byte) \in Seq(Nat) /\ Held(b) = <<b>>
  BY <1>1, SerialAssumption DEF Held, Slot
<1>4. line \o <<b>> \o Held(main.byte) \o tx = [i \in 1 .. world.taken |-> i]
  BY <1>2, <1>3 DEF SerialInv, TxInOrder, Held
<1>5. PICK hand \in Seq(Nat), fifo \in Seq(Nat) : hand = Held(main.byte) /\ fifo = tx
  BY <1>3, Fields
<1>6. PICK taken \in Nat : taken = world.taken
  BY Fields
<1>7. line \o <<b>> \o hand \o fifo = [i \in 1 .. taken |-> i]
  BY <1>4, <1>5, <1>6
<1>8. /\ (line \o <<b>> \o hand \o fifo)[Len(line) + 1] = b
      /\ Len(line) + 1 \in 1 .. Len(line \o <<b>> \o hand \o fifo)
  OBVIOUS
<1>9. Len(line \o <<b>> \o hand \o fifo) = taken
  BY <1>7
<1>10. b = Len(line) + 1 /\ b \in 1 .. taken
  BY <1>7, <1>8, <1>9
<1> QED BY <1>2, <1>6, <1>10

LEMMA InvRight == SerialInv => SerialRight
<1> SUFFICES ASSUME SerialInv PROVE SerialRight
  OBVIOUS
<1>1. world.taken <= MaxOut /\ world.taken \in Nat
  BY Fields DEF SerialInv, Quota
<1>2. hw.txd \in 1 .. MaxOut \cup {None}
  <2>1. CASE hw.txd # None
    BY <1>1, <2>1, InTxd, SerialAssumption
  <2>2. CASE hw.txd = None
    BY <2>2
  <2> QED BY <2>1, <2>2
<1>3. main.left \in 0 .. MaxSend
  BY Fields, SerialAssumption DEF SerialInv, Quota
<1>4. SerialTypeOK
  BY <1>2, <1>3, Fields DEF SerialTypeOK, SerialInv, Shape, Bounds, Places
<1> QED BY <1>4 DEF SerialRight, SerialInv, Announced

(***************************************************************************)
(* Nothing is lost, repeated or reordered between the UART, its interrupt  *)
(* and the main loop, in either direction, and the FIFOs stay within their *)
(* size: serial_send, serial_get, app_uart_fifo_mod.c.                     *)
(***************************************************************************)
THEOREM SerialIsRight == AppSpec => []SerialRight
<1>1. AppInit => SerialInv
  BY SerialInitInv DEF AppInit
<1>2. SerialInv /\ [AppNext]_<<vars, peripherals>> => SerialInv'
  <2>1. [AppNext]_<<vars, peripherals>> => [Next]_vars
    BY DEF AppNext, Serving
  <2> QED BY <2>1, StepInv
<1> QED BY <1>1, <1>2, InvRight, PTL DEF AppSpec
=============================================================================
