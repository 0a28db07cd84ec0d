------------------------------ MODULE Peripherals ------------------------------
(***************************************************************************)
(* The modules an application drives through TIMER1, TIMER2 and the ADC:   *)
(* who holds the timers (juma_sys_res_manage.c), the user timer (timer.c), *)
(* the light (light.c), the infrared sender (infrared_send_module.c,       *)
(* infrared_send_pwm.c), the sound (passive_buzzer.c) and the ADC (adc.c). *)
(*                                                                         *)
(* The hardware (external) is what the code asks of it: a timer runs from  *)
(* compare to compare, PPI toggles the infrared pin on each compare of     *)
(* TIMER1, and TIMER2 makes the carrier TIMER1 counts.  What a module wrote *)
(* into TIMER2 stays there for the next one.  An application uses the      *)
(* modules of one profile, stops only what it has started, and sets the    *)
(* type of its timer before it starts it.                                  *)
(***************************************************************************)
EXTENDS Integers, Sequences, SequencesExt, FiniteSets

CONSTANTS Profiles,     \* sets of modules an application uses
          Periods,      \* values of timer_start
          Colors,       \* values of light_set_color
          Signals,      \* data of ble_infrared_send, sequences of bits
          Config,       \* durations: lead, mark, rest, one, zero, end
          Width,        \* 2^16, the range of last_time
          MaxLate,      \* compares that may pass before the interrupt is taken
          MaxPlays,     \* bound: calls of play_sound
          MaxMeasures   \* bound: conversions

Chan == 0 .. 3
Pin == 1 .. 3
Dark == [i \in Pin |-> "none"]
NoStop == 5  \* stop_send: "normal mode"

Duration == Nat \ {0}

PeripheralsAssumption ==
    /\ \A s \in Signals : s \in Seq({0, 1}) /\ s # <<>>
    /\ \A c \in Colors : c \in [Pin -> {"none", "half", "full"}]
    /\ Config \in [lead : Duration, mark : Duration, rest : Duration, end : Duration,
                   one : Duration \X Duration, zero : Duration \X Duration]
    /\ Periods \subseteq Nat /\ Width \in Duration
    /\ MaxLate \in Chan \ {0}  \* the four channels give that much time

VARIABLES
    use,    \* the profile
    own,    \* who holds TIMER1 and TIMER2: Current_Statue and Point
    t1,     \* TIMER1: running, compare values, counter, events, interrupts
            \* enabled, shortcuts, and whether it counts the carrier
    t2,     \* TIMER2: powered, running, cleared by its compare 1 (SHORTS), and
            \* the pin of the light its compare 0 is led to (PPI 0), or 0
    timer,  \* the user timer: type, fired or stopped since the start, where
            \* timer_stop is, and whether one has freed a timer that ran
    light,  \* m_light, what its pins show, and where set_color is
    ir,     \* the sender: status, data, index, last_time, stop_send, pins,
            \* and the toggles of its pin since the send began
    sound,  \* m_buzzer, the operation registered, and the notes since play
    adc     \* the caller waited for, the result, callbacks registered, given

vars == <<use, own, t1, t2, timer, light, ir, sound, adc>>

Init ==
    /\ use \in Profiles
    /\ own = <<"free", "free">>
    /\ t1 = [run |-> FALSE, cc |-> [c \in Chan |-> 0], count |-> 0, events |-> {},
             inten |-> {}, stops |-> {}, clears |-> FALSE, counts |-> FALSE]
    /\ t2 = [power |-> TRUE, run |-> FALSE, short |-> FALSE, out |-> 0]
    /\ timer = [once |-> FALSE, fired |-> 0, stopped |-> TRUE, at |-> 0, raced |-> FALSE]
    /\ light = [on |-> FALSE, values |-> Dark, shown |-> Dark, at |-> 0]
    /\ ir = [statue |-> 0, data |-> <<>>, index |-> 0, last |-> 0, stop |-> NoStop,
             pins |-> "in", ppi |-> FALSE, wave |-> <<>>]
    /\ sound = [running |-> FALSE, note |-> 0, round |-> 0, next |-> "none",
                played |-> <<>>, plays |-> 0]
    /\ adc = [waiting |-> 0, result |-> 0, queue |-> <<>>, given |-> {}, calls |-> 0]

-----------------------------------------------------------------------------
\* The timers.

Apply(t, who) == own[t] = "free" /\ own' = [own EXCEPT ![t] = who]

Pending == t1.events \cap t1.inten

(* TIMER1 runs to the next compare value it has before it; TIMER2 drives it  *)
(* when it counts.  Every compare toggles the infrared pin once PPI is set.  *)
Compare ==
    LET ahead == {c \in Chan : t1.cc[c] > t1.count}
        fires == {c \in ahead : \A d \in ahead : t1.cc[c] <= t1.cc[d]}
        now == t1.cc[CHOOSE c \in fires : TRUE]
    IN  /\ t1.run /\ ahead # {} /\ Cardinality(Pending) < MaxLate
        /\ t1.counts => t2.run /\ t2.power
        /\ t1' = [t1 EXCEPT !.events = @ \cup fires,
                     !.count = IF t1.clears /\ 0 \in fires THEN 0 ELSE now,
                     !.run = fires \cap t1.stops = {}]
        /\ ir' = IF ir.ppi THEN [ir EXCEPT !.wave = Append(@, now)] ELSE ir
        /\ UNCHANGED <<use, own, t2, timer, light, sound, adc>>

-----------------------------------------------------------------------------
\* timer.c

TimerInit(once) ==
    /\ "timer" \in use /\ own[1] # "timer"
    /\ timer' = [timer EXCEPT !.once = once, !.fired = 0, !.stopped = TRUE]
    /\ UNCHANGED <<use, own, t1, t2, light, ir, sound, adc>>

(* Mutant of TimerStart: the interrupt is not enabled. *)
TimerStartUnarmed(value) ==
    /\ "timer" \in use /\ Apply(1, "timer")
    /\ t1' = [t1 EXCEPT !.run = TRUE, !.cc[0] = value, !.count = 0, !.events = {},
                 !.stops = IF timer.once THEN {0} ELSE {},
                 !.clears = ~timer.once, !.counts = FALSE]
    /\ timer' = [timer EXCEPT !.fired = 0, !.stopped = FALSE]
    /\ UNCHANGED <<use, t2, light, ir, sound, adc>>

TimerStart(value) ==
    /\ "timer" \in use /\ Apply(1, "timer")
    /\ t1' = [t1 EXCEPT !.run = TRUE, !.cc[0] = value, !.count = 0, !.events = {},
                 !.inten = @ \cup {0}, !.stops = IF timer.once THEN {0} ELSE {},
                 !.clears = ~timer.once, !.counts = FALSE]
    /\ timer' = [timer EXCEPT !.fired = 0, !.stopped = FALSE]
    /\ UNCHANGED <<use, t2, light, ir, sound, adc>>

(* timer_stop by the main thread stops the timer, which may have fired, ... *)
TimerStop ==
    /\ own[1] = "timer" /\ timer.at = 0
    /\ t1' = [t1 EXCEPT !.run = FALSE]
    /\ timer' = [timer EXCEPT !.stopped = TRUE, !.at = 1]
    /\ UNCHANGED <<use, own, t2, light, ir, sound, adc>>

(* ... and frees TIMER1, whoever has it by then: an interrupt that waits is *)
(* served before.                                                           *)
TimerFree ==
    /\ timer.at = 1 /\ Pending = {}
    /\ own' = [own EXCEPT ![1] = "free"]
    /\ timer' = [timer EXCEPT !.at = 0, !.raced = @ \/ t1.run]
    /\ UNCHANGED <<use, t1, t2, light, ir, sound, adc>>

(* TIMER_IRQHandler; timer_on_fired may stop the timer, and start it again. *)
TimerIRQHandler(stops) ==
    /\ own[1] = "timer" /\ Pending # {}
    /\ LET over == timer.once \/ stops
       IN  /\ t1' = [t1 EXCEPT !.events = @ \ {0}, !.run = @ /\ ~over]
           /\ own' = IF over THEN [own EXCEPT ![1] = "free"] ELSE own
    /\ timer' = [timer EXCEPT !.fired = IF @ = 2 THEN 2 ELSE @ + 1,
                              !.stopped = @ \/ stops]
    /\ UNCHANGED <<use, t2, light, ir, sound, adc>>

-----------------------------------------------------------------------------
\* light.c.  set_color goes from pin to pin; 0 is not in it, 4 is light_off.

LightOn ==
    /\ "light" \in use /\ light.at = 0 /\ Apply(2, "light")
    /\ light' = [light EXCEPT !.on = TRUE, !.at = 1]
    /\ t2' = [t2 EXCEPT !.power = TRUE]
    /\ UNCHANGED <<use, t1, timer, ir, sound, adc>>

LightSetColor(values) ==
    /\ "light" \in use /\ light.at = 0
    /\ light' = [light EXCEPT !.values = values, !.at = IF light.on THEN 1 ELSE 0]
    /\ UNCHANGED <<use, own, t1, t2, timer, ir, sound, adc>>

(* Where compare 0 leads when some pins have been set: a pin with a duty     *)
(* cycle takes the PPI channel of its number, any other leaves it.           *)
Led(pins) == IF 1 \in pins /\ light.values[1] = "half" THEN 1 ELSE t2.out

(* Mutant of SetColor: the timer is not started again. *)
SetColorStopped ==
    /\ light.at \in Pin
    /\ light' = [light EXCEPT !.shown[light.at] = light.values[light.at],
                     !.at = IF @ = 3 THEN 0 ELSE @ + 1]
    /\ t2' = [t2 EXCEPT !.run = FALSE, !.out = Led({light.at})]
    /\ UNCHANGED <<use, own, t1, timer, ir, sound, adc>>

(* set_color for one pin; the timer stands while it goes on. *)
SetColor ==
    /\ light.at \in Pin
    /\ light' = [light EXCEPT !.shown[light.at] = light.values[light.at],
                     !.at = IF @ = 3 THEN 0 ELSE @ + 1]
    /\ t2' = [t2 EXCEPT !.run = light.at = 3, !.out = Led({light.at})]
    /\ UNCHANGED <<use, own, t1, timer, ir, sound, adc>>

(* The end of a period, at any point of the main thread.  It does not come   *)
(* when compare 1 clears the timer before it.                                *)
LightTimerInterrupt ==
    /\ own[2] = "light" /\ t2.run /\ t2.power /\ ~t2.short
    /\ IF light.on
       THEN /\ light' = [light EXCEPT !.shown = light.values]
            /\ t2' = [t2 EXCEPT !.out = Led(Pin)]
       ELSE UNCHANGED <<light, t2>>
    /\ UNCHANGED <<use, own, t1, timer, ir, sound, adc>>

(* The pins whose duty cycle is lost to what another module left in TIMER2:  *)
(* without the end of the period no pin is set again, and a pin may be       *)
(* cleared by a compare that is not its own.                                 *)
Spoilt == {i \in Pin : /\ light.values[i] = "half"
                       /\ t2.short \/ (t2.out = i /\ i # 1)}

LightDisturbed ==
    /\ light.on /\ light.at = 0 /\ t2.run /\ t2.power /\ Spoilt # {}
    /\ light' = [light EXCEPT !.shown =
                     [i \in Pin |-> IF i \in Spoilt THEN "wrong" ELSE light.shown[i]]]
    /\ UNCHANGED <<use, own, t1, t2, timer, ir, sound, adc>>

(* TIMER2 loses its power, and its registers with it or not. *)
Unpowered(kept) == [t2 EXCEPT !.power = FALSE, !.short = @ /\ kept]

LightOff ==
    /\ light.on /\ light.at = 0
    /\ light' = [light EXCEPT !.on = FALSE, !.at = 4]
    /\ UNCHANGED <<use, own, t1, t2, timer, ir, sound, adc>>

LightDark ==
    /\ light.at = 4
    /\ light' = [light EXCEPT !.shown = Dark, !.at = 0]
    /\ \E kept \in BOOLEAN : t2' = [Unpowered(kept) EXCEPT !.run = FALSE]
    /\ own' = [own EXCEPT ![2] = "free"]
    /\ UNCHANGED <<use, t1, timer, ir, sound, adc>>

-----------------------------------------------------------------------------
\* The infrared sender.  s is <<own, t1, t2, ir>> while a handler runs.

State == [own |-> own, t1 |-> t1, t2 |-> t2, ir |-> ir]
Becomes(s) == own' = s.own /\ t1' = s.t1 /\ t2' = s.t2 /\ ir' = s.ir

(* ble_infrared_get_next_toggle_time: burst and space of each bit, and 0. *)
Toggle(r) ==
    IF (r.index \div 2) >= Len(r.data) THEN 0
    ELSE (IF r.data[(r.index \div 2) + 1] = 1 THEN Config.one
          ELSE Config.zero)[(r.index % 2) + 1]

ShockStart(s) == [s EXCEPT !.t2.run = TRUE, !.ir.pins = "out"]
ShockStop(s) == [s EXCEPT !.t2.run = FALSE, !.ir.pins = "in"]

(* ble_infrared_stop *)
InfraredStop(s) == [s EXCEPT !.own = <<"free", "free">>, !.ir.statue = 1]
PwmStop(s) == InfraredStop(ShockStop(s))

(* Mutant of ConfigChan: the time of the last toggle is not kept. *)
ConfigChanSameStart(s, c) ==
    LET v == Toggle(s.ir)
        at == (s.ir.last + v) % Width
    IN  IF s.ir.stop = c THEN [PwmStop(s) EXCEPT !.ir.stop = NoStop]
        ELSE IF s.ir.stop # NoStop THEN s
        ELSE IF v # 0 THEN [s EXCEPT !.t1.cc[c] = at, !.ir.index = @ + 1]
        ELSE [s EXCEPT !.t1.cc[c] = (s.ir.last + Config.end) % Width,
                       !.t1.stops = @ \cup {c}, !.ir.stop = c, !.ir.index = 0]

(* ble_infrared_config_timer_chan: the next toggle, or the one that stops. *)
ConfigChan(s, c) ==
    LET v == Toggle(s.ir)
        at == (s.ir.last + v) % Width
    IN  IF s.ir.stop = c THEN [PwmStop(s) EXCEPT !.ir.stop = NoStop]
        ELSE IF s.ir.stop # NoStop THEN s
        ELSE IF v # 0
        THEN [s EXCEPT !.t1.cc[c] = at, !.ir.last = at, !.ir.index = @ + 1]
        ELSE [s EXCEPT !.t1.cc[c] = (s.ir.last + Config.end) % Width,
                       !.t1.stops = @ \cup {c}, !.ir.stop = c, !.ir.index = 0]

(* infrared_signal_send_module_timer_irqhandler: channel by channel, whatever *)
(* the order they came in.                                                    *)
Served(s, c) ==
    IF c \in s.t1.events THEN ConfigChan([s EXCEPT !.t1.events = @ \ {c}], c)
    ELSE s
SendIRQHandler ==
    /\ own[1] = "infrared" /\ Pending # {}
    /\ Becomes(Served(Served(Served(Served(State, 0), 1), 2), 3))
    /\ UNCHANGED <<use, timer, light, sound, adc>>

InfraredConfig ==
    /\ "infrared" \in use /\ ir.statue <= 1
    /\ ir' = [ir EXCEPT !.statue = 1]
    /\ UNCHANGED <<use, own, t1, t2, timer, light, sound, adc>>

(* Mutant of ApplySysRes: TIMER1 is kept when TIMER2 is busy. *)
ApplySysResTimer1(s) ==
    IF s.own[1] = "free" /\ s.own[2] = "free"
    THEN [s EXCEPT !.own = <<"infrared", "infrared">>]
    ELSE IF s.own[1] = "free" THEN [s EXCEPT !.own[1] = "infrared"] ELSE s

(* ble_infrared_apply_sys_res: both timers or none. *)
ApplySysRes(s) ==
    IF s.own = <<"free", "free">> THEN [s EXCEPT !.own = <<"infrared", "infrared">>]
    ELSE s

(* shock_signal_init: the carrier's pin is an input till it starts; PPI 0   *)
(* leads to its GPIOTE task, which is that of the light's second pin, and   *)
(* the carrier's period clears TIMER2.                                      *)
ShockInit(s) == [s EXCEPT !.ir.pins = "in", !.t2.out = 2,
                          !.t2.short = @ \/ s.t2.power]

(* ble_infrared_pwm_config: TIMER1 counts, with all its interrupts.         *)
PwmConfig(s) ==
    [ShockInit(s) EXCEPT !.t1.counts = TRUE, !.t1.inten = Chan, !.t1.clears = FALSE,
              !.ir.ppi = TRUE]

(* ble_infrared_pwm_start: the first three compares, and one of the data. *)
PwmStart(s) ==
    LET a == Config.lead
        b == a + Config.mark
        d == b + Config.rest
        set == [s EXCEPT !.t1.stops = {}, !.ir.last = d,
                         !.t1.cc[0] = a, !.t1.cc[1] = b, !.t1.cc[2] = d]
    IN  [ShockStart(ConfigChan(set, 3)) EXCEPT !.t1.count = 0, !.t1.run = TRUE]

PwmSend(s, data) ==
    PwmStart([s EXCEPT !.ir.data = data, !.ir.index = 0, !.ir.wave = <<>>])

InfraredSend(data) ==
    /\ "infrared" \in use /\ ir.statue = 1
    /\ LET s == ApplySysRes(State)
       IN  Becomes(IF s.own[1] # "infrared" THEN s
                   ELSE PwmSend(PwmConfig([s EXCEPT !.ir.statue = 2]), data))
    /\ UNCHANGED <<use, timer, light, sound, adc>>

-----------------------------------------------------------------------------
\* passive_buzzer.c: a chain of timed operations on one record.

Notes == 4
TotalRounds == 3

(* Mutant of PlaySound: the rounds of the tune before go on counting. *)
PlaySoundKeepsRound ==
    /\ "sound" \in use /\ sound.plays < MaxPlays
    /\ sound' = [sound EXCEPT !.note = 0, !.running = TRUE,
                     !.next = IF sound.running THEN @ ELSE "on",
                     !.played = <<>>, !.plays = @ + 1]
    /\ UNCHANGED <<use, own, t1, t2, timer, light, ir, adc>>

PlaySound ==
    /\ "sound" \in use /\ sound.plays < MaxPlays
    /\ sound' = [sound EXCEPT !.note = 0, !.round = 0, !.running = TRUE,
                     !.next = IF sound.running THEN @ ELSE "on",
                     !.played = <<>>, !.plays = @ + 1]
    /\ UNCHANGED <<use, own, t1, t2, timer, light, ir, adc>>

NoteOn ==
    /\ sound.next = "on"
    /\ sound' = [sound EXCEPT !.note = @ + 1, !.next = "off",
                     !.played = Append(@, sound.note)]
    /\ t2' = [power |-> TRUE, run |-> TRUE, short |-> TRUE, out |-> 3]
    /\ UNCHANGED <<use, own, t1, timer, light, ir, adc>>

NoteOff ==
    /\ sound.next = "off"
    /\ LET over == sound.note >= Notes
           round == IF over THEN sound.round + 1 ELSE sound.round
           last == over /\ round = TotalRounds
       IN  sound' = [sound EXCEPT !.round = round, !.running = ~last,
                         !.note = IF over /\ ~last THEN 0 ELSE @,
                         !.next = IF last THEN "none" ELSE "on"]
    /\ \E kept \in BOOLEAN : t2' = Unpowered(kept)
    /\ UNCHANGED <<use, own, t1, timer, light, ir, adc>>

-----------------------------------------------------------------------------
\* adc.c.  Conversions are numbered; _on_complete is the waiting one.

(* vcc_measure and adc_measure: a call during a conversion does nothing. *)
AdcMeasure ==
    /\ "adc" \in use /\ adc.calls < MaxMeasures
    /\ adc' = IF adc.waiting # 0 THEN adc
              ELSE [adc EXCEPT !.waiting = adc.calls + 1, !.calls = @ + 1]
    /\ UNCHANGED <<use, own, t1, t2, timer, light, ir, sound>>

ADC_IRQHandler ==
    /\ adc.waiting # 0
    /\ adc' = [adc EXCEPT !.result = adc.waiting, !.waiting = 0,
                   !.queue = Append(@, adc.waiting)]
    /\ UNCHANGED <<use, own, t1, t2, timer, light, ir, sound>>

(* The dispatcher calls on_complete with the address of result. *)
OnComplete ==
    /\ adc.queue # <<>>
    /\ adc' = [adc EXCEPT !.queue = Tail(@),
                   !.given = @ \cup {<<Head(adc.queue), adc.result>>}]
    /\ UNCHANGED <<use, own, t1, t2, timer, light, ir, sound>>

-----------------------------------------------------------------------------
Steps ==
    \/ \E stops \in BOOLEAN : TimerIRQHandler(stops)
    \/ SendIRQHandler \/ SetColor \/ LightDark
    \/ NoteOn \/ NoteOff \/ ADC_IRQHandler \/ OnComplete

Next ==
    \/ Compare \/ Steps
    \/ \E once \in BOOLEAN : TimerInit(once)
    \/ \E v \in Periods : TimerStart(v)
    \/ TimerStop \/ TimerFree
    \/ LightOn \/ LightOff \/ LightTimerInterrupt \/ LightDisturbed
    \/ \E v \in Colors : LightSetColor(v)
    \/ InfraredConfig \/ \E d \in Signals : InfraredSend(d)
    \/ PlaySound \/ AdcMeasure

(* Timers run, interrupts are taken, and what was begun or registered goes on. *)
Fairness ==
    /\ WF_vars(Compare) /\ WF_vars(\E stops \in BOOLEAN : TimerIRQHandler(stops))
    /\ WF_vars(SendIRQHandler)
    /\ WF_vars(SetColor \/ LightDark) /\ WF_vars(NoteOn \/ NoteOff)
    /\ WF_vars(ADC_IRQHandler) /\ WF_vars(OnComplete)

Spec == Init /\ [][Next]_vars /\ Fairness

(***************************************************************************)
(* Properties.                                                             *)
(***************************************************************************)

(* The modules hold the timers exactly while they use them: no refusal, no  *)
(* end in an interrupt and no stop leaves one busy or takes one from its    *)
(* user (apply_sys_res_timer1 to free_sys_res_timer2).                      *)
TimersHeld ==
    /\ \A t \in 1 .. 2 : own[t] = "infrared" <=> ir.statue = 2
    /\ own[2] = "light" <=> light.on \/ light.at = 4
    /\ own[1] = "timer" => t1.run \/ Pending # {} \/ timer.at = 1
    /\ t1.run => own[1] # "free"

(* An interrupt of TIMER1 is cleared by the handler it is given to: one of  *)
(* another channel, or with no handler, would be taken without end          *)
(* (TIMER1_IRQHandler).                                                     *)
NoStorm ==
    /\ Pending # {} => own[1] # "free"
    /\ own[1] = "timer" => Pending \subseteq {0}

(* A one-shot timer fires once and is free when it does, unless stopped     *)
(* before (TIMER_IRQHandler).                                               *)
OneShot ==
    timer.once => /\ timer.fired <= 1
                  /\ own[1] = "timer" => timer.fired = 0
                  /\ own[1] # "timer" => timer.fired = 1 \/ timer.stopped

(* The signal of some bits, as the times between its toggles: lead, mark,   *)
(* rest, burst and space of each bit, end.                                  *)
Durations(data) ==
    <<Config.lead, Config.mark, Config.rest>>
    \o [i \in 1 .. 2 * Len(data) |->
           LET code == IF data[(i + 1) \div 2] = 1 THEN Config.one ELSE Config.zero
           IN  IF i % 2 = 1 THEN code[1] ELSE code[2]]
    \o <<Config.end>>

(* Each toggle comes its duration after the one before. *)
Follows(times, durations) ==
    /\ Len(times) <= Len(durations)
    /\ \A i \in 1 .. Len(times) :
          times[i] = (IF i = 1 THEN 0 ELSE times[i - 1]) + durations[i]

(* Whatever order the four channels are refilled in, the pin toggles at the *)
(* times of the signal, and at all of them when the send is over; then the  *)
(* carrier stands and the pins are inputs                                   *)
(* (ble_infrared_config_timer_chan).                                        *)
WaveRight ==
    /\ Follows(ir.wave, Durations(ir.data))
    /\ ir.statue # 2 => /\ ir.ppi => Len(ir.wave) = Len(Durations(ir.data))
                        /\ ir.pins = "in"

(* The light shows its color when it is on and nothing when it is off,      *)
(* though the end of a period may paint it again at any point in between    *)
(* (set_color, light_timer_interrupt).  The only pins that may not are those *)
(* with a duty cycle that a send or a note has spoilt: it leaves TIMER2 to   *)
(* be cleared too early and PPI 0 on another pin, which light_on takes as    *)
(* they are.  Where there is neither sender nor sound no pin is spoilt.      *)
LightRight ==
    /\ light.at = 0 =>
          IF light.on
          THEN /\ t2.run /\ t2.power
               /\ \A i \in Pin : light.shown[i] = light.values[i] \/ i \in Spoilt
          ELSE light.shown = Dark
    /\ {"infrared", "sound"} \cap use = {} => Spoilt = {}

(* After the last play_sound the whole tune is played once, from its first  *)
(* note, also when the call came in the middle of another; no note is read  *)
(* behind the end of freqs (note_on).                                       *)
WholeTune ==
    LET tune == [i \in 1 .. TotalRounds * Notes |-> (i - 1) % Notes]
    IN  /\ IsPrefix(sound.played, tune)
        /\ (sound.plays > 0 /\ ~sound.running) => sound.played = tune

(* A send ends, and the timers are free again, while TIMER2 has power.  This *)
(* and what follows ends when a stop has freed a timer that runs: its next   *)
(* interrupt is taken without end.                                           *)
SendEnds == (ir.statue = 2 /\ t2.power) ~> (ir.statue = 1 \/ timer.raced)

(* A tune ends.                                                             *)
SoundEnds == sound.running ~> (~sound.running \/ timer.raced)

(* A conversion accepted is delivered.                                      *)
EveryMeasured ==
    \A n \in 1 .. MaxMeasures :
        (adc.waiting = n) ~> ((\E g \in adc.given : g[1] = n) \/ timer.raced)

(* A timer that is started fires or is stopped.                             *)
TimerFires == (own[1] = "timer") ~> (timer.fired > 0 \/ timer.stopped \/ timer.raced)

(* The timers go from hand to hand, and no interrupt is left behind: the    *)
(* three properties of TIMER1 and TIMER2 above.  They hold until timer_stop, *)
(* between stopping the timer and freeing it, is interrupted by the last     *)
(* interrupt of the timer, and timer_on_fired starts it again: the stop then *)
(* frees a timer that runs, and has no handler (timer.c:54-56).              *)
TimersRight == ~timer.raced => TimersHeld /\ NoStorm /\ OneShot

(* What an application begins comes to its end by the hardware alone.       *)
EventuallyDone == SendEnds /\ SoundEnds /\ EveryMeasured /\ TimerFires
=============================================================================
