----------------------------- MODULE MCApplication -----------------------------
(***************************************************************************)
(* What an application drives besides the radio: the serial port (Serial), *)
(* or modules of Peripherals.  Serial shares no state with the others, so  *)
(* it is a profile of its own.                                             *)
(***************************************************************************)
EXTENDS Serial

CONSTANTS Profiles, Periods, Colors, Signals, Config, Width, MaxLate, MaxPlays,
          MaxMeasures

(* A signal of the lengths the code sends, shorter; colors.                 *)
Times == [lead |-> 1, mark |-> 4, rest |-> 2, one |-> <<1, 3>>, zero |-> <<1, 1>>,
          end |-> 1]
Bits == {<<1>>, <<0, 1>>, <<1, 0, 1>>}
RGB == {<<"none", "half", "full">>, <<"half", "half", "none">>}

VARIABLES use, own, t1, t2, timer, light, ir, sound, adc

peripherals == <<use, own, t1, t2, timer, light, ir, sound, adc>>

P == INSTANCE Peripherals

ASSUME AppAssumption == P!PeripheralsAssumption

(* A step of Serial. *)
Serving(step) == use = {"serial"} /\ step /\ UNCHANGED peripherals

AppInit == Init /\ P!Init

AppNext ==
    \/ Serving(Next)
    \/ use # {"serial"} /\ P!Next /\ UNCHANGED vars

AppSpec ==
    /\ AppInit /\ [][AppNext]_<<vars, peripherals>>
    /\ WF_vars(Serving(Transmitted)) /\ WF_vars(Serving(UART0_IRQHandler))
    /\ WF_vars(Serving(Main))
    /\ P!Fairness

(* The properties of the other modules, as Peripherals states them.         *)
(* The timers go from hand to hand, until a stop frees a timer started again   *)
(* in the middle of it (juma_sys_res_manage.c, timer_stop).                    *)
TimersRight == P!TimersRight
(* The infrared pin shows the signal (ble_infrared_config_timer_chan). *)
WaveRight == P!WaveRight
(* The light shows its color, on the pins a send has not spoilt (set_color). *)
LightRight == P!LightRight
(* The tune is played once (note_on, note_off). *)
WholeTune == P!WholeTune
(* What was begun ends (TIMER_IRQHandler, note_off, ADC_IRQHandler). *)
EventuallyDone == P!EventuallyDone
===============================================================================
