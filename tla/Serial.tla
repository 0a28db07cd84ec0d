-------------------------------- MODULE Serial --------------------------------
(***************************************************************************)
(* The serial port: serial.c over app_uart_fifo_mod.c, between the UART    *)
(* (external: a receive FIFO whose head is RXD, one byte in TXD), its      *)
(* interrupt and the main loop of device_main.c, which may be interrupted  *)
(* between any two statements that share state.  Bytes are numbered in     *)
(* the order they arrive, and in the order the application sends them.     *)
(***************************************************************************)
EXTENDS Integers, Sequences, SequencesExt, FiniteSets

CONSTANTS Fifo,     \* size of the two software FIFOs (128)
          Hardware, \* bytes the UART holds, RXD among them (6)
          MaxSend,  \* bound: bytes of one serial_send
          MaxIn,    \* bound: bytes that arrive
          MaxOut,   \* bound: bytes sent
          None

ASSUME SerialAssumption ==
    /\ Fifo \in Nat /\ Fifo > 1 /\ Hardware \in Nat \ {0}
    /\ MaxSend \in Nat /\ MaxIn \in Nat /\ MaxOut \in Nat
    /\ None \notin Nat

VARIABLES
    hw,        \* the UART: received bytes, RXDRDY, TXD, TXDRDY
    rx,        \* m_rx_fifo
    overflow,  \* rx_fifo_overflow
    tx,        \* m_tx_fifo
    state,     \* m_current_state: "READY" or "ON"
    main,      \* the main loop: where it is, bytes still to send, tx_byte
    event,     \* sd_app_evt_wait will return
    world      \* bytes that arrived, were lost, given to the application,
               \* taken from it, and put on the line (history)

vars == <<hw, rx, overflow, tx, state, main, event, world>>

(* serial_setup, called when the application gets ready. *)
UartInit == [rxd |-> <<>>, rxdrdy |-> FALSE, txd |-> None, txdrdy |-> FALSE]
Loop == [at |-> "dispatch", left |-> 0, byte |-> None]
Nothing == [arrived |-> 0, lost |-> {}, given |-> <<>>, taken |-> 0, line |-> <<>>]

Init ==
    /\ hw = UartInit /\ rx = <<>> /\ overflow = FALSE
    /\ tx = <<>> /\ state = "READY"
    /\ main = Loop /\ event = FALSE /\ world = Nothing

(* APP_ERROR_CHECK(err_code) resets the device. *)
Reset ==
    /\ hw' = UartInit /\ rx' = <<>> /\ overflow' = FALSE
    /\ tx' = <<>> /\ state' = "READY"
    /\ main' = Loop /\ event' = FALSE
    /\ world' = [Nothing EXCEPT !.arrived = world.arrived,
                                !.lost = 1 .. world.arrived]

-----------------------------------------------------------------------------
\* The UART.

(* A byte arrives.  Without flow control it is lost when there is no room. *)
Arrive ==
    /\ world.arrived < MaxIn
    /\ LET b == world.arrived + 1
           full == Len(hw.rxd) = Hardware
       IN  /\ world' = [world EXCEPT !.arrived = b,
                            !.lost = IF full THEN @ \cup {b} ELSE @]
           /\ hw' = IF full THEN hw
                    ELSE [hw EXCEPT !.rxd = Append(@, b),
                                    !.rxdrdy = @ \/ hw.rxd = <<>>]
    /\ UNCHANGED <<rx, overflow, tx, state, main, event>>

(* RXD is read: the next byte moves up and is ready. *)
RxdRead(h) ==
    [h EXCEPT !.rxd = Tail(@), !.rxdrdy = @ \/ Len(h.rxd) > 1]

Transmitted ==
    /\ hw.txd # None
    /\ world' = [world EXCEPT !.line = Append(@, hw.txd)]
    /\ hw' = [hw EXCEPT !.txd = None, !.txdrdy = TRUE]
    /\ UNCHANGED <<rx, overflow, tx, state, main, event>>

-----------------------------------------------------------------------------
\* UART0_IRQHandler.

(* Reception: one byte of the FIFO is never used here. *)
Received(h) ==
    IF ~h.rxdrdy THEN /\ UNCHANGED <<rx, overflow>> /\ hw' = h
    ELSE IF Len(rx) < Fifo - 1
    THEN /\ rx' = Append(rx, Head(h.rxd))
         /\ hw' = RxdRead([h EXCEPT !.rxdrdy = FALSE])
         /\ UNCHANGED overflow
    ELSE /\ overflow' = TRUE
         /\ hw' = [h EXCEPT !.rxdrdy = FALSE]
         /\ UNCHANGED rx

(* on_tx_ready: action_tx_send while there is more, else action_tx_stop. *)
ActionTxReady(h) ==
    IF ~h.txdrdy THEN UNCHANGED <<tx, state>> /\ Received(h)
    ELSE IF tx # <<>>
    THEN /\ tx' = Tail(tx) /\ state' = "ON"
         /\ Received([h EXCEPT !.txdrdy = FALSE, !.txd = Head(tx)])
    ELSE /\ state' = "READY" /\ UNCHANGED tx
         /\ Received([h EXCEPT !.txdrdy = FALSE])

(* Mutant of UART0_IRQHandler: the main loop is not woken. *)
UART0_IRQHandlerQuiet ==
    /\ hw.rxdrdy \/ hw.txdrdy
    /\ ActionTxReady(hw)
    /\ UNCHANGED <<event, main, world>>

UART0_IRQHandler ==
    /\ hw.rxdrdy \/ hw.txdrdy
    /\ ActionTxReady(hw)
    /\ event' = TRUE
    /\ UNCHANGED <<main, world>>

-----------------------------------------------------------------------------
\* The main loop.

(* The application calls serial_send, from a task or from serial_on_data. *)
SerialSend(n) ==
    /\ main.at \in {"dispatch", "data"} /\ world.taken + n <= MaxOut
    /\ main' = [main EXCEPT !.at = "put", !.left = n]
    /\ UNCHANGED <<hw, rx, overflow, tx, state, event, world>>

NoSend ==
    /\ main.at \in {"dispatch", "data"}
    /\ main' = [main EXCEPT !.at = "get"]
    /\ UNCHANGED <<hw, rx, overflow, tx, state, event, world>>

(* app_uart_put: into the FIFO; a full one is an error. *)
AppUartPut ==
    /\ main.at = "put"
    /\ IF Len(tx) = Fifo THEN Reset
       ELSE /\ tx' = Append(tx, world.taken + 1)
            /\ world' = [world EXCEPT !.taken = @ + 1]
            /\ main' = [main EXCEPT !.at = "check"]
            /\ UNCHANGED <<hw, rx, overflow, state, event>>

Sent(m) == [m EXCEPT !.left = @ - 1, !.byte = None,
                     !.at = IF m.left = 1 THEN "get" ELSE "put"]

(* on_uart_put: only an idle UART has to be started. *)
OnUartPut ==
    /\ main.at = "check"
    /\ main' = IF state = "READY" THEN [main EXCEPT !.at = "fetch"] ELSE Sent(main)
    /\ UNCHANGED <<hw, rx, overflow, tx, state, event, world>>

(* action_tx_send: app_fifo_get, then TXD and the state. *)
Fetch ==
    /\ main.at = "fetch"
    /\ IF tx = <<>> THEN /\ state' = "READY" /\ main' = Sent(main)
                         /\ UNCHANGED tx
       ELSE /\ main' = [main EXCEPT !.at = "transmit", !.byte = Head(tx)]
            /\ tx' = Tail(tx) /\ UNCHANGED state
    /\ UNCHANGED <<hw, rx, overflow, event, world>>

ActionTxSend ==
    /\ main.at = "transmit"
    /\ hw' = [hw EXCEPT !.txd = main.byte]
    /\ state' = "ON"
    /\ main' = Sent(main)
    /\ UNCHANGED <<rx, overflow, tx, event, world>>

(* Mutant of AppUartGet: the byte that found the FIFO full stays in RXD. *)
AppUartGetForgets ==
    /\ main.at = "get"
    /\ rx # <<>>
    /\ rx' = Tail(rx) /\ overflow' = FALSE
    /\ world' = [world EXCEPT !.given = Append(@, Head(rx))]
    /\ main' = [main EXCEPT !.at = "data"]
    /\ UNCHANGED <<hw, tx, state, event>>

(* app_uart_get, with the interrupt masked: the byte that found the FIFO    *)
(* full comes in, and serial_on_data is called with the one taken out.      *)
AppUartGet ==
    /\ main.at = "get"
    /\ rx # <<>>
    /\ rx' = IF overflow THEN Append(Tail(rx), Head(hw.rxd)) ELSE Tail(rx)
    /\ hw' = IF overflow THEN RxdRead(hw) ELSE hw
    /\ overflow' = FALSE
    /\ world' = [world EXCEPT !.given = Append(@, Head(rx))]
    /\ main' = [main EXCEPT !.at = "data"]
    /\ UNCHANGED <<tx, state, event>>

(* serial_get ends. *)
Emptied ==
    /\ main.at = "get" /\ rx = <<>>
    /\ main' = [main EXCEPT !.at = "wait"]
    /\ UNCHANGED <<hw, rx, overflow, tx, state, event, world>>

(* sd_app_evt_wait, and the loop comes round. *)
Wait ==
    /\ main.at = "wait" /\ event
    /\ event' = FALSE
    /\ main' = [main EXCEPT !.at = "dispatch"]
    /\ UNCHANGED <<hw, rx, overflow, tx, state, world>>

(* Another interrupt of the system. *)
OtherEvent ==
    /\ ~event /\ event' = TRUE
    /\ UNCHANGED <<hw, rx, overflow, tx, state, main, world>>

Main == \/ NoSend \/ AppUartPut \/ OnUartPut \/ Fetch \/ ActionTxSend
        \/ AppUartGet \/ Emptied \/ Wait

Next ==
    \/ Arrive \/ Transmitted \/ UART0_IRQHandler \/ OtherEvent \/ Main
    \/ \E n \in 1 .. MaxSend : SerialSend(n)

(* The interrupt is taken, the main loop goes on, and a byte in TXD leaves. *)
Fairness == WF_vars(Transmitted) /\ WF_vars(UART0_IRQHandler) /\ WF_vars(Main)

Spec == Init /\ [][Next]_vars /\ Fairness

(***************************************************************************)
(* Properties.                                                             *)
(***************************************************************************)

(* The FIFOs stay within their size, and the receive FIFO's interrupt       *)
(* leaves room for the byte app_uart_get adds (app_uart_fifo_mod.c:257).    *)
SerialTypeOK ==
    /\ Len(hw.rxd) <= Hardware /\ hw.txd \in 1 .. MaxOut \cup {None}
    /\ Len(rx) < Fifo /\ Len(tx) <= Fifo
    /\ overflow \in BOOLEAN /\ state \in {"READY", "ON"} /\ event \in BOOLEAN
    /\ main.at \in {"dispatch", "put", "check", "fetch", "transmit", "get",
                    "data", "wait"}
    /\ main.left \in 0 .. MaxSend

(* Every byte the UART accepted is given to the application, waits in the   *)
(* FIFO or in the UART, in the order of arrival and once: also when the     *)
(* FIFO is full and the byte waits in RXD (rx_fifo_overflow).               *)
Ascending(s) == \A i, j \in DOMAIN s : i < j => s[i] < s[j]

RxInOrder ==
    LET here == world.given \o rx \o hw.rxd
    IN  Ascending(here) /\ ToSet(here) = (1 .. world.arrived) \ world.lost

(* A byte left in RXD is announced: by the event flag of the UART, or by    *)
(* rx_fifo_overflow, and then there is a byte that will be taken out.       *)
RxAnnounced ==
    /\ hw.rxd # <<>> => hw.rxdrdy \/ overflow
    /\ overflow => rx # <<>> /\ hw.rxd # <<>>

(* Every byte the application sent is on the line, in TXD, in the hands of  *)
(* action_tx_send or in the FIFO, in order and once: interrupt and main     *)
(* loop never both take it, and neither overwrites TXD.                     *)
TxInOrder ==
    LET held(b) == IF b = None THEN <<>> ELSE <<b>>
    IN  world.line \o held(hw.txd) \o held(main.byte) \o tx =
            [i \in 1 .. world.taken |-> i]

(* Bytes given are sent while the device is not reset, without another call *)
(* that would start the UART (on_uart_put sees the state the interrupt      *)
(* leaves).                                                                 *)
EventuallySent ==
    \A i \in 1 .. MaxOut :
        (world.taken >= i) ~> (Len(world.line) >= i \/ world.taken < i)

(* A byte accepted is given to the application, though the main loop sleeps *)
(* between interrupts.                                                      *)
EventuallyGiven ==
    \A i \in 1 .. MaxIn :
        (world.arrived >= i) ~> (i \in world.lost \cup ToSet(world.given))

(* Nothing is lost, repeated or reordered in either direction, between the  *)
(* interrupt and the main loop: the four state properties above.            *)
SerialRight == SerialTypeOK /\ RxInOrder /\ RxAnnounced /\ TxInOrder

(* Both directions go on (UART0_IRQHandler, serial_get).                    *)
EventuallyServed == EventuallySent /\ EventuallyGiven
=============================================================================
