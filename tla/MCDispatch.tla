----------------------------- MODULE MCDispatch -----------------------------
(***************************************************************************)
(* Model checking of Dispatch: who registers what, and the symmetry of the *)
(* tasks.                                                                  *)
(***************************************************************************)
EXTENDS DispatchRefines, DispatchView, TLC

\* Everybody registers everything, save idle operations from the serial
\* callback: the processor may sleep on those until its next event.
CommonPosts == (Context \X {"idle", "timer"}) \ {<<"serial", "idle">>}
TimerPosts  == {<<"interrupt", "timer">>, <<"timer", "timer">>}
IdlePosts   == {<<"interrupt", "idle">>}

Tasks == Permutations(Task)
=============================================================================
