--------------------------- MODULE MCDispatchFair ---------------------------
(***************************************************************************)
(* Model checking of DispatchFair, for callers whose operations do not     *)
(* chain for ever within one pass of dispatch(): no idle operation         *)
(* registers another.                                                      *)
(***************************************************************************)
EXTENDS DispatchFair, DispatchView

CalmPosts   == {<<"interrupt", "idle">>, <<"interrupt", "timer">>,
                <<"timer", "idle">>, <<"timer", "timer">>,
                <<"idle", "timer">>, <<"serial", "timer">>}

FairView == <<Renamed, load>>
=============================================================================
