------------------------------- MODULE MCDevice --------------------------------
(***************************************************************************)
(* The device build: what it says and hears on the air (DeviceLink), and   *)
(* the phones it has bonded with (DeviceManagerPeripheral).  The two share *)
(* no state, so a behaviour is one of either.                              *)
(***************************************************************************)
EXTENDS DeviceLink, DeviceManagerPeripheral

CONSTANTS public, private, other

(* The longest name that fits beside the flags and the service, the longest *)
(* that fits beside the flags, one more of each, and one that is cut; a     *)
(* beacon that names itself in its response; two data whose parts fit       *)
(* exactly; one that does not fit.                                          *)
Name(n) == [i \in 1 .. n |-> 64]
AllNames == {Name(n) : n \in {22, 23, 26, 27, 30}}
Flagged == [NoAd EXCEPT !.flags = TRUE]
Long == [i \in 1 .. 16 |-> i]
Beacon == <<[Flagged EXCEPT !.maker = [i \in 1 .. 23 |-> i]],
            [NoAd EXCEPT !.name = "full"]>>
Offer == <<[Flagged EXCEPT !.name = "short", !.shortLen = 2, !.power = TRUE,
               !.appearance = TRUE, !.interval = <<6, 65535>>,
               !.services = <<<<7, 7>>>>], NoAd>>
Lists == <<[Flagged EXCEPT !.all = <<<<1, 2>>, Long, <<3, 4>>>>], NoAd>>
TooMany == <<[Flagged EXCEPT !.all = <<Long>>, !.more = <<Long>>,
                 !.solicited = <<<<5, 6>>>>], NoAd>>
Hasty == <<[Flagged EXCEPT !.interval = <<8, 6>>], NoAd>>
Bare == <<[Flagged EXCEPT !.name = "full"], Flagged>>
AllAds == {Beacon, Offer, Lists, TooMany, Hasty, Bare}

VARIABLE part

DeviceInit ==
    /\ part \in {"air", "bonds"} /\ LinkInit /\ Init
    /\ part = "bonds" => ~app /\ ad.name = Name(22)

DeviceNext ==
    /\ UNCHANGED part
    /\ \/ part = "air" /\ LinkNext /\ UNCHANGED vars
       \/ part = "bonds" /\ Next /\ UNCHANGED linkVars

DeviceSpec == DeviceInit /\ [][DeviceNext]_<<part, linkVars, vars>>
===============================================================================
