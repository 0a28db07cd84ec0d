-------------------------------- MODULE MCHost ---------------------------------
(***************************************************************************)
(* The host build: the devices it has bonded with (DeviceManagerCentral),  *)
(* and the services it finds at one (DbDiscovery).  The two share no       *)
(* state, so a behaviour is one of either.                                 *)
(***************************************************************************)
EXTENDS DeviceManagerCentral, DbDiscovery

CONSTANTS public, private, other, heart, battery

VARIABLE part

HostInit ==
    /\ part \in {"bonds", "services"} /\ Init /\ DiscoveryInit
    /\ part = "bonds" => peer = [s \in Service |-> <<>>]

HostNext ==
    /\ UNCHANGED part
    /\ \/ part = "bonds" /\ Next /\ UNCHANGED discoveryVars
       \/ part = "services" /\ DiscoveryNext /\ UNCHANGED vars

HostSpec == HostInit /\ [][HostNext]_<<part, vars, discoveryVars>>

-----------------------------------------------------------------------------
(* No service; one without characteristics; characteristics with and       *)
(* without configuration, up to the three that fit; and configuration that *)
(* a long UUID, or too many descriptors, push out of the first response.   *)
PeerLayouts ==
    {<<>>, <<"service">>, <<"service", "decl", "value", "cccd">>,
     <<"service", "decl", "value", "decl", "value", "desc", "cccd">>,
     <<"service", "decl", "value", "cccd", "decl", "value", "desc", "decl", "value">>,
     <<"service", "decl", "value", "decl", "value", "decl", "value", "cccd">>,
     <<"service", "decl", "value", "custom", "cccd", "decl", "value", "cccd", "custom">>,
     <<"service", "decl", "value", "desc", "desc", "desc", "desc", "desc", "cccd">>}
===============================================================================
