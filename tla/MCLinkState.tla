---------------------------- MODULE MCLinkState -----------------------------
(***************************************************************************)
(* Two networks. In a triangle 1 and 2 have a management flow and then a   *)
(* cheaper data flow, and 1 reaches 3 as cheaply over 2 as it does itself. *)
(* In a line of four, the ends are beyond their neighbours' neighbours.    *)
(***************************************************************************)
EXTENDS LinkState

MCNodes == 1 .. 4
MCFlows == 1 .. 5
MCInitiator == <<1, 1, 2, 1, 3>>
MCResponder == <<2, 2, 3, 3, 4>>
MCDelay == <<1, 1, 2, 3, 1>>
MCManagement == {1}

Config(flows, together) == [flows |-> flows, together |-> together, infMetric |-> 32]

MCConfigurations ==
    {Config({1, 2, 3}, FALSE), Config({2, 3, 4}, TRUE), Config({2, 3, 5}, TRUE)}
=============================================================================
