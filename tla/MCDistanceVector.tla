-------------------------- MODULE MCDistanceVector --------------------------
(***************************************************************************)
(* A triangle with a process behind it, within infMetric and, with         *)
(* infMetric 2, not: while its last flow is not up, it is a line that      *)
(* echoes. A line of three, where 1 and 2 have a second flow. A line of    *)
(* four, within infMetric, with its far end at infMetric, and with the     *)
(* ends of its middle at infMetric, where it echoes for ever.              *)
(***************************************************************************)
EXTENDS DistanceVector

MCNodes == 1 .. 4
MCFlows == 1 .. 5
MCInitiator == <<1, 2, 3, 1, 2>>
MCResponder == <<2, 3, 4, 3, 1>>
MCDelay == <<1, 1, 1, 1, 1>>

Config(flows, infMetric) == [flows |-> flows, together |-> FALSE, infMetric |-> infMetric]

MCConfigurations ==
    {Config({1, 2, 3, 4}, 32), Config({1, 2, 3, 4}, 2), Config({1, 2, 5}, 3),
     Config({1, 2, 3}, 32), Config({1, 2, 3}, 3), Config({1, 2, 3}, 2)}
=============================================================================
