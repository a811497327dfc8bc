----------------------- MODULE MCRecursiveAllocation ------------------------
(***************************************************************************)
(* A chain of two hosts, A and D, and two relays, R and S. Flows of one    *)
(* cube are asked for from both sides, so that (N-1)-flows cross; of the   *)
(* other cube, by a host and by a relay, so that one may be used when the  *)
(* next is still being made. In one configuration the management flow from *)
(* R to S is preallocated and the DIF below refuses the other one that R   *)
(* wants: a request that waits there goes on over the management flow.     *)
(***************************************************************************)
EXTENDS RecursiveAllocation

Chain == <<"A", "R", "S", "D">>
Position(n) == SelectInSeq(Chain, LAMBDA m : m = n)

MCNodes == Range(Chain)
MCNextHop ==
    [n \in MCNodes |->
        [d \in MCNodes |->
            CASE Position(n) < Position(d) -> Chain[Position(n) + 1]
              [] Position(n) > Position(d) -> Chain[Position(n) - 1]
              [] OTHER -> n]]

MCFlows == {"f1", "f2", "f3", "f4"}
MCCaller == [f \in MCFlows |-> CASE f = "f2" -> "D" [] f = "f4" -> "R" [] OTHER -> "A"]
MCCallee == [f \in MCFlows |-> IF f = "f2" THEN "R" ELSE "D"]
MCQoS == [f \in MCFlows |-> IF f \in {"f1", "f2"} THEN "low" ELSE "high"]

Config(preallocated, refused, port) ==
    [preallocated |-> preallocated, refused |-> refused, port |-> port]

MCConfigurations ==
    {Config({}, {}, port) : port \in {"first", "last"}}
    \union {Config({<<"R", "S", "mgmt">>}, {<<"R", "S", "high">>}, "first")}

(* The theorems about whole paths are about routes like these. *)
ASSUME ChainRoutesAgree == RoutesAgree
=============================================================================
