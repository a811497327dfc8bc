------------------------------ MODULE FlowLife -------------------------------
(***************************************************************************)
(* What two flow allocators promise about one flow: whoever asked for it   *)
(* has it only when the other end accepted it, and an end that asked to    *)
(* close it is told so only after the other end has closed too.            *)
(***************************************************************************)
VARIABLE end      \* what the flow is at its two ends

Ends == {"caller", "callee"}
Other(e) == IF e = "caller" THEN "callee" ELSE "caller"

Becomes(e, phase) == end' = [end EXCEPT ![e] = phase]

Init == end = [e \in Ends |-> "idle"]

Ask == end["caller"] = "idle" /\ Becomes("caller", "waiting")

Answer(phase) ==
    /\ end["caller"] = "waiting" /\ end["callee"] = "idle"
    /\ Becomes("callee", phase)

(* By the time the caller hears, the callee may be closing. *)
Confirm ==
    /\ end["caller"] = "waiting" /\ end["callee"] \in {"open", "closing"}
    /\ Becomes("caller", "open")

(* The callee has refused, or was not even asked. *)
Deny ==
    /\ end["caller"] \in {"idle", "waiting"} /\ end["callee"] \in {"idle", "refused"}
    /\ Becomes("caller", "refused")

Close(e) == end[e] = "open" /\ Becomes(e, "closing")

Follow(e) == end[e] = "open" /\ end[Other(e)] = "closing" /\ Becomes(e, "closed")

Closed(e) == end[e] = "closing" /\ end[Other(e)] = "closed" /\ Becomes(e, "closed")

Next ==
    \/ Ask
    \/ Answer("open") \/ Answer("refused")
    \/ Confirm
    \/ Deny
    \/ \E e \in Ends : Close(e) \/ Follow(e) \/ Closed(e)

Spec == Init /\ [][Next]_end
=============================================================================
