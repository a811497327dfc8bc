--------------------------- MODULE OrderedDelivery ---------------------------
(***************************************************************************)
(* What one direction of an EFCP connection promises its user: SDUs are    *)
(* handed up once each, in the order they were written, and every SDU that *)
(* was written is handed up in the end. Several may be handed up in one    *)
(* step, as when a gap closes.                                             *)
(***************************************************************************)
EXTENDS Naturals, Sequences

CONSTANT SDU

VARIABLES
    written,      \* SDUs in the order in which they were written
    handedUp      \* SDUs in the order in which they were handed up

vars == <<written, handedUp>>

Init ==
    /\ written = <<>>
    /\ handedUp = <<>>

Write(s) ==
    /\ written' = Append(written, s)
    /\ UNCHANGED handedUp

HandUp(n) ==
    /\ n > Len(handedUp)
    /\ handedUp' = SubSeq(written, 1, n)
    /\ UNCHANGED written

Next ==
    \/ \E s \in SDU : Write(s)
    \/ \E n \in 1..Len(written) : HandUp(n)

Spec ==
    /\ Init
    /\ [][Next]_vars
    /\ WF_vars(\E n \in 1..Len(written) : HandUp(n))
=============================================================================
