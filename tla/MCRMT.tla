------------------------------- MODULE MCRMT --------------------------------
(***************************************************************************)
(* Instances of RMT: one port towards a neighbour, one towards another     *)
(* node. Either PDUs of two QoS cubes meet in the queues of the second     *)
(* port, or PDUs arrive for this node while its EFCP instance comes and    *)
(* goes, and one is sent that has no queue.                                *)
(***************************************************************************)
EXTENDS RMT

MCQueueIds == <<"data", "mgmt">>

MCRoutes == {<<"far", "any", "p1">>, <<"far", "data", "p0">>, <<"far", "any", "none">>}

Pdu(id, src, dst, qos) == [id |-> id, src |-> src, dst |-> dst, qos |-> qos, cep |-> "c1"]

Sending(p, e) == [s \in Sources |-> IF s = Interface THEN p ELSE IF s = Efcp THEN e ELSE <<>>]

MCTraffics ==
    {Sending(<<Pdu(1, Interface, "far", "data"), Pdu(2, Interface, "far", "data")>>,
             <<Pdu(3, Efcp, "far", "mgmt")>>),
     Sending(<<Pdu(1, Interface, Here, "data"), Pdu(2, Interface, Here, "data")>>,
             <<Pdu(3, Efcp, "far", "other")>>)}
=============================================================================
