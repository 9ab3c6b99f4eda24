------------------------ MODULE MCIncomingMessages ------------------------
(* Small instances of IncomingMessages. *)
EXTENDS IncomingMessages

Small(q) == [qos |-> q, large |-> FALSE, denied |-> FALSE]
Large(q) == [qos |-> q, large |-> TRUE, denied |-> FALSE]
Denied(q) == [qos |-> q, large |-> FALSE, denied |-> TRUE]

AllQos == {Small(0), Small(1), Small(2)}
TwoQos == {Small(1), Small(2)}
AnyKind == AllQos \cup {Denied(2)}
LargeQos2 == {Large(2)}
=============================================================================
