------------------------ MODULE MCOutgoingMessages ------------------------
(* Message kinds for model checking OutgoingMessages.                      *)
EXTENDS OutgoingMessages

(* TLC evaluates the constant definitions of an extended module once, with *)
(* the constants of the configuration file, unless it is instantiated too: *)
(* without this line the instances of OutgoingMessages in other modules    *)
(* would have the FreshMsgData of this one.                                *)
Lists == INSTANCE OutgoingLists

Small(q) == [qos |-> q, large |-> FALSE, latency |-> FALSE,
             oversize |-> FALSE, expires |-> FALSE]
Large(q) == [Small(q) EXCEPT !.large = TRUE]
Expiring(q) == [Small(q) EXCEPT !.expires = TRUE]
Oversize(q) == [Small(q) EXCEPT !.oversize = TRUE]
Probe == [Small(1) EXCEPT !.latency = TRUE]

NoKinds == {}
PlainKinds == {Small(1), Small(2)}
Qos1Kinds == {Small(1)}
AdaptiveKinds == {Small(1), Large(1), Probe}
MixedKinds == {Large(0), Large(2), Small(1), Probe}
FragileKinds == {Expiring(1), Expiring(2), Oversize(1), Small(2)}
=============================================================================
