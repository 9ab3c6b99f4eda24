---------------------------- MODULE MCPersistence ----------------------------
EXTENDS Persistence

Hello(user, clean, interval) == [user |-> user, clean |-> clean, interval |-> interval]
Message(topic, qos, retain, life, empty) ==
    [topic |-> topic, qos |-> qos, retain |-> retain, life |-> life, empty |-> empty, props |-> ~empty]

(* A lasting session and one that ends with its connection. *)
PlainConnects == {Hello("u", FALSE, 1), Hello("u", TRUE, 0)}
(* Lasting sessions, with and without a username. *)
MixedConnects == {Hello("u", FALSE, 1), Hello("none", FALSE, 1)}

(* A QoS 2 message that expires, the clearing of a retained one, and one   *)
(* of the broker's reports.                                                *)
SomeMessages ==
    {Message("t", 2, TRUE, 1, FALSE), Message("t", 1, TRUE, 0, TRUE), Message("$SYS", 2, TRUE, 0, FALSE)}
OneMessage == {Message("t", 1, FALSE, 0, FALSE)}
=============================================================================
