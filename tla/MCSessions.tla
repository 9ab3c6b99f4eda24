----------------------------- MODULE MCSessions -----------------------------
EXTENDS Sessions

Hello(id, v5, clean, expiry, will, delay, auth) ==
    [id |-> id, v5 |-> v5, clean |-> clean, expiry |-> expiry, will |-> will, delay |-> delay, auth |-> auth]

(* Lasting sessions with delayed wills, a clean start, and an MQTT 3.1.1   *)
(* session that never expires and is refused for its keepalive.            *)
SomeConnects ==
    {Hello("x", TRUE, FALSE, 1, TRUE, 1, "ok"),
     Hello("x", TRUE, TRUE, 0, TRUE, 1, "ok"),
     Hello("x", FALSE, FALSE, 0, TRUE, 0, "keepalive"),
     Hello("y", TRUE, FALSE, 2, TRUE, 2, "ok")}

(* Extended authentication; as the only scenario it also refutes           *)
(* NothingStolen.                                                          *)
AuthConnects == {Hello("x", TRUE, FALSE, 1, TRUE, 0, "continue")}

BothScenarios == {SomeConnects, AuthConnects}
=============================================================================
