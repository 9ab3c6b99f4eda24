------------------------------ MODULE MCBridge ------------------------------
EXTENDS Bridge

Plain == [v5 |-> FALSE, private |-> FALSE, max_qos |-> 2, retain |-> TRUE, keepalive |-> Unset]
Poor == [v5 |-> TRUE, private |-> FALSE, max_qos |-> 0, retain |-> FALSE, keepalive |-> Unset]

(* The defaults with shorter times: a first address and a spare one, a     *)
(* remote broker that knows neither MQTT 5 nor the private version bit.    *)
Usual ==
    [start |-> "automatic", count |-> 2, round_robin |-> FALSE, base |-> 1, cap |-> 2, timeout |-> 0,
     notify |-> "both", clean_local |-> FALSE, idle |-> 1, threshold |-> 2, private |-> TRUE, v5 |-> TRUE,
     keepalive |-> 2, instant |-> FALSE, queue |-> 1, remote |-> Plain]

SomeConfs ==
    {Usual,
     [Usual EXCEPT !.round_robin = TRUE, !.notify = "local", !.clean_local = TRUE, !.v5 = FALSE, !.cap = 0, !.timeout = 1],
     [Usual EXCEPT !.count = 1, !.remote = Poor, !.instant = TRUE],
     [Usual EXCEPT !.start = "lazy", !.count = 1, !.queue = 2, !.remote = [Poor EXCEPT !.max_qos = 2, !.keepalive = 0]]}
Instant == {[Usual EXCEPT !.instant = TRUE, !.v5 = FALSE, !.private = FALSE]}
=============================================================================
