# Verification of the adaptive Mosquitto broker

This directory holds TLA+ models of the broker and the client library in `src/`, a fork
of Eclipse Mosquitto 2.0.12 that adds an adaptive transmit policy, the TLC
configurations that check them, and TLAPS proofs about them. Modules are checked with
`tlc -config X.cfg M`, proofs with `tlapm M.tla`.

## 1. The system

The broker is one process with one event loop thread (`src/src/loop.c`,
`mux_epoll.c`). Each wake-up reads packets from ready sockets, and for each packet
runs one handler (`handle__publish`, `handle__pubrec`, ...) to its end. Handlers never
interleave with each other. What does interleave is the order in which packets of
different clients arrive, acknowledgements that are already under way, connection
losses, reconnections, clock time, failing sends, and crashes between the system calls of
a save. The client library, in contrast, has two threads that share its lists.

| Part | State | Module |
|---|---|---|
| Outgoing path (`database.c`, `handle_pubackcomp.c`, `handle_pubrec.c`) | per subscriber: lists inflight, queued, storage; send quota; `msg_count12`; `last_mid` | `OutgoingLists`, `OutgoingMessages` |
| Transmit policy, mode decision (`handle_pubackcomp.c:121-206`) | probe timer, ring of 5 round trip times, `threshold_l`, `mode`, `slow_mode_time` | `AdaptiveMode` |
| Incoming path (`handle_publish.c`, `handle_pubrel.c`, `database.c`) | per publisher: lists inflight, queued, storage; receive quota | `IncomingMessages` |
| Sessions (`handle_connect.c`, `handle_auth.c`, `context.c`, `session_expiry.c`, `will_delay.c`, `loop.c`) | contexts, the table by identifier, lists of expiring sessions, delayed wills and disused contexts | `Sessions` |
| Routing (`subs.c`, `topic_tok.c`, `retain.c`, `util_topic.c`) | subscription and retain trees, shared groups, each client's records | `Topics`, `Subscriptions` (abstract), `TopicMatch` |
| Store and persistence (`persist_*.c`, `database.c`, `apps/db_dump`) | reference counts; the file and its temporary name | `Persistence` |
| Passwords, ACLs, plugin chain (`security.c`, `security_default.c`, `plugin.c`) | loaded options, each client's ACL entry | `Security` |
| Dynamic security plugin (`plugins/dynamic-security`) | clients, groups, roles that point at each other; the JSON file | `DynSec` |
| Bridges (`bridge.c`, `handle_connack.c`, `mux_epoll.c`) | connection state, timers, addresses, status message | `Bridge` |
| Client library (`lib/`) | lists, packet queue, socket and state shared by two threads | `ClientLibrary` |
| Packets (`packet_mosq.c`, `packet_datatypes.c`, `property_mosq.c`, `send_*.c`, `utf8_mosq.c`) | output queue, partial write and read, topic aliases | `Packets`, `Utf8` |

`PROJECT.json` lists every part, modelled or not, and the hazards with the source
line where each one bites.

The transmit policy works as follows. A subscriber whose probe round trip (messages on the
topic `latency`) reaches the mean of its last five is put in slow mode. In slow mode
messages of at least `threshold_s` bytes go to a third list, `storage`. They leave it when
a later probe ends slow mode, when they are older than `msg_store_timeout`, or when
slow mode has lasted 30 seconds; in each case only when some handler next walks the list.

## 2. Modules

Functions of the source are operators under their C names, from one state record to
the next; an action is a whole handler with all its calls.

**`Subsequences`** has what a C loop that deletes while it walks leaves of a list
(`Pick`), prefixes and suffixes, without recursion. `SubsequencesProofs` proves the facts
the other proofs use.

**`OutgoingLists`** and **`OutgoingMessages`**. `msgs_out` is the C struct: three sequences, the quota, the
counter, plus the packets on their way out. `OutgoingLists` has the functions of `database.c` as operators on this
record, `OutgoingMessages` the handlers that call them, the connection and the client.

| Definition | Code |
|---|---|
| `Place`, `Enlist`, `Update` | the choice of list, the insertion and the trailing writes of `db__message_insert` |
| `WriteFrom` | `db__message_write_inflight_out_single` over a part of the list, with expiry, oversize packets and a failing send |
| `LatestFrom` | the backward search of `db__message_write_inflight_out_latest` |
| `Dequeue`, `db__message_write_queued_out`, `db__message_write_storage_out` | the moves between lists |
| `db__message_delete_outgoing` | acknowledgement, early returns, refill from the queue |
| `db__message_reconnect_reset_outgoing`, `HasMessages`, `Reconnect` | session takeover in `connect__on_authorised` |
| `Publish`, `Subscribe`, `SubscribeRetained`, `UnsubscribeLatency`, `HandlePuback`, `HandlePubrec`, `HandlePubrecFail`, `HandlePubcomp`, `Disconnect` | one action per handler |

After `Break` the socket is "broken": packets already received are still handled, sends fail.
The mode that a probe selects is a free choice here; `AdaptiveMode` models how it is made.
Time is an age that stops growing one unit past the limit it is compared with.

**`AdaptiveMode`**: the probe timer, the ring with its index handling, the threshold,
the mode and its limit for one client over several connections, with an unbounded clock
and unbounded samples in the proofs.

**`IncomingMessages`**: `handle__publish` and `handle__pubrel` for one publisher: the
search for an earlier copy, the "reused identifier" branch, refusal, release, the queue and the reset at
reconnect. The publisher keeps to the protocol but may exceed the broker's receive maximum
(an MQTT 3.1.1 client does not know it) and uses identifiers again at once.

**`Sessions`**: several contexts and identifiers through a round of the main loop
(`MainLoopTop`, events in any order, `MainLoopEnd`), with CONNECT and takeover, AUTH,
DISCONNECT, kicking by a plugin and shutdown. Contexts are freed at the top of the
next round; `wild` records the use of a freed one, `stolen` deviation S1. The model stops at
either, and the invariants say that `wild` never becomes true.

**`Topics`** keeps the two trees as functions from paths; **`Subscriptions`** is
what they promise: a flat set of subscriptions and the last retained message of each topic.
`TreeImplementsFlat` is the refinement (`INSTANCE Subscriptions WITH` the set read
off the tree). **`TopicMatch`** is the character-by-character
`mosquitto_topic_matches_sub2()` against MQTT's rule on levels.

**`Persistence`**: stored messages with reference counts, `persist__backup` one system call at a
time with a stop of the process or the machine between any two, a full disk, restoring
(versions 2 to 6), and what `db_dump` counts.

**`Security`**: parsing order of ACL lines, the chain of checks, logins, and `SIGHUP`.
**`DynSec`**: the commands of the plugin on both sides of each relation, the decision on
ACLs, saving, failing to save, and restart.

**`Bridge`**: `bridge_check` in its parts, the epoll registration that is remembered
and the one there is, CONNACK with all its refusals, status messages, keepalive. The remote
broker and the network are external.

**`ClientLibrary`**: a step is what one thread does under one lock. The broker's half
of the session is external. **`Packets`**: packets as byte sequences, composed, written and
read in pieces, and decoded. **`Utf8`**: the validator against the encoding.

The `MC` modules give values to constants. `MCMessages`, `MCDelivery`, `MCWire`,
`MCClients` and `MCAccess` put several instances side by side and choose one in the initial
state (`use` or `part`, which no step changes); the instances do not interact. A property that is about one
instance is trivially true in the others, so each is broken by a mutant of its own instance.

### Abstractions

* `OutgoingMessages` and `IncomingMessages` have one client each, with a persistent session that it
  resumes; clean start and takeover between live connections are in `Sessions`. Byte limits
  (`max_queued_bytes`, `max_inflight_bytes`) are at their default 0, `max_qos` at 2.
* Whether the output packet queue is full (`full`) or a packet waits for the socket
  (`blocked`) is a free Boolean. At a reconnect the queue counts as not full.
* Left out everywhere: logging, exhausted memory, TLS. Left out of the message paths: removal of messages after
  an ACL change, suppression of duplicates for overlapping subscriptions, and the collision of packet identifiers
  after a wrap of `last_mid`.
* A QoS 2 subscriber passes a message on when it first sees its identifier. Routing an incoming message
  always succeeds (it fails in the code only without memory or by an error of a plugin).
* `Sessions`: plugins kick only clients that are connected (`KickOffline = FALSE`; deviation S6 is about the others).
* `Persistence`: the disk can be full while messages are stored (`FullAt`); a full disk later on is deviation P2.
  All sessions of the passing run have a username; sessions with and without one are in `persistence_users`.
* `Topics`: the scenarios of the passing run have no client that uses one filter plainly and in a group (deviation T1).

## 3. What TLC checks

| Run | Instances and bounds | Shows |
|---|---|---|
| `messages` | *plain*: inflight 2, queue 2, 5 messages of QoS 1 and 2, 2 losses. *adaptive*: 4 messages with probes and large ones, no loss. *resumed*: inflight 1, 4 messages, small ones retained, 1 loss. *fragile*: inflight 1, 3 messages that expire, are oversize or refused, 1 loss. *incoming*: receive maximum 2, queue 1, 4 messages of every QoS, one refused, 2 losses | QoS 2 at most once in both directions; nothing accepted vanishes (not claimed for *resumed*: deviation 2) and no identifier names two messages; nobody waits in vain; counters exact (not for *resumed*: deviation 12); without the policy the queue is bounded, quota is not lost and the queue moves; unsent messages in flight are found by the write loops; storage ordered |
| `delivery` | *incoming*: receive maximum 2. *limited*: inflight 2, 5 QoS 1 messages, 2 losses. *unlimited*: `max_inflight_messages 0`, 3 messages, policy active, 1 loss | liveness: what is accepted arrives (under the policy: small messages), publications are routed or refused; first transmissions in order |
| `wire` | 7 samples over 2 connections, clock to 26, which wraps the ring of 5; packets of every kind, up to 3 at a time, written and read in pieces; texts of a few bytes at the class limits | the threshold is the mean of the last 5 samples, the mode follows it, probes never overestimate, holding is limited; lengths and streams exact; UTF-8 exact |
| `clients` | library: 2 publications, or deliveries, 2 losses or refusals; bridge: 4 configurations, 2 faults | QoS 2 published once and confirmations true; nothing stranded; completed deliveries were given; bridge status, epoll registration, pacing, and reconnection |
| `topics` | 2 clients, 4 scenarios, 2 subscriptions each; subscriptions up to 5 and topics up to 3 characters | the trees implement the flat set; records agree; groups take turns; the matcher is right |
| `sessions` | 3 contexts, 2 identifiers, 2 at a time online; one scenario without and one with extended authentication | lists and tables exact; one fate per will; sessions are kept and end |
| `access` | plugin: 1 user, 2 groups, 2 roles, 3 commands; files: ACLs of up to 3 lines, several password files, plugin chains | both sides of relations agree; rights survive a restart; changes end sessions; rights are what the lines say; reload is applied |
| `persistence` | 2 clients, 4 messages, 3 operations, 2 starts, files of versions 3 and 6 | what is on disk is whole at every crash; references exact; no message in flight is queued again; `db_dump` agrees |
| `out_quota_stall`, `out_takeover`, `in_storage`, `persistence_users` | | deviations 1, 2, 3 and P1: TLC refutes the property |

`StoreTimeout` and `SlowLimit` are 1 tick in the list models, which is enough because ages are
only compared with them. `MaxMid` exceeds `MaxMsgs`, so identifiers do not wrap. Two losses interrupt a
resumed handshake again. An incoming queue forms only after a resumption, and what it then needs to go wrong (deviation 9)
is beyond these bounds: with a receive maximum of 2 and a window of 4 no violation was found in searches of up to 21 million states, which
proves nothing for larger bounds. A client that keeps to the receive maximum is covered by a proof (section 4).

Deadlock checking is off in the passing runs because each of them has an end: a bounded clock, a publisher or application
with nothing more to say, a bounded number of operations, or a broker that has shut down.

**Type invariants.** `TypeOK` of `OutgoingMessages`, `IncomingMessages` and `AdaptiveMode` is proved for all constants and not repeated
in a run. The other modules have no separate type invariant in a run.

**Fairness.** The event loop is level-triggered and serves every readable socket, so
handlers are weakly fair; the same holds for noticing a broken socket. Clients are assumed to
read and answer, and to be connected again and again (`[]<>(sock = "up")`; the number of losses is
bounded). Publishing, subscribing and the verdict of a probe have no fairness. The clock advances.
`Sessions`: the loop goes round and seconds pass, since `epoll_wait()` has a timeout of 100 ms. `Bridge`: the broker's, the network's and
the remote broker's steps together are weakly fair, faults are bounded in number, and a second passes while there is work only as one of
these faults. `Reconnects` is claimed for automatic bridges for which some address answers from the start on (`[](up # {})`).

## 4. What is proved

TLAPS proves the following for every value of the constants that satisfies the
`ConstantsAssumption` of the module, hence for any limits, any number of messages and losses.
Conditions beyond that are hypotheses of the theorem and are listed with it.

| Theorem | States | Hypotheses |
|---|---|---|
| `OutgoingMessagesProofs`: `TypeCorrect`, `StorageStaysOrdered` | `[]TypeOK`, `[]StorageOldestFirst` | |
| `InflightStaysLive` | `[]InflightIsLive` | `Qos0NeverQueued` |
| `CountStaysExact` | `[]CountExact` | `StorageUnused` |
| `QuotaNeverLeaks`, `QueueStaysBounded` | `[]NoQuotaLeak`, `[]QueueBounded` | `StorageUnused`, `QuotaIsReturned` |
| `QueueNeverStalls` | `[]NoStall` | `StorageUnused`, `OnlyAcknowledged` |
| `QosTwoDeliveredOnce` | `[]ExactlyOnce` | `NoWrap` |
| `UnsentStayLast`, `NoAnswerInVain` | `[]UnsentAreLast`, `[]WaitingIsAnswered` | `NoWrap` |
| `OnlyStorageIsLost` | `[]NothingOnlyStored => []NoSilentLoss` | `NoWrap` |
| `IncomingSessionProofs`: `TypeCorrect` | `[]TypeOK` | |
| `CountStaysExact` | `[]CountExact` | `PolicyInactive` |
| `QosTwoOnce` | `[]RoutedOnce` | `KeepsReceiveMaximum` |
| `NoIdentifierClash`, `NobodyWaitsInVain` | `[]IdentifiersAgree`, `[]PublisherIsAnswered` | `KeepsReceiveMaximum` |
| `AcknowledgedIsRouted` | `[]NothingLost` | `KeepsReceiveMaximum`, `PolicyInactive` |
| `AdaptiveModeProofs`: `TypeCorrect`, `ThresholdIsMean`, `ModeIsVerdict`, `SamplesNeverOverestimate`, `SlowTimeIsEntry`, `HoldingEnds` | the invariants of the mode decision | |

### The hypotheses

* `Qos0NeverQueued`: there is no inflight limit, or no message has QoS 0. Without it `InflightIsLive` is false (deviation 7).
* `StorageUnused`, `PolicyInactive`: the transmit policy stores nothing, because no probe is sent or no message is large. The count
  is wrong, and quota is lost, when it does (deviations 1, 3 and 12).
* `QuotaIsReturned`: no message is oversize or refused by PUBREC, and no QoS 0 message is queued (deviations 7, 8).
* `OnlyAcknowledged`: in addition, none expires and all have QoS 1 or 2 (deviation 12).
* `NoWrap`: a session offers at most as many messages as there are identifiers (65535). `mosquitto__mid_generate` does not look for an identifier
  that is free, so after a wrap two messages may share one.
* `NothingOnlyStored`: whenever the client is away and has stored messages it also has inflight or queued ones. With it nothing is lost silently,
  so deviation 2 is the only way to lose a message silently.
* `KeepsReceiveMaximum`: the publisher has no more unfinished messages than the receive maximum. An MQTT 5 client is told it in CONNACK
  (`send_connack.c:64`) and bound to it by the protocol. For an MQTT 3.1.1 client it is an assumption, and without it the theorems are false
  (deviation 9).

### The arguments

The proofs follow the model: `OutgoingListsProofs` and `OutgoingHandshakeProofs` have one lemma or more for each function of `database.c`, in
`OutgoingLists` alone, for any lists that satisfy the invariants; `OutgoingLimitsProofs` and `OutgoingMessagesProofs` put them together, one step for each
action, and `OutgoingMessagesProofs` ends with the theorems. Likewise `IncomingMessagesProofs` has the functions and `IncomingSessionProofs` the actions and the theorems.

*Types and order.* One inductive invariant, `Inv(E)`, taken with `E` the set of all
messages or of live messages: the three lists are sequences, with elements of `E` in flight,
the storage list is ordered by age, and a stored message is in the state `storage`. Liveness of
the inflight list is inductive only together with the order of the storage list: the loop in
`db__message_write_storage_out` gives message i a publish state and moves the head, and
both are the same message only because the due messages are a prefix (`DueIsPrefix`). `InvStep` has one case for each action.

*Limits.* In `LimitsInv` the count is exact; on a connection quota and inflight QoS 1 and 2 messages add up to at least the limit; the queue is within `max_queued_messages`; and a
queue has messages in flight before it. The four are needed together:
`db__ready_for_queue` decides by `msg_count12` alone, which bounds the queue only if the count is exact and no quota is lost. In the middle of a handler
the quota is one unit ahead of the list (`Credited`). Lemmas on the number of QoS 1 and 2 messages of a list, by its positions and `Cardinality`,
replace induction over lists.

*Handshake.* The invariant `Sound(d, in, phase, B)` relates the lists, the packets in both directions and a book `B` of
what the client has got, holds open, refused and is still owed. Each message is on at most one list and has at most one packet under way; that packet is one
the state of the message waits for (`Expect`); a message not yet sent has none; and a QoS 2 message that has reached the client is either past its PUBREC
or one whose identifier the client still remembers.
`phase` weakens it while a resumed session is rebuilt. `ExactlyOnce` alone is not inductive: it needs that the identifier the client remembers (`unreleased`) belongs to the message the broker
retransmits, which rests on names being unique (`Ledger`, hence `NoWrap`) and on the handshake being at the same point on both sides. `OutgoingHandshakeProofs` proves that each function of
`database.c` preserves `Sound`, for any book; `OutgoingMessagesProofs` that each action does, and that the book kept by the state (`BookOf`) follows.
One proof serves all four theorems; `OnlyStorageIsLost` takes the book with its debts, the others without (`keep`).
TLC checked `HandshakeInv` on the *plain*, *adaptive*, *resumed* and *fragile* instances before it was proved.

*Incoming.* By `HandshakeInv` every packet identifier has at most one packet or answer under way, of the kind that the publisher's entry in `unfinished`
allows; every listed message belongs to an entry and has its identifier; a routed QoS 2 message is not listed any more; and everything acknowledged is routed, refused or listed. The
receive maximum keeps the queue empty (`RoomForNew`): the quota that is missing is held by inflight messages, each of them an unfinished message of the publisher, of which there are no more
than the receive maximum. A queued message would get PUBCOMP before it is routed.

*Mode decision.* `ThresholdIsMean` says that after five samples the threshold is the mean of the last five, for any number of samples and connections; its invariant relates every slot of
the ring to the sample history through the index modulo 5.

`SubsequencesProofs`: `Pick` over positions K is a sequence of length |K| of elements of the
list in their order; facts on prefixes and suffixes. Lemmas that count have the hypothesis `Counting`, ten elementary facts on the size of
finite sets. `CountingHolds` proves it from the library's `FiniteSetTheorems`, once in each module that ends in theorems, so that no theorem has it as a hypothesis.

### Only model-checked

* Liveness and fairness (`AllDelivered`, `EventuallyRouted`, `Reconnects`, `SessionsEnd`, ...): out of the prover's reach.
* `InOrder`, which speaks of the order in which identifiers were first sent, over the whole history of a session.
* The message paths with the transmit policy active, as far as counts and quota are concerned, and the incoming path with a queue.
* The refinement of `Subscriptions` by `Topics`, and `Persistence`, `Security`, `DynSec`, `Sessions`, `Bridge`, `Packets`, `ClientLibrary`, `TopicMatch`, `Utf8`. Some use recursive operators,
  which the prover cannot work with, or folds, about which it would need induction over data; for the others no proof has been written.

## 5. Deviations

Where the code disagrees with what the repository says of it, or with what one would expect. Numbers 1 to 3 and P1 are
runs that TLC refutes. Where a property is named with the instance that refutes it, TLC gave a counterexample that is not kept as
a run; everything else was seen while reading the code for a model and has not been confirmed by a run.

### Message paths

1. `out_quota_stall`: an insertion takes a unit of quota also for a stored message
   (`database.c:627`), and moving it out takes another. With the quota used up and nothing in
   flight, small messages in the queue wait for ever.
2. `out_takeover`: `handle_connect.c:140` asks for inflight and queued messages, not for stored ones. A
   session that has only stored messages loses them at reconnect.
3. `in_storage`: `db__message_insert` applies the policy to incoming messages too
   (`database.c:483`). A large QoS 2 publication of a client in slow mode is acknowledged, put in
   `msgs_in.storage`, and never routed.
4. `StorageTimesOut`: `README.md:60` promises that a message that times out in storage is pushed to
   inflight; the test is made only when another message or probe answer arrives.
5. `InflightBounded`: `man/mosquitto.conf.5.xml:574` bounds the messages in transmission;
   `db__message_delete_outgoing` compares the limit with a position in the list (`database.c:384`).
   `InOrder`: the manual also guarantees the order of messages with a limit of 1; a small message
   overtakes the large ones in storage (`database.c:485`).
6. `Qos0QueueBounded`: queued QoS 0 messages are not counted against `max_queued_messages`
   (`database.c:120`, `man/mosquitto.conf.5.xml:947`).
7. `InflightIsLive` with `queue_qos0_messages`: at reconnect a QoS 0 message marks itself but
   the head of the queue is moved (`database.c:896`), which may still be in the state queued.
8. A message refused by PUBREC (`handle_pubrec.c:98`) or too large for the client
   (`database.c:1119`) is removed without giving back its quota (`SmallEventuallyDelivered` fails
   with such messages).
9. The receive quota is never taken for QoS 2 (`database.c:627` serves outgoing messages only), so the receive
   maximum does not limit incoming QoS 2 messages until a resumption; then, with a maximum of 1, the release of a message
   counts itself (`database.c:1039`) and a last queued message is never released (`EventuallyRouted` with `InMax = 1`). A queued message can also get
   PUBCOMP before it is routed; its identifier is then used again, and the new message meets the old one. With `InMax = 1`, a window of 4 and 8 or 9 messages
   over 2 or 3 losses, `IdentifiersAgree`, `NothingLost` and `RoutedOnce` fail. Whether the same is possible with a larger receive maximum is not known.
10. `PolicyIsOptIn`: `README.md:67` makes the policy depend on CONNECT flag bit 0; the mode decision
   never looks at the flag (`handle_pubackcomp.c:156`).
11. A comment at `database.c:478` says 60 seconds; the code has 30.
12. After a queue head expires, the rest of the queue can wait with nothing in flight (`NoStall` does not hold with
   expiring messages); after a reconnect `msg_count12` does not count the storage list.

### Sessions

* S1. `NothingStolen` with `AuthConnects` as the only scenario of `MCSessions`: a connection that ends during extended authentication removes
  the table entry of another client with its identifier (`context.c:217`, `:246`; comment `handle_connect.c:735`).
* S2. A second CONNECT on a connection drops the will and the session.
* S3. A takeover with clean start and a will delay never sends the old will; taking over a resumed session clears it.
* S4. Delayed wills are ordered by the length of the delay, while the check stops at the first that is not due
  (`will_delay.c:35`): one can wait for as long as clients with shorter delays keep reconnecting.
* S5. The will of a connection that is dropped while authenticating is published.
* S6. Kicking an offline client, or a reload that rejects its credentials, adds a second item to the expiry list.
* S7. At shutdown, contexts that are not in the table are not freed.

### Routing

* T1. `CleanedIsGone` with `MixedScenario`: after unsubscribing one of a plain and a shared subscription to the same filter, the end of the
  session leaves the other in the tree (`subs.c:390`; comment `subs.c:719`).
* T2. A single-level topic `$x` does not match `$x/#` for retained messages. `$share/g` is accepted and never matches. A publication to
  `$share/g/a` is routed as `a`.
* T3. Unsubscribing below an unknown root reports success. Subscribing again in a group keeps the old options. UNSUBSCRIBE does not
  prepend the mount point.

### Persistence

* P1. `persistence_users`: the username of one client spoils the chunk of the next (`persist_write.c:176`).
* P2. A disk that is full after the messages were stored lets an incomplete file replace the good one (`persist_write.c:385-396`).
* P3. Shared subscriptions and the storage list are not saved; the reference a stored message holds is not released by
  `db__messages_delete`; stored messages restored without references stay, since `db__msg_store_compact` is never called.
* P4. Sessions with clean start and a positive session expiry are not saved (`persist_write.c:170`). Files of versions 2 to 4
  restore sessions with expiry 0, which cannot be resumed (`man/mosquitto.conf.5.xml:799-803`). Restored sessions are not put on the expiry list.
* P5. A message whose expiry is the second of the restart never expires afterwards (`persist_read.c:290`).
* P6. With `max_inflight_messages 0`, or a lowered limit, messages confirmed by PUBREC go to the queue and are published again.
* P7. A `$SYS` message waiting for one client survives one restart but not two (`persist_write.c:107-110`).

### Access

* A1. `DynSec`: a failed createClient leaves the freed client in groups (`clients.c:445-453`); roles given as a list are entered on one side
  (`rolelist.c:165`), so deleteRole leaves entries behind; modifyGroup leaves those of the old roles (`groups.c:959-962`); deleting the anonymous
  group leaves it in use (`groups.c:452-487`). The instance of `access` keeps clear of these.
* A2. A refused modifyClient keeps the changes made so far in memory, unsaved (`clients.c:804`). modifyGroup does not disconnect the clients it removes;
  modifyRole and setDefaultACLAccess disconnect nobody. A page of 0 entries has one.
* A3. `mosquitto_set_username` to a user without an ACL entry keeps the old one (`security_default.c:704`;
  `include/mosquitto_broker.h:416-417`). A reload whose file cannot be read leaves the check unregistered until the next reload. Of several older
  plugins all are asked for passwords and the last verdict counts.

### Packets and client library

* L1. `GivenOnce`: a QoS 2 message is given to the application twice when a connection is lost before its PUBREC and another before its PUBCOMP
  (`handle_publish.c:165`; comment `handle_pubrel.c:117`).
* L2. `LoopStops`: `mosquitto_disconnect()` racing a connect is overwritten and `mosquitto_loop_stop()` blocks (`include/mosquitto.h:1243-1244`).
* L3. A message published during a connect can be stranded or exceed the quota (`missed` marks those; `NoStranded` is about the others). MQTT 5: the receive quota is counted twice for a
  redelivered message, which can end `mosquitto_loop_forever()` (`include/mosquitto.h:1189`). A stale QoS 2 copy is given after its identifier is used again.
* L4. A disconnect racing an incoming packet closes without DISCONNECT; PUBLISH may precede CONNECT; `mosquitto__mid_generate` does not avoid
  identifiers in use; `do_client_disconnect` from `handle__disconnect` unlocks a mutex that it did not lock.
* L5. A PUBLISH packet points to its payload, which its owner may free before it is written. `packet__check_oversize` leaves out the command byte.
  `mosquitto_property_copy_all` duplicates a null pointer for an empty string. `handle__connect` with version 0x85 selects MQTT 5 without reading
  properties. The client ignores reason codes of UNSUBACK.

### Bridges

* B1. `Reconnects` with `Instant`: an attempt that fails at once advances the address twice (`bridge.c:858-864`, `:789-796`; `man/mosquitto.conf.5.xml:1829-1833`),
  so that with two addresses one is never tried again. The configuration with `instant` in the passing run has one address.
* B2. A primary that is reached at once is followed by an increment, so that the bridge does not return to it; a probe still in progress has no error
  and counts as success, dropping a working connection.
* B3. Closings by keepalive, idling or the primary probe leave the local status at 1 (`man/mosquitto.conf.5.xml:1735-1737`).
* B4. A failed attempt clears `lazy_reconnect`; a lazy bridge with `clean_start_local` never restarts; lazy and once bridges connect at start; the idle timeout
  is not reached while a keepalive is set (`:1695-1697`). `last_check` of `bridge_check` is never set.
* B5. `rand_between` can return less than its base for the most negative random number. The maximum QoS of an accepted CONNACK is applied after
  the status is sent; messages above it are sent and refused again at every reconnect. Flag bit 0 of a bridge's CONNECT depends on an uninitialised
  `threshold_l` (`lib/send_connect.c`). A topic at the parent level of `prefix/#` gets the local prefix without losing the remote one.

## 6. Not modelled

* Configuration parsing (`conf.c`): its values are the constants. Logging, `$SYS`, reports: no state depends on them.
* Websockets, TLS, sockets, password hashing, DNS: libraries and the operating system.
* Topic remapping of bridges (`bridge_topic.c`), the SOCKS proxy, SRV lookup, options and one-call helpers of the library.
* Command line clients, `mosquitto_ctrl`, `mosquitto_passwd`, the C++ wrapper, the two small plugins: sequential, or forwarding.
* The composition of client library and broker: each is checked against an external counterpart that keeps to the protocol.
