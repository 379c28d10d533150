-------------------------------- MODULE Mqtt --------------------------------
(***************************************************************************)
(* chumicro_mqtt.MQTTClient over a transport factory, with the broker and  *)
(* the TCP connection as its environment.  handle() is the sequence of     *)
(* steps pc walks through; a user callback it makes is a point (pc =       *)
(* "callback") at which the user may call the client again, and stack says *)
(* where the interrupted code goes on.  Deadlines are not timed: a timer   *)
(* that is armed may have passed at any tick, at most one per tick.        *)
(***************************************************************************)
EXTENDS Naturals, SequencesExt

CONSTANTS
    None,
    Qos,              \* the QoS of each publish() the user makes, in order
    Topics,           \* the filters the user subscribes to
    CleanSession,
    MaxTx, Headroom,  \* max_tx_queue_size, and the slots above it
    PreCap,           \* pre_connect_queue_size
    RetryMax,         \* publish_retry_max
    Ops,              \* calls the user makes besides publish()
    MaxOps,           \* bound: how many of them
    MaxFaults,        \* bound: lost connections, failed dials, early timeouts
    Inbound           \* bound: QoS 1 messages the broker sends

HardCap == MaxTx + Headroom
Pubs == 1 .. Len(Qos)

VARIABLES
    state, wants, held, permanent,    \* lifecycle and the user's intent
    backoff,                          \* the self-heal retry lies in the future
    connector, sock,                  \* a dial in progress; a connected socket
    txq, partial, batch,              \* _tx_queue, _partial_send, _puback_batch_queued
    inflight, nextId, pend, preq,     \* QoS 1 table, ids, awaited acks, pre-connect queue
    subs,                             \* topic -> its on_subscribe is still owed
    pc, stack, rx, cur, pubacks,      \* inside handle(): decoder buffer, packet, acks
    conn, c2b, b2c,                   \* the connection and its two streams
    bup, bkept, bsubs, sent, acks,    \* broker: connection, session kept, filters, ids
    made, ops, faults,                \* how much of each bound is used
    fired, delivered, got, dropped,   \* history: callbacks, messages at the broker,
                                      \* messages received, publishes given up
    established, spurious, escaped    \* history: of on_disconnect and of handle()

intent == <<wants, held, permanent>>
link == <<connector, sock>>
queues == <<txq, partial, batch>>
tables == <<inflight, nextId, pend, preq, subs>>
control == <<pc, stack, rx, cur, pubacks>>
session == <<bkept, bsubs>>
net == <<conn, c2b, b2c, bup, session, sent, acks>>
bounds == <<made, ops, faults>>
history == <<fired, delivered, got, dropped, established, spurious, escaped>>
vars == <<state, intent, backoff, link, queues, tables, control, net, bounds, history>>

Pkt(type, id, what) == [t |-> type, id |-> id, what |-> what]
CONNECT == Pkt("CONNECT", 0, 0)
PINGREQ == Pkt("PINGREQ", 0, 0)
Publish(m, id) == Pkt("PUBLISH", id, m)
Marker(m) == Pkt("MARK", 0, m)
Awaiting(type, id, what) == Pkt(type, id, what)

Init ==
    /\ state = "DISCONNECTED" /\ wants = FALSE /\ held = FALSE /\ permanent = FALSE
    /\ backoff = FALSE /\ connector = FALSE /\ sock = FALSE
    /\ txq = <<>> /\ partial = None /\ batch = FALSE
    /\ inflight = <<>> /\ nextId = 1 /\ pend = <<>> /\ preq = <<>>
    /\ subs = [t \in Topics |-> TRUE]
    /\ pc = "idle" /\ stack = <<>> /\ rx = <<>> /\ cur = None /\ pubacks = <<>>
    /\ conn = "none" /\ c2b = <<>> /\ b2c = <<>>
    /\ bup = "new" /\ bkept = FALSE /\ bsubs = {} /\ sent = <<>> /\ acks = <<>>
    /\ made = 0 /\ ops = 0 /\ faults = 0
    /\ fired = [m \in Pubs |-> 0] /\ delivered = {} /\ got = {} /\ dropped = {}
    /\ established = FALSE /\ spurious = FALSE /\ escaped = FALSE

----------------------------------------------------------------------------
(* Callbacks, and the ways out of handle().                                *)

\* A user callback, after which the code goes on at ret.
Call(ret) == pc' = "callback" /\ stack' = Append(stack, ret)

Goto(label) == pc' = label /\ stack' = stack

\* on_disconnect() of a failure, spurious when no established session ended.
ReportFailure(ret) ==
    /\ Call(ret)
    /\ spurious' = (spurious \/ ~established) /\ established' = FALSE

\* Mutant: every failure is reported, also that of an attempt to connect.
_enter_failedAlwaysReports(ret) == state' = "FAILED" /\ ReportFailure(ret)

\* State first, then the callback, and only for an established session.
_enter_failed(ret) ==
    /\ state' = "FAILED"
    /\ IF state = "CONNECTED"
         THEN ReportFailure(ret)
         ELSE Goto(ret) /\ UNCHANGED <<spurious, established>>

CallbackReturn ==
    /\ pc = "callback"
    /\ pc' = Last(stack) /\ stack' = Front(stack)
    /\ UNCHANGED <<state, intent, backoff, link, queues, tables, rx, cur, pubacks,
                   net, bounds, history>>

\* AttributeError on a socket that is gone: neither MQTTError nor OSError, so
\* it leaves handle().
Escape ==
    /\ escaped' = TRUE /\ pc' = "idle" /\ stack' = <<>>
    /\ UNCHANGED <<state, intent, backoff, link, queues, tables, rx, cur, pubacks, net,
                   bounds, fired, delivered, got, dropped, established, spurious>>

\* Mutant: the queues of the connection that ended are kept.
_reset_transient_stateKeepsQueue ==
    /\ pend' = <<>> /\ rx' = <<>> /\ UNCHANGED queues

_reset_transient_state ==
    /\ txq' = <<>> /\ partial' = None /\ batch' = FALSE /\ pend' = <<>> /\ rx' = <<>>

----------------------------------------------------------------------------
(* The user's calls, between ticks or from inside a callback.              *)

UserTurn == pc \in {"idle", "callback"}
MayCall(op) == UserTurn /\ op \in Ops /\ ops < MaxOps /\ ops' = ops + 1

\* connect(): starts a dial when disconnected, skips the backoff when failed.
Connect ==
    /\ MayCall("connect")
    /\ held' = FALSE /\ wants' = TRUE
    /\ \/ /\ state = "DISCONNECTED"
          /\ permanent' = FALSE /\ backoff' = FALSE
          /\ \/ state' = "AWAITING" /\ connector' = TRUE /\ faults' = faults
             \/ /\ faults < MaxFaults /\ faults' = faults + 1
                /\ state' = "FAILED" /\ connector' = connector
       \/ /\ state = "FAILED" /\ permanent' = FALSE /\ backoff' = FALSE
          /\ UNCHANGED <<state, connector, faults>>
       \/ /\ state \notin {"DISCONNECTED", "FAILED"}
          /\ UNCHANGED <<state, permanent, backoff, connector, faults>>
    /\ UNCHANGED <<sock, queues, tables, control, net, made, history>>

Hold ==
    /\ MayCall("hold") /\ held' = TRUE
    /\ UNCHANGED <<state, wants, permanent, backoff, link, queues, tables, control, net,
                   made, faults, history>>

\* The DISCONNECT bytes: written straight to the socket, behind whatever part
\* of a packet is already on the wire; a full buffer or an error loses them.
SendDisconnect ==
    \/ /\ conn = "open"
       /\ c2b' = Append(c2b, Pkt(IF partial = None THEN "DISCONNECT" ELSE "TORN", 0, 0))
    \/ c2b' = c2b

Disconnect ==
    /\ MayCall("disconnect") /\ state # "DISCONNECTED"
    /\ IF state \in {"CONNECTING", "CONNECTED"} THEN SendDisconnect ELSE c2b' = c2b
    /\ connector' = (connector /\ state # "AWAITING")
    /\ sock' = FALSE /\ conn' = (IF sock /\ conn = "open" THEN "closed" ELSE conn)
    /\ _reset_transient_state
    /\ preq' = <<>> /\ dropped' = dropped \cup ToSet(preq)
    /\ state' = "DISCONNECTED" /\ wants' = FALSE /\ held' = FALSE
    /\ Call(IF pc = "idle" THEN "idle" ELSE "callback") /\ established' = FALSE
    /\ UNCHANGED <<permanent, backoff, inflight, nextId, subs, cur, pubacks, b2c, bup, session,
                   sent, acks, made, faults, fired, delivered, got, spurious, escaped>>

\* Mutant: a QoS 0 publish reports before its packet is on the wire.
EntriesMarkerFirst(m, id) ==
    IF Qos[m] = 0 THEN <<Marker(m), Publish(m, 0)>> ELSE <<Publish(m, id)>>

\* A QoS 0 publish travels with the marker of its on_publish.
Entries(m, id) ==
    IF Qos[m] = 0 THEN <<Publish(m, 0), Marker(m)>> ELSE <<Publish(m, id)>>

Fits(m) == Len(txq) + Len(Entries(m, 0)) <= MaxTx

\* _do_publish where the queue has room; without room a QoS 1 publish still
\* uses an id up, and leaves nothing else behind.
_do_publish(m) ==
    /\ txq' = txq \o Entries(m, nextId)
    /\ nextId' = IF Qos[m] = 1 THEN nextId + 1 ELSE nextId
    /\ inflight' = IF Qos[m] = 1
                     THEN Append(inflight, [id |-> nextId, m |-> m, retry |-> 0])
                     ELSE inflight

\* publish(): straight to the queue when connected, else buffered; a full
\* queue raises MQTTBackpressureError and the publish was not accepted.
PublishCall ==
    /\ UserTurn /\ made < Len(Qos) /\ made' = made + 1
    /\ IF state = "CONNECTED"
         THEN /\ preq' = preq
              /\ IF Fits(made')
                   THEN _do_publish(made') /\ dropped' = dropped
                   ELSE /\ nextId' = IF Qos[made'] = 1 THEN nextId + 1 ELSE nextId
                        /\ dropped' = dropped \cup {made'} /\ UNCHANGED <<txq, inflight>>
         ELSE /\ UNCHANGED <<txq, inflight, nextId>>
              /\ IF Len(preq) < PreCap
                   THEN preq' = Append(preq, made') /\ dropped' = dropped
                   ELSE preq' = preq /\ dropped' = dropped \cup {made'}
    /\ UNCHANGED <<state, intent, backoff, link, partial, batch, pend, subs, control, net, ops,
                   faults, fired, delivered, got, established, spurious, escaped>>

\* The SUBSCRIBE or UNSUBSCRIBE of a call made while connected; a full queue
\* raises after the id was allocated.
SendFilter(type, ack, t) ==
    /\ nextId' = nextId + 1
    /\ IF Len(txq) < MaxTx
         THEN /\ txq' = Append(txq, Pkt(type, nextId, t))
              /\ pend' = Append(pend, Awaiting(ack, nextId, t))
         ELSE UNCHANGED <<txq, pend>>

Recorded == state = "CONNECTED" => Len(txq) < MaxTx

\* subscribe(): sent at once when connected, and recorded unless it raised.
Subscribe(t) ==
    /\ MayCall("subscribe")
    /\ \/ state = "CONNECTED" /\ SendFilter("SUBSCRIBE", "SUBACK", t)
       \/ state # "CONNECTED" /\ UNCHANGED <<txq, nextId, pend>>
    /\ subs' = IF Recorded THEN [u \in DOMAIN subs \cup {t} |-> u = t \/ subs[u]] ELSE subs
    /\ UNCHANGED <<state, intent, backoff, link, partial, batch, inflight, preq, control, net,
                   made, faults, history>>

Unsubscribe(t) ==
    /\ MayCall("unsubscribe")
    /\ \/ state = "CONNECTED" /\ SendFilter("UNSUBSCRIBE", "UNSUBACK", t)
       \/ state # "CONNECTED" /\ UNCHANGED <<txq, nextId, pend>>
    /\ subs' = IF Recorded THEN [u \in DOMAIN subs \ {t} |-> subs[u]] ELSE subs
    /\ UNCHANGED <<state, intent, backoff, link, partial, batch, inflight, preq, control, net,
                   made, faults, history>>

----------------------------------------------------------------------------
(* handle(): self-heal and the dial.                                       *)

Queued == txq \o (IF partial = None THEN <<>> ELSE <<partial>>)

\* No packet with this id is on its way, so no answer to it will come.
Lost(id) ==
    LET flying == Queued \o c2b \o b2c \o rx
    IN  id # 0 /\ \A i \in DOMAIN flying : flying[i].id # id

\* The timer of packet id passes: always where the answer is not coming, and a
\* bounded number of times before a late answer.
Passes(id) ==
    \/ (conn = "silent" \/ Lost(id)) /\ faults' = faults
    \/ conn # "silent" /\ ~Lost(id) /\ faults < MaxFaults /\ faults' = faults + 1

_self_heal_active == wants /\ ~permanent /\ ~held

\* Mutant: unacknowledged publishes never survive the connection.
KeptInFlightNone == <<>>

\* A broker that keeps the session still wants the unacknowledged publishes.
KeptInFlight == IF CleanSession THEN <<>> ELSE inflight

\* FAILED and due: arm the next backoff, drop the dead connection and dial
\* again; a factory that raises leaves the client FAILED.
_attempt_self_heal ==
    /\ pc = "idle" /\ state = "FAILED" /\ _self_heal_active /\ ~backoff
    /\ backoff' = TRUE
    /\ sock' = FALSE /\ conn' = (IF sock /\ conn = "open" THEN "closed" ELSE conn)
    /\ _reset_transient_state
    /\ inflight' = KeptInFlight /\ nextId' = IF CleanSession THEN 1 ELSE nextId
    /\ dropped' = IF CleanSession
                    THEN dropped \cup {inflight[i].m : i \in DOMAIN inflight} ELSE dropped
    /\ \/ state' = "AWAITING" /\ connector' = TRUE /\ Goto("dial") /\ faults' = faults
       \/ /\ faults < MaxFaults /\ faults' = faults + 1
          /\ Goto("idle") /\ UNCHANGED <<state, connector>>
    /\ UNCHANGED <<intent, preq, subs, cur, pubacks, c2b, b2c, bup, session, sent, acks, made,
                   ops, fired, delivered, got, established, spurious, escaped>>

\* The backoff the last attempt armed runs out.
BackoffElapses ==
    /\ pc = "idle" /\ state = "FAILED" /\ backoff /\ backoff' = FALSE
    /\ UNCHANGED <<state, intent, link, queues, tables, control, net, bounds, history>>

Dialing == pc \in {"idle", "dial"} /\ state = "AWAITING"

\* The transport deadline passed, or the connector failed: both give it up.
DialFails ==
    /\ Dialing /\ faults < MaxFaults /\ faults' = faults + 1
    /\ connector' = FALSE /\ _enter_failed("idle")
    /\ UNCHANGED <<intent, backoff, sock, queues, tables, rx, cur, pubacks, net, made, ops,
                   fired, delivered, got, dropped, escaped>>

\* The connector is not there yet.
DialPending ==
    /\ pc = "dial" /\ Dialing /\ Goto("idle")
    /\ UNCHANGED <<state, intent, backoff, link, queues, tables, rx, cur, pubacks, net,
                   bounds, history>>

\* The connector is ready: CONNECT goes into the empty queue, and the tick
\* goes on over the new connection.
DialReady ==
    /\ Dialing /\ connector' = FALSE /\ sock' = TRUE
    /\ conn # "closed"     \* the broker has seen the old connection close
    /\ conn' = "open" /\ c2b' = <<>> /\ b2c' = <<>> /\ bup' = "new"
    /\ sent' = <<>> /\ acks' = <<>> /\ got' = {}
    /\ txq' = Append(txq, CONNECT) /\ pend' = Append(pend, Awaiting("CONNACK", 0, 0))
    /\ state' = "CONNECTING" /\ Goto("deadlines")
    /\ UNCHANGED <<intent, backoff, partial, batch, inflight, nextId, preq, subs, rx, cur,
                   pubacks, session, bounds, fired, delivered, dropped, established, spurious,
                   escaped>>

\* The tick of a client with a connection starts here.
HandleStart ==
    /\ pc = "idle" /\ state \in {"CONNECTING", "CONNECTED"}
    /\ Goto("deadlines")
    /\ UNCHANGED <<state, intent, backoff, link, queues, tables, rx, cur, pubacks, net,
                   bounds, history>>

----------------------------------------------------------------------------
(* handle(): _check_deadlines and _check_keepalive.                        *)

NothingPassed ==
    /\ pc = "deadlines" /\ Goto("keepalive")
    /\ UNCHANGED <<state, intent, backoff, link, queues, tables, rx, cur, pubacks, net,
                   bounds, history>>

\* A publish unacknowledged for too long is sent again with DUP set, if the
\* queue has headroom.
Retransmit(i) ==
    /\ pc = "deadlines" /\ Passes(inflight[i].id) /\ inflight[i].retry < RetryMax
    /\ Len(txq) < HardCap
    /\ txq' = Append(txq, Publish(inflight[i].m, inflight[i].id))
    /\ inflight' = [inflight EXCEPT ![i].retry = @ + 1]
    /\ Goto("keepalive")
    /\ UNCHANGED <<state, intent, backoff, link, partial, batch, nextId, pend, preq, subs, rx,
                   cur, pubacks, net, made, ops, history>>

\* ... and given up, together with the connection, past the retry limit.
GiveUp(i) ==
    /\ pc = "deadlines" /\ Passes(inflight[i].id) /\ inflight[i].retry >= RetryMax
    /\ inflight' = RemoveAt(inflight, i) /\ dropped' = dropped \cup {inflight[i].m}
    /\ _enter_failed("keepalive")
    /\ UNCHANGED <<intent, backoff, link, queues, nextId, pend, preq, subs, rx, cur, pubacks,
                   net, made, ops, fired, delivered, got, escaped>>

\* An awaited answer did not come, or the queue made no progress: the tick
\* goes on, with the state FAILED.
AckTimeout(i) ==
    /\ pc = "deadlines" /\ Passes(pend[i].id) /\ pend' = RemoveAt(pend, i)
    /\ _enter_failed("keepalive")
    /\ UNCHANGED <<intent, backoff, link, queues, inflight, nextId, preq, subs, rx, cur,
                   pubacks, net, made, ops, fired, delivered, got, dropped, escaped>>

SendTimeout ==
    /\ pc = "deadlines" /\ Passes(0) /\ (txq # <<>> \/ partial # None)
    /\ _enter_failed("keepalive")
    /\ UNCHANGED <<intent, backoff, link, queues, tables, rx, cur, pubacks, net, made, ops,
                   fired, delivered, got, dropped, escaped>>

PingAllowed == \A i \in DOMAIN pend : pend[i].t # "PINGRESP"

Keepalive ==
    /\ pc = "keepalive" /\ Goto("read")
    /\ \/ /\ state = "CONNECTED" /\ PingAllowed /\ Len(txq) < HardCap
          /\ txq' = Append(txq, PINGREQ)
          /\ pend' = Append(pend, Awaiting("PINGRESP", 0, 0))
       \/ UNCHANGED <<txq, pend>>
    /\ UNCHANGED <<state, intent, backoff, link, partial, batch, inflight, nextId, preq, subs,
                   rx, cur, pubacks, net, bounds, history>>

----------------------------------------------------------------------------
(* handle(): _read_inbound.                                                *)

\* Mutant: receiving goes on while acknowledgements wait to be sent.
_recv_suppressedPartialOnly == partial # None

_recv_suppressed == batch \/ partial # None

\* One recv_into: nothing new (or not asked), any part of what has arrived,
\* an error or end of stream, or a socket that a callback took away.
ReadNothing ==
    /\ pc = "read" /\ (_recv_suppressed \/ (sock /\ conn # "cut"))
    /\ Goto(IF _recv_suppressed THEN "drain" ELSE "dispatch")
    /\ pubacks' = IF _recv_suppressed THEN pubacks ELSE <<>>
    /\ UNCHANGED <<state, intent, backoff, link, queues, tables, rx, cur, net, bounds, history>>

ReadSome ==
    /\ pc = "read" /\ ~_recv_suppressed /\ sock /\ conn = "open"
    /\ \E k \in 1 .. Len(b2c) :
         rx' = rx \o SubSeq(b2c, 1, k) /\ b2c' = SubSeq(b2c, k + 1, Len(b2c))
    /\ Goto("dispatch") /\ pubacks' = <<>>
    /\ UNCHANGED <<state, intent, backoff, link, queues, tables, cur, conn, c2b, bup, session,
                   sent, acks, bounds, history>>

\* An exception handle() catches: FAILED, and the tick is over.
Fault ==
    /\ _enter_failed("idle")
    /\ UNCHANGED <<intent, backoff, link, queues, inflight, nextId, preq, cur, pubacks, net,
                   bounds, fired, delivered, got, escaped>>

ReadError ==
    /\ pc = "read" /\ ~_recv_suppressed /\ sock /\ conn = "cut"
    /\ Fault /\ UNCHANGED <<pend, subs, rx, dropped>>

ReadEscapes == pc = "read" /\ ~_recv_suppressed /\ ~sock /\ Escape

\* The next buffered packet; a publish is reported before it is acknowledged.
DispatchPublish ==
    /\ pc = "dispatch" /\ rx # <<>> /\ Head(rx).t = "PUBLISH"
    /\ cur' = Head(rx) /\ rx' = Tail(rx) /\ got' = got \cup {Head(rx).id}
    /\ Call("after")
    /\ UNCHANGED <<state, intent, backoff, link, queues, tables, pubacks, net, bounds, fired,
                   delivered, dropped, established, spurious, escaped>>

Settled(id) == SelectSeq(inflight, LAMBDA e : e.id # id)

\* PUBACK: the publish leaves the table and on_publish fires; a duplicate is
\* ignored.
DispatchPuback ==
    /\ pc = "dispatch" /\ rx # <<>> /\ Head(rx).t = "PUBACK"
    /\ cur' = Head(rx) /\ rx' = Tail(rx)
    /\ LET mine == {i \in DOMAIN inflight : inflight[i].id = Head(rx).id} IN
       /\ inflight' = Settled(Head(rx).id)
       /\ IF mine = {} THEN Goto("after") /\ fired' = fired
            ELSE /\ Call("after")
                 /\ fired' = [m \in Pubs |->
                      fired[m] + Cardinality({i \in mine : inflight[i].m = m})]
    /\ UNCHANGED <<state, intent, backoff, link, queues, nextId, pend, preq, subs, pubacks, net,
                   bounds, delivered, got, dropped, established, spurious, escaped>>

PendingAt(type, id) == {i \in DOMAIN pend : pend[i].t = type /\ pend[i].id = id}
Without(indices) == SelectSeq(pend, LAMBDA p : \A i \in indices : p # pend[i])

DispatchPingresp ==
    /\ pc = "dispatch" /\ rx # <<>> /\ Head(rx).t = "PINGRESP"
    /\ cur' = Head(rx) /\ rx' = Tail(rx) /\ pend' = Without(PendingAt("PINGRESP", 0))
    /\ Goto("after")
    /\ UNCHANGED <<state, intent, backoff, link, queues, inflight, nextId, preq, subs, pubacks,
                   net, bounds, history>>

\* SUBACK: the one-shot on_subscribe of a filter that is still declared.
DispatchSuback ==
    /\ pc = "dispatch" /\ rx # <<>> /\ Head(rx).t = "SUBACK"
    /\ PendingAt("SUBACK", Head(rx).id) # {}
    /\ cur' = Head(rx) /\ rx' = Tail(rx)
    /\ pend' = Without(PendingAt("SUBACK", Head(rx).id))
    /\ LET t == pend[CHOOSE i \in PendingAt("SUBACK", Head(rx).id) : TRUE].what
           owed == t \in DOMAIN subs /\ subs[t] IN
       /\ subs' = IF owed THEN [subs EXCEPT ![t] = FALSE] ELSE subs
       /\ IF owed THEN Call("after") ELSE Goto("after")
    /\ UNCHANGED <<state, intent, backoff, link, queues, inflight, nextId, preq, pubacks, net,
                   bounds, history>>

\* A rejected filter is forgotten before the connection is faulted, so that
\* the reconnect does not ask for it again.
DispatchRejection ==
    /\ pc = "dispatch" /\ rx # <<>> /\ Head(rx).t = "SUBNAK"
    /\ subs' = [u \in DOMAIN subs \ {pend[i].what : i \in PendingAt("SUBACK", Head(rx).id)}
                  |-> subs[u]]
    /\ rx' = Tail(rx) /\ Fault /\ UNCHANGED <<pend, dropped>>

\* on_unsubscribe fires from _discard_pending.
DispatchUnsuback ==
    /\ pc = "dispatch" /\ rx # <<>> /\ Head(rx).t = "UNSUBACK"
    /\ PendingAt("UNSUBACK", Head(rx).id) # {}
    /\ cur' = Head(rx) /\ rx' = Tail(rx)
    /\ pend' = Without(PendingAt("UNSUBACK", Head(rx).id)) /\ Call("after")
    /\ UNCHANGED <<state, intent, backoff, link, queues, inflight, nextId, preq, subs, pubacks,
                   net, bounds, history>>

\* An acknowledgement nobody waits for faults the connection.
DispatchUnknown ==
    /\ pc = "dispatch" /\ rx # <<>> /\ Head(rx).t \in {"SUBACK", "UNSUBACK"}
    /\ PendingAt(Head(rx).t, Head(rx).id) = {}
    /\ rx' = Tail(rx) /\ Fault /\ UNCHANGED <<pend, subs, dropped>>

\* A refusing CONNACK (what is its return code), for good or until the retry.
ConnackRefused ==
    /\ pc = "dispatch" /\ rx # <<>> /\ Head(rx).t = "CONNACK"
    /\ Head(rx).what \in {"transient", "permanent"}
    /\ cur' = Head(rx) /\ rx' = Tail(rx) /\ pend' = Without(PendingAt("CONNACK", 0))
    /\ permanent' = (permanent \/ Head(rx).what = "permanent")
    /\ _enter_failed("after")
    /\ UNCHANGED <<wants, held, backoff, link, queues, inflight, nextId, preq, subs, pubacks,
                   net, bounds, fired, delivered, got, dropped, escaped>>

\* Mutant: only filters whose on_subscribe is still owed are replayed.
ReplayedOwed(present) ==
    IF CleanSession \/ ~present THEN {t \in DOMAIN subs : subs[t]} ELSE {}

\* A session the broker resumed is taken to hold every declared filter.
Replayed(present) == IF CleanSession \/ ~present THEN DOMAIN subs ELSE {}

\* _enqueue_internal_tx turns away what exceeds the hard cap.
UpToCap(queue) == SubSeq(queue, 1, Min({Len(queue), HardCap}))

\* An accepting CONNACK: the declared filters are replayed through the
\* headroom, then the buffered publishes are flushed.
ConnackAccepted ==
    /\ pc = "dispatch" /\ rx # <<>> /\ Head(rx).t = "CONNACK"
    /\ Head(rx).what \in {"new", "resumed"}
    /\ cur' = Head(rx) /\ rx' = Tail(rx)
    /\ state' = "CONNECTED" /\ established' = TRUE /\ backoff' = FALSE
    /\ LET topics == SetToSeq(Replayed(Head(rx).what = "resumed"))
           id(i) == nextId + i - 1 IN
       /\ nextId' = nextId + Len(topics)
       /\ txq' = UpToCap(txq \o [i \in DOMAIN topics |-> Pkt("SUBSCRIBE", id(i), topics[i])])
       /\ pend' = Without(PendingAt("CONNACK", 0))
                    \o [i \in DOMAIN topics |-> Awaiting("SUBACK", id(i), topics[i])]
    /\ Goto("flush")
    /\ UNCHANGED <<intent, link, partial, batch, inflight, preq, subs, pubacks, net, bounds,
                   fired, delivered, got, dropped, spurious, escaped>>

\* _drain_pre_connect_queue takes the oldest buffered publish out, then tries
\* to queue it: without room that raises out of handle()'s try block.
FlushOne ==
    /\ pc = "flush" /\ preq # <<>> /\ Fits(Head(preq))
    /\ preq' = Tail(preq) /\ _do_publish(Head(preq))
    /\ UNCHANGED <<state, intent, backoff, link, partial, batch, pend, subs, control, net,
                   bounds, history>>

FlushOverflows ==
    /\ pc = "flush" /\ preq # <<>> /\ ~Fits(Head(preq))
    /\ preq' = Tail(preq)
    /\ nextId' = IF Qos[Head(preq)] = 1 THEN nextId + 1 ELSE nextId
    /\ _enter_failed("idle")
    /\ UNCHANGED <<intent, backoff, link, queues, inflight, pend, subs, rx, cur, pubacks, net,
                   bounds, fired, delivered, got, dropped, escaped>>

\* on_connect, after the buffered publishes.
FlushDone ==
    /\ pc = "flush" /\ preq = <<>> /\ Call("after")
    /\ UNCHANGED <<state, intent, backoff, link, queues, tables, rx, cur, pubacks, net, bounds,
                   history>>

\* Behind each packet: owe its PUBACK, and stop if it cost the connection.
After ==
    /\ pc = "after"
    /\ pubacks' = IF cur.t = "PUBLISH" THEN Append(pubacks, cur.id) ELSE pubacks
    /\ cur' = None /\ Goto(IF state = "CONNECTED" THEN "dispatch" ELSE "drain")
    /\ UNCHANGED <<state, intent, backoff, link, queues, tables, rx, net, bounds, history>>

\* The buffer is empty: all acknowledgements owed go out as one packet, ahead
\* of everything queued.
DispatchDone ==
    /\ pc = "dispatch" /\ rx = <<>> /\ (pubacks = <<>> \/ Len(txq) < HardCap)
    /\ IF pubacks = <<>> THEN UNCHANGED <<txq, batch>>
         ELSE txq' = <<Pkt("PUBACKS", 0, pubacks)>> \o txq /\ batch' = TRUE
    /\ pubacks' = <<>> /\ Goto("drain")
    /\ UNCHANGED <<state, intent, backoff, link, partial, tables, rx, cur, net, bounds, history>>

DispatchOverflows ==
    /\ pc = "dispatch" /\ rx = <<>> /\ pubacks # <<>> /\ Len(txq) >= HardCap
    /\ Fault /\ UNCHANGED <<pend, subs, rx, dropped>>

----------------------------------------------------------------------------
(* handle(): _drain_tx_queue.                                              *)

\* A whole packet has been written; on a silent connection it gets nowhere.
Written(packet) == c2b' = IF conn = "open" THEN Append(c2b, packet) ELSE c2b

\* The remainder of a packet goes before anything else; it may still not fit.
ResumePartial ==
    /\ pc = "drain" /\ partial # None /\ sock /\ conn # "cut"
    /\ \/ Written(partial) /\ partial' = None
       \/ UNCHANGED <<c2b, partial>>
    /\ Goto("idle")
    /\ UNCHANGED <<state, intent, backoff, link, txq, batch, tables, rx, cur, pubacks, conn, b2c,
                   bup, session, sent, acks, bounds, history>>

\* A marker at the head means its packet is on the wire: on_publish (every
\* publish of the model has one).
AtMarker == txq # <<>> /\ Head(txq).t = "MARK"

FireMarker(label) ==
    /\ pc = label /\ partial = None /\ AtMarker
    /\ txq' = Tail(txq) /\ fired' = [fired EXCEPT ![Head(txq).what] = @ + 1]
    /\ Call(label)
    /\ UNCHANGED <<state, intent, backoff, link, partial, batch, tables, rx, cur, pubacks, net,
                   bounds, delivered, got, dropped, established, spurious, escaped>>

Sendable == pc = "drain" /\ partial = None /\ txq # <<>> /\ ~AtMarker

\* One packet per tick; a PUBACK batch does not count.
SendWhole ==
    /\ Sendable /\ sock /\ conn # "cut"
    /\ Written(Head(txq)) /\ txq' = Tail(txq)
    /\ IF Head(txq).t = "PUBACKS" THEN batch' = FALSE /\ Goto("drain")
                                  ELSE batch' = batch /\ Goto("markers")
    /\ UNCHANGED <<state, intent, backoff, link, partial, tables, rx, cur, pubacks, conn, b2c,
                   bup, session, sent, acks, bounds, history>>


SendPart ==
    /\ Sendable /\ sock /\ conn # "cut"
    /\ partial' = Head(txq) /\ txq' = Tail(txq)
    /\ batch' = (batch /\ Head(txq).t # "PUBACKS") /\ Goto("idle")
    /\ UNCHANGED <<state, intent, backoff, link, tables, rx, cur, pubacks, net, bounds, history>>

\* EAGAIN, or nothing to send.
SendNothing ==
    /\ \/ Sendable /\ sock /\ conn # "cut"
       \/ pc = "drain" /\ partial = None /\ txq = <<>>
       \/ pc = "markers" /\ ~AtMarker
    /\ Goto("idle")
    /\ UNCHANGED <<state, intent, backoff, link, queues, tables, rx, cur, pubacks, net, bounds,
                   history>>

SendError ==
    /\ (Sendable \/ (pc = "drain" /\ partial # None)) /\ sock /\ conn = "cut"
    /\ Fault /\ UNCHANGED <<pend, subs, rx, dropped>>

\* Runner.wait() saw an error on the socket.
io_error ==
    /\ pc = "idle" /\ state \in {"CONNECTING", "CONNECTED"} /\ conn = "cut"
    /\ Fault /\ UNCHANGED <<pend, subs, rx, dropped>>

----------------------------------------------------------------------------
(* The connection and the broker (external).                               *)

\* The connection is reset, or goes silent without either side noticing.
LoseConnection ==
    /\ conn = "open" /\ faults < MaxFaults /\ faults' = faults + 1
    /\ conn' \in {"cut", "silent"} /\ c2b' = <<>> /\ b2c' = <<>>
    /\ UNCHANGED <<state, intent, backoff, link, queues, tables, control, bup, session, sent,
                   acks, made, ops, history>>

BrokerGets(type) == conn \in {"open", "closed"} /\ c2b # <<>> /\ Head(c2b).t = type

Reply(packets) == b2c' = (IF conn = "open" THEN b2c \o packets ELSE b2c) /\ c2b' = Tail(c2b)

\* A session kept from an earlier connection is resumed, filters or none,
\* unless the broker lost it; a refusal leaves it alone.
BrokerConnect ==
    /\ BrokerGets("CONNECT")
    /\ \/ /\ bup' = "up" /\ bkept' = ~CleanSession /\ faults' = faults
          /\ \/ bkept /\ Reply(<<Pkt("CONNACK", 0, "resumed")>>) /\ bsubs' = bsubs
             \/ Reply(<<Pkt("CONNACK", 0, "new")>>) /\ bsubs' = {}
       \/ /\ faults < MaxFaults /\ faults' = faults + 1
          /\ \E code \in {"transient", "permanent"} : Reply(<<Pkt("CONNACK", 0, code)>>)
          /\ bup' = "down" /\ UNCHANGED session
    /\ UNCHANGED <<state, intent, backoff, link, queues, tables, control, conn, sent, acks, made,
                   ops, history>>

BrokerPublish ==
    /\ BrokerGets("PUBLISH") /\ delivered' = delivered \cup {Head(c2b).what}
    /\ Reply(IF Head(c2b).id = 0 THEN <<>> ELSE <<Pkt("PUBACK", Head(c2b).id, 0)>>)
    /\ UNCHANGED <<state, intent, backoff, link, queues, tables, control, conn, bup, session, sent,
                   acks, bounds, fired, got, dropped, established, spurious, escaped>>

BrokerSubscribe ==
    /\ BrokerGets("SUBSCRIBE")
    /\ \/ /\ Reply(<<Pkt("SUBACK", Head(c2b).id, 0)>>) /\ bsubs' = bsubs \cup {Head(c2b).what}
          /\ faults' = faults
       \/ /\ faults < MaxFaults /\ faults' = faults + 1
          /\ Reply(<<Pkt("SUBNAK", Head(c2b).id, 0)>>) /\ bsubs' = bsubs
    /\ UNCHANGED <<state, intent, backoff, link, queues, tables, control, conn, bup, bkept, sent,
                   acks, made, ops, history>>

BrokerUnsubscribe ==
    /\ BrokerGets("UNSUBSCRIBE") /\ Reply(<<Pkt("UNSUBACK", Head(c2b).id, 0)>>)
    /\ bsubs' = bsubs \ {Head(c2b).what}
    /\ UNCHANGED <<state, intent, backoff, link, queues, tables, control, conn, bup, bkept, sent,
                   acks, bounds, history>>

BrokerPing ==
    /\ BrokerGets("PINGREQ") /\ Reply(<<Pkt("PINGRESP", 0, 0)>>)
    /\ UNCHANGED <<state, intent, backoff, link, queues, tables, control, conn, bup, session, sent,
                   acks, bounds, history>>

BrokerPubacks ==
    /\ BrokerGets("PUBACKS") /\ acks' = acks \o Head(c2b).what /\ Reply(<<>>)
    /\ UNCHANGED <<state, intent, backoff, link, queues, tables, control, conn, bup, session, sent,
                   bounds, history>>

BrokerBye ==
    /\ BrokerGets("DISCONNECT") /\ bup' = "down" /\ Reply(<<>>)
    /\ UNCHANGED <<state, intent, backoff, link, queues, tables, control, conn, session, sent, acks,
                   bounds, history>>

\* The stream ends, with a DISCONNECT or without.
BrokerEnd ==
    /\ conn = "closed" /\ (c2b # <<>> => Head(c2b).t = "TORN")
    /\ conn' = "none" /\ bup' = "down" /\ c2b' = <<>>
    /\ UNCHANGED <<state, intent, backoff, link, queues, tables, control, b2c, session, sent, acks,
                   bounds, fired, delivered, got, dropped, established, spurious, escaped>>

\* The broker forwards its next QoS 1 message.
BrokerSends ==
    /\ conn = "open" /\ bup = "up" /\ Len(sent) < Inbound
    /\ sent' = Append(sent, Len(sent) + 1)
    /\ b2c' = Append(b2c, Pkt("PUBLISH", Len(sent) + 1, 0))
    /\ UNCHANGED <<state, intent, backoff, link, queues, tables, control, conn, c2b, bup, session,
                   acks, bounds, history>>

BrokerStep ==
    \/ BrokerConnect \/ BrokerPublish \/ BrokerSubscribe \/ BrokerUnsubscribe
    \/ BrokerPing \/ BrokerPubacks \/ BrokerBye \/ BrokerEnd

----------------------------------------------------------------------------

UserStep ==
    \/ Connect \/ Hold \/ Disconnect \/ PublishCall
    \/ \E t \in Topics : Subscribe(t) \/ Unsubscribe(t)

TimerStep ==
    \/ \E i \in DOMAIN inflight : Retransmit(i) \/ GiveUp(i)
    \/ \E i \in DOMAIN pend : AckTimeout(i)
    \/ SendTimeout

ReadStep ==
    \/ ReadNothing \/ ReadSome \/ ReadError \/ ReadEscapes
    \/ DispatchPublish \/ DispatchPuback \/ DispatchPingresp \/ DispatchSuback
    \/ DispatchRejection \/ DispatchUnsuback \/ DispatchUnknown
    \/ ConnackRefused \/ ConnackAccepted \/ FlushOne \/ FlushOverflows \/ FlushDone
    \/ After \/ DispatchDone \/ DispatchOverflows

DrainStep ==
    \/ ResumePartial \/ FireMarker("drain") \/ FireMarker("markers")
    \/ SendWhole \/ SendPart \/ SendNothing \/ SendError

HandleStep ==
    \/ _attempt_self_heal \/ DialPending \/ DialReady \/ HandleStart
    \/ NothingPassed \/ TimerStep \/ Keepalive \/ ReadStep \/ DrainStep \/ CallbackReturn

Next ==
    \/ HandleStep \/ UserStep \/ BackoffElapses \/ DialFails \/ io_error
    \/ LoseConnection \/ BrokerStep \/ BrokerSends

Spec == Init /\ [][Next]_vars

\* The loop keeps ticking and a callback returns, the broker answers, backoffs
\* run out, a timer of a silent connection passes in the end, and a socket
\* that can take bytes does not refuse them forever.
FairSpec ==
    /\ Spec /\ WF_vars(HandleStep) /\ WF_vars(BrokerStep) /\ WF_vars(BackoffElapses)
    /\ SF_vars(DialReady) /\ SF_vars(ReadSome) /\ SF_vars(SendWhole)
    /\ SF_vars(ResumePartial /\ partial' = None) /\ SF_vars(TimerStep /\ faults' = faults)

----------------------------------------------------------------------------
(* Properties.                                                             *)

\* Every attribute keeps its kind of value, the queue its hard cap, and no
\* bytes wait for a socket that is gone (so _drain_tx_queue never meets None).
TypeOK ==
    /\ state \in {"DISCONNECTED", "AWAITING", "CONNECTING", "CONNECTED", "FAILED"}
    /\ connector = (state = "AWAITING") /\ Len(txq) <= HardCap /\ Len(preq) <= PreCap
    /\ state \in {"CONNECTING", "CONNECTED"} => sock
    /\ ~sock => txq = <<>> /\ partial = None
    /\ {wants, held, permanent, backoff, sock, batch} \subseteq BOOLEAN
    /\ conn \in {"none", "open", "cut", "silent", "closed"} /\ bup \in {"new", "up", "down"}
    /\ \A i \in DOMAIN inflight : inflight[i].m \in Pubs /\ inflight[i].retry <= RetryMax

\* Whatever was left in the queues when a connection ended, the first packet on
\* the next one is its CONNECT (unless the user gives it up before).
ConnectFirst ==
    conn = "open" /\ bup = "new" /\ c2b # <<>> => Head(c2b).t = "CONNECT"

\* on_publish tells the truth and fires once: for QoS 1 the broker has the
\* message, for QoS 0 its bytes have left the queue, over retransmissions,
\* duplicate PUBACKs and reconnects.
FiredIsTrue ==
    \A m \in Pubs : fired[m] > 0 =>
        /\ fired[m] = 1
        /\ Qos[m] = 1 => m \in delivered
        /\ Qos[m] = 0 => \A i \in DOMAIN Queued : Queued[i] # Publish(m, 0)

\* PUBACKs reach the broker in the order of its publishes, none skipped, and
\* only for messages the user has been given.
PubacksInOrder == IsPrefix(acks, sent) /\ ToSet(acks) \subseteq got


\* An accepted QoS 1 publish stays with the client (buffered or in flight)
\* until it is acknowledged, given up after its retries, or dropped by
\* disconnect() or by a clean session's reconnect.
NoSilentLoss ==
    \A m \in 1 .. made : Qos[m] = 1 =>
        \/ m \in dropped \/ fired[m] > 0 \/ m \in ToSet(preq)
        \/ \E i \in DOMAIN inflight : inflight[i].m = m

\* Besides disconnect(), on_disconnect reports the end of an established
\* session, once per outage: failed attempts and retries stay silent.
OutageReportedOnce == ~spurious

\* handle() lets no exception of its own out.
HandleContained == ~escaped

\* While a clean session is up, every declared filter is live at the broker or
\* its SUBSCRIBE is still being negotiated.
SubscriptionsLive ==
    CleanSession /\ state = "CONNECTED" /\ conn = "open" /\ bup = "up" =>
        \A t \in DOMAIN subs :
            \/ t \in bsubs
            \/ \E i \in DOMAIN pend : pend[i].t = "SUBACK" /\ pend[i].what = t
            \/ \E i \in DOMAIN rx : rx[i].t = "SUBNAK"

\* Every QoS 1 publish is acknowledged or accounted for in the end, unless the
\* user gave the connection up or the broker refused it for good.
PublishSettles ==
    \A m \in Pubs : Qos[m] = 1 =>
        (made >= m ~> fired[m] > 0 \/ m \in dropped \/ ~wants \/ held \/ permanent)
=============================================================================
