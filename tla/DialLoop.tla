------------------------------ MODULE DialLoop ------------------------------
(***************************************************************************)
(* A connect() generator (sockets/generators.py) driven by a Runner: the   *)
(* generator ticks its connector, returns the socket, raises, or yields    *)
(* the connector as its wait; the runner resumes it on every tick and, if  *)
(* the loop calls Runner.wait(), first polls for what the connector asks.  *)
(* The wait's timeout is None throughout: a connector publishes no         *)
(* deadline, and the other service shown here owns an idle socket only.    *)
(***************************************************************************)
EXTENDS Connector

VARIABLES
    gen,       \* "new", "suspended", "unwinding", "returned", "raised"
    loop,      \* "tick", "wait", or "polling" inside ipoll
    timeout,   \* connect() has a deadline
    expired,   \* that deadline has passed
    waits,     \* the program's loop calls Runner.wait() between ticks
    other,     \* another service's idle socket is in the poll set
    answers    \* the peer goes on with a TLS handshake in the end

program == <<timeout, waits, other, answers>>
dialVars == <<gen, loop, expired, program>>
vars == <<connVars, peerVars, dialVars>>

Init ==
    /\ InitConnector
    /\ gen = "new" /\ loop = "tick" /\ expired = FALSE
    /\ timeout \in BOOLEAN /\ waits \in BOOLEAN
    /\ other \in BOOLEAN /\ answers \in BOOLEAN

Done == gen \in {"returned", "raised"}

\* The descriptor's events as poll() reports them: an error condition always,
\* a direction once it is ready.
ErrorEvent == tcp = "refused"
DirectionReady ==
    CASE tcp = "up" /\ state = "awaiting_tcp" -> {IO_WRITE}
      [] state = "awaiting_tls" /\ runtime = "cpython" /\ fed -> {want}
      [] state = "awaiting_tls" /\ runtime = "mp" -> {IO_WRITE}
      [] OTHER -> {}

\* A connector that has no socket yet registers nothing.
Registered == socket # "none" /\ io_interest # {}

----------------------------------------------------------------------------
(* The environment.                                                        *)

Expire ==
    /\ timeout /\ ~expired /\ expired' = TRUE
    /\ UNCHANGED <<connVars, peerVars, gen, loop, program>>

\* The operating system settles a pending connect; the peer's TLS flight.
Settle == TcpAnswer /\ UNCHANGED dialVars
Flight == Feed /\ UNCHANGED dialVars

----------------------------------------------------------------------------
(* The generator and the runner's loop.                                    *)


TimedOut == timeout /\ expired

\* connect() resumed by the runner (its first step runs in add_generator()):
\* one tick of the connector, then return, raise, time out or yield.
Resume ==
    /\ gen \in {"new", "suspended"} /\ loop = "tick"
    /\ tick
    /\ gen' = CASE state' = "ready" -> "returned"
                [] state' = "failed" -> "unwinding"
                [] state' \notin Terminal /\ TimedOut -> "unwinding"
                [] OTHER -> "suspended"
    /\ loop' = IF gen' = "suspended" /\ waits THEN "wait" ELSE "tick"
    /\ UNCHANGED <<expired, program>>

\* The finally clause: without a socket to hand over, cancel the connector.
Unwind ==
    /\ gen = "unwinding" /\ cancel
    /\ gen' = "raised"
    /\ UNCHANGED <<loop, expired, program>>

\* GeneratorHandle.cancel() from other code raises GeneratorExit at the yield.
CancelHandle ==
    /\ gen = "suspended" /\ loop # "polling"
    /\ gen' = "unwinding"
    /\ UNCHANGED <<connVars, peerVars, loop, expired, program>>

\* The connector belongs to the caller, who may cancel it at any time, also
\* after connect() has handed its socket over.
CancelConnector == loop # "polling" /\ cancel /\ UNCHANGED dialVars

\* wait(): with a registered socket and no deadline ipoll(-1) blocks; with
\* neither it returns at once.
EnterWait ==
    /\ gen = "suspended" /\ loop = "wait"
    /\ loop' = IF Registered \/ other THEN "polling" ELSE "tick"
    /\ UNCHANGED <<connVars, peerVars, gen, expired, program>>

\* ipoll returns for a direction the connector registered.
WakeReady ==
    /\ gen = "suspended" /\ loop = "polling"
    /\ Registered /\ ~ErrorEvent /\ DirectionReady \cap io_interest # {}
    /\ loop' = "tick"
    /\ UNCHANGED <<connVars, peerVars, gen, expired, program>>

\* POLLERR or POLLHUP on the connector's socket is thrown into the generator.
WakeError ==
    /\ gen = "suspended" /\ loop = "polling" /\ Registered /\ ErrorEvent
    /\ loop' = "tick" /\ gen' = "unwinding"
    /\ UNCHANGED <<connVars, peerVars, expired, program>>

LoopStep == Resume \/ Unwind \/ EnterWait \/ WakeReady \/ WakeError

Next == LoopStep \/ CancelHandle \/ CancelConnector \/ Expire \/ Settle \/ Flight

Spec == Init /\ [][Next]_vars

\* The main loop keeps calling tick() and wait(), time passes, the operating
\* system settles every connect, and a peer that answers does so in the end.
FairSpec ==
    /\ Spec /\ WF_vars(LoopStep) /\ WF_vars(Expire) /\ WF_vars(Settle)
    /\ WF_vars(answers /\ Flight)

----------------------------------------------------------------------------
(* Properties.                                                             *)

\* Every variable of the dial keeps its kind of value.
TypeOK ==
    /\ ConnectorTypeOK
    /\ gen \in {"new", "suspended", "unwinding", "returned", "raised"}
    /\ loop \in {"tick", "wait", "polling"}
    /\ {timeout, waits, other, answers, expired} \subseteq BOOLEAN


\* With a peer that answers, connect() comes to an end: no wakeup is missed in
\* any phase of the dial.  The loop may wait() or not; only where it waits with
\* another service's idle socket in the poll set nothing is claimed: a connector
\* that has no socket yet publishes no deadline either, and is not ticked again.
DialEnds == answers /\ ~(waits /\ other) => <>Done


=============================================================================
