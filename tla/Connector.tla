----------------------------- MODULE Connector -----------------------------
(***************************************************************************)
(* The tick-driven connect of chumicro_sockets: the shared base class of   *)
(* _connector.py and the tick() of its three adapters, CPython (a stepped  *)
(* TLS handshake), MicroPython (a blocking TLS wrap, then one more tick to *)
(* promote) and CircuitPython (a blocking connect).  The operating system  *)
(* and the peer are the environment: tcp is the fate of the connect() that *)
(* was issued, and want / fed / rounds what the TLS engine is waiting for. *)
(***************************************************************************)
EXTENDS Naturals

CONSTANTS Runtimes,    \* the adapters to consider, of "cpython", "mp", "cp"
          MaxRounds    \* bound: flights of a TLS handshake

ASSUME ConnectorAssumption ==
    Runtimes \subseteq {"cpython", "mp", "cp"} /\ MaxRounds \in Nat \ {0}

IO_READ == "read"
IO_WRITE == "write"
Directions == {IO_READ, IO_WRITE}
Terminal == {"ready", "failed"}

VARIABLES
    runtime, tls,     \* which adapter, and whether it was asked for TLS
    state,
    socket,           \* "none", "raw", "ssl" (wrapped for TLS), "api" (handed over)
    tls_interest,     \* the directions io_interest reports in awaiting_tls
    open,             \* the operating system's socket has not been closed
    tcp,              \* "unissued", "pending", "up" or "refused"
    want, fed,        \* the direction the handshake blocks on; it is ready
    rounds            \* handshake flights left

connVars == <<runtime, tls, state, socket, tls_interest, open>>
peerVars == <<tcp, want, fed, rounds>>

InitConnector ==
    /\ runtime \in Runtimes /\ tls \in BOOLEAN
    /\ state = "awaiting_dns" /\ socket = "none" /\ open = FALSE
    /\ tls_interest = Directions
    /\ tcp = "unissued" /\ want = IO_WRITE /\ fed = TRUE /\ rounds = MaxRounds

\* What Runner.wait() polls the connector's socket for.
io_interest ==
    CASE state = "awaiting_tls" -> tls_interest
      [] state = "awaiting_tcp" -> {IO_WRITE}
      [] OTHER -> {}

----------------------------------------------------------------------------
(* The operating system and the peer.                                      *)

TcpAnswer ==
    /\ tcp = "pending" /\ tcp' \in {"up", "refused"}
    /\ UNCHANGED <<connVars, want, fed, rounds>>

\* The peer's flight arrives, or the send buffer drains.
Feed ==
    /\ open /\ tcp = "up" /\ ~fed /\ fed' = TRUE
    /\ UNCHANGED <<connVars, tcp, want, rounds>>

----------------------------------------------------------------------------
(* A connector's steps.                                                    *)

\* Mutant: failing forgets the socket without closing it.
_failWithoutClose ==
    /\ state' = "failed" /\ socket' = "none" /\ open' = open
    /\ UNCHANGED <<runtime, tls, tls_interest>>

\* Mutant: failing closes the socket and keeps it in the attribute.
_failKeepsSocket ==
    /\ state' = "failed" /\ socket' = (IF socket = "none" THEN "none" ELSE "closed")
    /\ open' = FALSE
    /\ UNCHANGED <<runtime, tls, tls_interest>>

\* Any exception stops the machine, and closes the socket it holds.
_fail ==
    /\ state' = "failed" /\ socket' = "none"
    /\ open' = (open /\ socket = "none")
    /\ UNCHANGED <<runtime, tls, tls_interest>>

\* getaddrinfo blocks, then answers or raises.
ResolveName ==
    /\ state = "awaiting_dns"
    /\ \/ /\ state' = "awaiting_tcp"
          /\ UNCHANGED <<runtime, tls, socket, tls_interest, open>>
       \/ _fail
    /\ UNCHANGED peerVars

\* connect() is under way, or raised at once.  MicroPython closes the socket
\* of a connect that raised; CPython leaves it unassigned, referenced from the
\* traceback of the exception last_error keeps, so it stays open.
_issue_tcp_connect ==
    /\ runtime \in {"cpython", "mp"} /\ state = "awaiting_tcp" /\ socket = "none"
    /\ \/ /\ socket' = "raw" /\ open' = TRUE /\ tcp' = "pending"
          /\ UNCHANGED <<runtime, tls, state, tls_interest, want, fed, rounds>>
       \/ /\ state' = "failed" /\ socket' = "none" /\ open' = (runtime = "cpython")
          /\ UNCHANGED <<runtime, tls, tls_interest, peerVars>>

\* The socket polls as not writable yet.
TcpNotReady ==
    /\ runtime \in {"cpython", "mp"} /\ state = "awaiting_tcp" /\ socket = "raw"
    /\ tcp = "pending"
    /\ UNCHANGED <<connVars, peerVars>>

TcpRefused ==
    /\ runtime \in {"cpython", "mp"} /\ state = "awaiting_tcp" /\ socket = "raw"
    /\ tcp = "refused"
    /\ _fail /\ UNCHANGED peerVars

TcpReady ==
    /\ runtime \in {"cpython", "mp"} /\ ~tls /\ state = "awaiting_tcp" /\ socket = "raw"
    /\ tcp = "up"
    /\ state' = "ready" /\ socket' = "api"
    /\ UNCHANGED <<runtime, tls, tls_interest, open, peerVars>>

\* wrap_socket: on CPython it only sets the engine up, on MicroPython it runs
\* the whole handshake; either may raise.
WrapTls ==
    /\ runtime \in {"cpython", "mp"} /\ tls /\ state = "awaiting_tcp" /\ socket = "raw"
    /\ tcp = "up"
    /\ \/ /\ state' = "awaiting_tls" /\ socket' = "ssl"
          /\ UNCHANGED <<runtime, tls, tls_interest, open>>
       \/ _fail
    /\ UNCHANGED peerVars

\* Mutant: only a handshake blocked on reading is recorded.
RecordDirectionReadOnly(direction) ==
    tls_interest' = IF direction = IO_READ THEN {IO_READ} ELSE tls_interest

\* io_interest polls for the one direction do_handshake blocked on.
RecordDirection(direction) == tls_interest' = {direction}

\* _tls_ready: do_handshake goes as far as it can and reports what it blocks on.
Handshake ==
    /\ runtime = "cpython" /\ state = "awaiting_tls"
    /\ IF fed
         THEN \/ /\ rounds > 0 /\ rounds' = rounds - 1
                 /\ want' \in Directions /\ fed' = FALSE
                 /\ RecordDirection(want')
                 /\ UNCHANGED <<runtime, tls, state, socket, open>>
              \/ /\ rounds = 0 /\ state' = "ready" /\ socket' = "api"
                 /\ UNCHANGED <<runtime, tls, tls_interest, open, want, fed, rounds>>
              \/ _fail /\ UNCHANGED <<want, fed, rounds>>
         ELSE /\ RecordDirection(want)
              /\ UNCHANGED <<runtime, tls, state, socket, open, want, fed, rounds>>
    /\ UNCHANGED tcp

\* MicroPython: the wrap completed the handshake, this tick only promotes.
Promote ==
    /\ runtime = "mp" /\ state = "awaiting_tls"
    /\ state' = "ready" /\ socket' = "api"
    /\ UNCHANGED <<runtime, tls, tls_interest, open, peerVars>>

\* CircuitPython: socket, optional TLS wrap and a blocking connect in one tick;
\* whichever raised, the socket was assigned before and _fail closes it.
BlockingConnect ==
    /\ runtime = "cp" /\ state = "awaiting_tcp"
    /\ \/ /\ state' = "ready" /\ socket' = "api" /\ open' = TRUE /\ tcp' = "up"
       \/ /\ state' = "failed" /\ socket' = "none" /\ open' = FALSE /\ tcp' = "refused"
    /\ UNCHANGED <<runtime, tls, tls_interest, want, fed, rounds>>

\* tick() past the terminal check.
Advance ==
    \/ ResolveName \/ _issue_tcp_connect \/ TcpNotReady \/ TcpRefused \/ TcpReady
    \/ WrapTls \/ Handshake \/ Promote \/ BlockingConnect

\* A tick of a terminal connector returns at once.
TickTerminal == state \in Terminal /\ UNCHANGED <<connVars, peerVars>>

tick == Advance \/ TickTerminal

\* Mutant: cancel() closes the socket of a connector that already is ready.
cancelAnyState ==
    /\ state' = "failed" /\ socket' = "none" /\ open' = (open /\ socket = "none")
    /\ UNCHANGED <<runtime, tls, tls_interest, peerVars>>


\* Aborts a connect in flight; a ready or failed connector is left alone.
cancel ==
    /\ IF state \in Terminal
         THEN UNCHANGED connVars
         ELSE /\ state' = "failed" /\ socket' = "none"
              /\ open' = (open /\ socket = "none")
              /\ UNCHANGED <<runtime, tls, tls_interest>>
    /\ UNCHANGED peerVars

----------------------------------------------------------------------------
(* Properties.                                                             *)

\* Every attribute of a connector keeps its kind of value.
ConnectorTypeOK ==
    /\ runtime \in Runtimes /\ tls \in BOOLEAN
    /\ state \in {"awaiting_dns", "awaiting_tcp", "awaiting_tls"} \cup Terminal
    /\ socket \in {"none", "raw", "ssl", "api"} /\ open \in BOOLEAN
    /\ tls_interest \in SUBSET Directions
    /\ tcp \in {"unissued", "pending", "up", "refused"}
    /\ want \in Directions /\ fed \in BOOLEAN /\ rounds \in 0 .. MaxRounds

\* A failed connector leaves no socket open behind it, on any path through
\* any adapter, except the one CPython's connect() raised on before it was
\* assigned.
FailedClosesSocket ==
    /\ state = "failed" =>
         (open => runtime = "cpython" /\ tcp = "unissued")
    /\ socket # "none" => open

\* The three adapters keep the promise of one connector: ready and failed are
\* final, also against a late cancel() or tick(), ready always comes with a
\* socket and failed never does.
Abstract == INSTANCE ConnectorSpec WITH
    phase <- IF state \in Terminal THEN state ELSE "connecting",
    holds <- socket # "none"

ImplementsConnectorSpec == Abstract!Spec
=============================================================================
