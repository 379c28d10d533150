-------------------------------- MODULE Wifi --------------------------------
(***************************************************************************)
(* chumicro_wifi.WifiService: the supervisor that joins, watches and       *)
(* rejoins a network, over the adapters for CircuitPython ("cp", whose     *)
(* connect blocks), MicroPython on ESP-IDF and on CYW43 (whose connect     *)
(* only dispatches the join) and CPython.  The radio and the access point  *)
(* are the environment.  handle() runs in one step: the state callbacks it *)
(* makes may raise, and a blocking connect takes time.                     *)
(***************************************************************************)
EXTENDS Ticks

CONSTANTS
    None,
    Kinds,                        \* adapters to consider
    connect_timeout_ms, FirstTimeouts,
    backoff_start_ms, backoff_max_ms,
    ReconnectMaxes,               \* values of reconnect_max, None for unlimited
    CallbackRaises,               \* values of: a state callback raises
    MaxLate,                      \* bound: how late the loop gets to the service
    MaxCount                      \* bound: where the counts of attempts saturate

ASSUME WifiAssumption ==
    /\ Kinds \subseteq {"cp", "espidf", "cyw43", "cpython"}
    /\ connect_timeout_ms \in Nat \ {0} /\ backoff_start_ms \in Nat \ {0}
    /\ backoff_start_ms <= backoff_max_ms
    /\ backoff_max_ms + MaxLate < TICKS_HALFPERIOD
    /\ CallbackRaises \subseteq BOOLEAN

VARIABLES
    kind, first_connect_timeout_ms, reconnect_max,      \* adapter and config
    now,                                                \* the tick clock
    state, last_error,
    next_attempt_due_ms, current_backoff_ms, reconnect_attempts,
    attempt_deadline_ms, first_connect_dispatched, configured,
    supervisor_disabled,       \* the ESP-IDF adapter turned firmware retries off
    ap, joining, linked,       \* network in range; the radio's join; its link
    tries                      \* history: attempts made since last connected

config == <<kind, first_connect_timeout_ms, reconnect_max>>
radio == <<ap, joining, linked>>
schedule == <<next_attempt_due_ms, current_backoff_ms, reconnect_attempts>>
service == <<state, last_error, schedule, attempt_deadline_ms,
             first_connect_dispatched, configured, supervisor_disabled, tries>>
vars == <<config, now, service, radio>>

connect_blocks == kind \in {"cp", "cpython"}
Count(n) == IF n < MaxCount THEN n + 1 ELSE n

Init ==
    /\ kind \in Kinds /\ first_connect_timeout_ms \in FirstTimeouts
    /\ reconnect_max \in ReconnectMaxes
    /\ now \in Tick /\ next_attempt_due_ms = now
    /\ state = "disconnected" /\ last_error = None
    /\ current_backoff_ms = backoff_start_ms /\ reconnect_attempts = 0
    /\ attempt_deadline_ms = None /\ first_connect_dispatched = FALSE
    /\ configured = FALSE /\ supervisor_disabled = FALSE
    /\ ap \in BOOLEAN /\ joining = FALSE /\ linked = FALSE
    /\ tries = 0

----------------------------------------------------------------------------
(* Time, the radio and the loop.                                           *)

\* How far behind a due step of the service the loop is.
Lateness ==
    CASE state \in {"connected", "failed"} -> -1
      [] attempt_deadline_ms # None -> ticks_diff(now, attempt_deadline_ms)
      [] OTHER -> ticks_diff(now, next_attempt_due_ms)

Elapse ==
    /\ Lateness < MaxLate
    /\ now' = ticks_add(now, 1)
    /\ UNCHANGED <<config, service, radio>>

\* The access point comes and goes; out of range the link drops, seconds late.
RangeChange ==
    /\ ap' = ~ap
    /\ UNCHANGED <<config, now, service, joining, linked>>

LinkDrop ==
    /\ linked /\ linked' = FALSE
    /\ UNCHANGED <<config, now, service, ap, joining>>

JoinSucceeds ==
    /\ joining /\ ap /\ linked' = TRUE /\ joining' = FALSE
    /\ UNCHANGED <<config, now, service, ap>>

JoinGivesUp ==
    /\ joining /\ ~ap /\ joining' = FALSE
    /\ UNCHANGED <<config, now, service, ap, linked>>

\* ESP-IDF rejoins by itself once it had joined, unless told not to.
FirmwareRejoin ==
    /\ kind = "espidf" /\ first_connect_dispatched /\ ~supervisor_disabled
    /\ ~linked /\ ~joining /\ joining' = TRUE
    /\ UNCHANGED <<config, now, service, ap, linked>>

----------------------------------------------------------------------------
(* The service.                                                            *)

\* Mutant: a callback's exception replaces what last_error holds.
TransitionedOverwrites(error, raises) == IF raises THEN "callback" ELSE error

\* What _transition leaves in last_error when its callbacks raise or not.
Transitioned(error, raises) ==
    IF raises /\ error = None THEN "callback" ELSE error

check ==
    CASE state = "failed" -> FALSE
      [] state = "connected" -> ~linked
      [] attempt_deadline_ms # None -> TRUE
      [] OTHER -> ticks_diff(now, next_attempt_due_ms) >= 0

\* Mutant: the next attempt stays where the last backoff had put it.
RetryAtOnceStale == UNCHANGED next_attempt_due_ms

RetryAtOnce == next_attempt_due_ms' = now

HandleLinkLost ==
    /\ state = "connected" /\ ~linked
    /\ current_backoff_ms' = backoff_start_ms
    /\ RetryAtOnce
    /\ attempt_deadline_ms' = None /\ state' = "reconnecting"
    /\ \E raises \in CallbackRaises : last_error' = Transitioned(last_error, raises)
    /\ UNCHANGED <<reconnect_attempts, first_connect_dispatched, configured,
                   supervisor_disabled, tries, radio, now>>

_mark_connected ==
    /\ current_backoff_ms' = backoff_start_ms /\ reconnect_attempts' = 0
    /\ attempt_deadline_ms' = None /\ state' = "connected" /\ tries' = 0
    /\ \E raises \in CallbackRaises : last_error' = Transitioned(None, raises)
    /\ UNCHANGED next_attempt_due_ms

\* Mutant: the limit is compared before the attempt is counted.
ExhaustedLate == reconnect_max # None /\ reconnect_attempts >= reconnect_max

Exhausted == reconnect_max # None /\ reconnect_attempts + 1 >= reconnect_max

\* Mutant: the cap is applied to the old delay, before it is doubled.
NextBackoffUncapped ==
    2 * (IF current_backoff_ms < backoff_max_ms THEN current_backoff_ms ELSE backoff_max_ms)

NextBackoff ==
    IF current_backoff_ms * 2 < backoff_max_ms THEN current_backoff_ms * 2 ELSE backoff_max_ms

\* error: last_error so far; from: the state the failure finds; at: the clock.
_register_failed_attempt(error, from, at) ==
    /\ reconnect_attempts' = Count(reconnect_attempts)
    /\ IF Exhausted
         THEN /\ state' = "failed"
              /\ \E raises \in CallbackRaises : last_error' = Transitioned(error, raises)
              /\ UNCHANGED <<next_attempt_due_ms, current_backoff_ms>>
         ELSE /\ state' = from /\ last_error' = error
              /\ next_attempt_due_ms' = ticks_add(at, current_backoff_ms)
              /\ current_backoff_ms' = NextBackoff

\* Mutant: an attempt that ran out of time stays in flight.
AttemptOverForgotten == UNCHANGED attempt_deadline_ms

AttemptOver == attempt_deadline_ms' = None

\* A join in flight: linked, out of time, or not yet.
_poll_in_flight ==
    /\ state \in {"connecting", "reconnecting"} /\ attempt_deadline_ms # None
    /\ \/ linked /\ _mark_connected
       \/ /\ ~linked /\ ticks_diff(now, attempt_deadline_ms) >= 0
          /\ AttemptOver
          /\ _register_failed_attempt(last_error, state, now) /\ tries' = tries
       \/ /\ ~linked /\ ticks_diff(now, attempt_deadline_ms) < 0
          /\ UNCHANGED <<state, last_error, schedule, attempt_deadline_ms, tries>>
    /\ UNCHANGED <<first_connect_dispatched, configured, supervisor_disabled, radio, now>>

\* The first dispatched join gets the first-association grace, no other does.
_attempt_timeout_ms ==
    IF first_connect_timeout_ms # None /\ ~first_connect_dispatched
      THEN first_connect_timeout_ms ELSE connect_timeout_ms

\* The adapter raises: configure() before the join, or connect() itself.
AttemptRaises(from) ==
    /\ kind # "cpython"
    /\ \/ ~configured /\ UNCHANGED <<configured, first_connect_dispatched>>
       \/ /\ (~ap \/ joining) /\ ~linked
          /\ configured' = TRUE /\ first_connect_dispatched' = TRUE
    /\ _register_failed_attempt("adapter", from, now) /\ tries' = Count(tries)
    /\ UNCHANGED <<attempt_deadline_ms, supervisor_disabled, radio, now>>

\* connect() finds the link up, or brings it up before it returns; only then
\* does the ESP-IDF adapter turn the firmware's own retries off.
AttemptLinks ==
    /\ linked \/ ap \/ kind = "cpython"
    /\ configured' = TRUE /\ first_connect_dispatched' = TRUE
    /\ linked' = TRUE /\ joining' = FALSE /\ ap' = ap
    /\ supervisor_disabled' = (supervisor_disabled \/ kind = "espidf")
    /\ _mark_connected
    /\ \E d \in (IF linked \/ ~connect_blocks THEN {0} ELSE 0 .. _attempt_timeout_ms) :
         now' = ticks_add(now, d)

\* The join is dispatched; its outcome is polled for until the deadline.
AttemptDispatches(error, from) ==
    /\ ~connect_blocks /\ ~linked
    /\ configured' = TRUE /\ first_connect_dispatched' = TRUE
    /\ joining' = TRUE /\ UNCHANGED <<ap, linked>>
    /\ attempt_deadline_ms' = ticks_add(now, _attempt_timeout_ms)
    /\ state' = from /\ last_error' = error /\ tries' = Count(tries)
    /\ UNCHANGED <<schedule, supervisor_disabled, now>>

\* A blocking connect() waited and gave up; the backoff starts from the clock.
AttemptTimesOut(error, from) ==
    /\ kind = "cp" /\ ~linked /\ ~ap
    /\ configured' = TRUE /\ first_connect_dispatched' = TRUE
    /\ \E d \in 0 .. _attempt_timeout_ms :
         /\ now' = ticks_add(now, d)
         /\ _register_failed_attempt(error, from, now')
    /\ tries' = Count(tries)
    /\ UNCHANGED <<attempt_deadline_ms, supervisor_disabled, radio>>

\* The first handle() announces CONNECTING, then attempts like any other.
_attempt_connect ==
    /\ state \notin {"connected", "failed"} /\ attempt_deadline_ms = None
    /\ ticks_diff(now, next_attempt_due_ms) >= 0
    /\ LET from == IF state = "disconnected" THEN "connecting" ELSE state IN
       \E raises \in (IF state = "disconnected" THEN CallbackRaises ELSE {FALSE}) :
          LET error == Transitioned(last_error, raises) IN
          \/ AttemptRaises(from) \/ AttemptLinks
          \/ AttemptDispatches(error, from) \/ AttemptTimesOut(error, from)

handle ==
    /\ check
    /\ HandleLinkLost \/ _poll_in_flight \/ _attempt_connect
    /\ UNCHANGED config

Next ==
    \/ handle \/ Elapse
    \/ RangeChange \/ LinkDrop \/ JoinSucceeds \/ JoinGivesUp \/ FirmwareRejoin

Spec == Init /\ [][Next]_vars

\* The loop keeps ticking, time passes (again and again, though a due step is
\* never put off for longer than MaxLate), and a join in range completes.
FairSpec == Spec /\ WF_vars(handle) /\ SF_vars(Elapse) /\ WF_vars(JoinSucceeds)

----------------------------------------------------------------------------
(* Properties.                                                             *)

\* Every attribute of the service keeps its kind of value.
TypeOK ==
    /\ state \in {"disconnected", "connecting", "connected", "reconnecting", "failed"}
    /\ last_error \in {None, "adapter", "callback"}
    /\ now \in Tick /\ next_attempt_due_ms \in Tick
    /\ attempt_deadline_ms \in Tick \cup {None}
    /\ current_backoff_ms \in backoff_start_ms .. backoff_max_ms
    /\ reconnect_attempts \in 0 .. MaxCount /\ tries \in 0 .. MaxCount
    /\ {first_connect_dispatched, configured, supervisor_disabled, ap, joining, linked} \subseteq BOOLEAN

\* While the service wants the network and no join is in flight, its next
\* attempt is never further away than the backoff cap, however long the link
\* had been up and wherever the tick counter wrapped since.
RetryWithinCap ==
    state \in {"connecting", "reconnecting"} /\ attempt_deadline_ms = None =>
        ticks_diff(next_attempt_due_ms, now) <= backoff_max_ms

\* Every attempt since the last connection is counted once, when its outcome
\* is known, whichever way it failed, and FAILED is entered exactly when
\* reconnect_max attempts have failed.
AttemptsCountedOnce ==
    /\ state # "connected" /\ tries < MaxCount =>
         tries = reconnect_attempts + (IF attempt_deadline_ms = None THEN 0 ELSE 1)
    /\ state = "failed" <=> reconnect_max # None /\ reconnect_attempts >= reconnect_max

\* An adapter failure stays readable in last_error until the service connects:
\* a state callback that raises does not replace it.
AdapterErrorKept ==
    [][last_error = "adapter" /\ last_error' = "callback" => state' = "connected"]_vars

\* An unlimited supervisor (reconnect_max None) whose radio can be configured
\* is online again after any sequence of drops and failed attempts, once the
\* network stays in range and no longer drops the link.
ComesBack ==
    reconnect_max = None /\ <>configured /\ <>[]ap /\ <>[][~LinkDrop]_vars =>
        <>[](state = "connected")
=============================================================================
