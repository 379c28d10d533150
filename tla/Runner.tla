------------------------------- MODULE Runner -------------------------------
(***************************************************************************)
(* chumicro_runner.core: Runner.tick() and the TaskHandle operations.      *)
(* A tick captures the time once, visits every entry in order (period      *)
(* gate, reschedule, check), then fires the queued handlers.  Handlers and *)
(* the on_handler_error hook are user code: while one runs, time passes    *)
(* and it may add, remove or re-time any task, including the ones already  *)
(* queued behind it.                                                       *)
(***************************************************************************)
EXTENDS Ticks, Sequences, SequencesExt

CONSTANTS
  None,
  Tasks,          \* the TaskHandles the program ever creates
  Checked,        \* those registered as objects with a check()
  RaisingChecks,  \* those whose check() may raise
  Escaping,       \* those whose handler may raise past the isolation: it
                  \* called tick(), or raised a BaseException
  Periods,        \* what set_period() is given
  Options,        \* what add() is given
  MaxLate         \* the loop comes back this soon after a due time

\* What add() and set_period() do not reject with a ValueError.
ASSUME RunnerAssumption ==
  /\ Checked \subseteq Tasks /\ RaisingChecks \subseteq Checked /\ Escaping \subseteq Tasks
  /\ Periods \subseteq Nat \ {0}
  /\ Options \subseteq [period_ms : Periods \cup {None}, start_after_ms : Nat \cup {None},
                       run_count : (Nat \ {0}) \cup {None}, preserve_phase : BOOLEAN]
  /\ \A o \in Options : o.preserve_phase => o.period_ms # None
  /\ MaxLate \in Nat
  /\ \A p \in Periods : MaxLate + p < TICKS_HALFPERIOD
  /\ \A o \in Options : o.start_after_ms # None => o.start_after_ms < TICKS_HALFPERIOD

VARIABLES
  clock,          \* what ticks_ms() would read
  entries,        \* _entries
  period_ms, next_due_ms, run_count, preserve_phase,   \* TaskHandle fields
  phase,          \* where tick() is: idle, collect, fire, handler, hook
  now, index,     \* now_ms of the tick, and its loop position
  pending         \* the queued handlers of this tick

\* History: the true time since a task was last queued (up to Cap), the
\* handler runs it completed, the run_count it was added with, and the tasks
\* that were not registered when the current tick began.
VARIABLES since, fires, limit, absent

handleVars == <<entries, period_ms, next_due_ms, run_count, preserve_phase>>
tickVars == <<phase, now, index, pending>>
history == <<since, fires, limit, absent>>
vars == <<clock, handleVars, tickVars, history>>

Cap == Max(Periods)

Init ==
  /\ clock \in Tick
  /\ now = clock
  /\ entries = <<>> /\ pending = <<>> /\ index = 1 /\ phase = "idle"
  /\ period_ms = [t \in Tasks |-> None]
  /\ next_due_ms = [t \in Tasks |-> None]
  /\ run_count = [t \in Tasks |-> None]
  /\ preserve_phase = [t \in Tasks |-> FALSE]
  /\ since = [t \in Tasks |-> Cap]
  /\ fires = [t \in Tasks |-> 0]
  /\ limit = [t \in Tasks |-> None]
  /\ absent = Tasks

-----------------------------------------------------------------------------
(* User code between ticks, in a handler, or in the error hook.            *)

UserCode == phase \in {"idle", "handler", "hook"}

\* Time passes while user code runs, never so long that a due entry is more
\* than MaxLate behind.
Elapse ==
  /\ UserCode
  /\ \E d \in 1 .. TICKS_HALFPERIOD - 1 :
       /\ \A t \in ToSet(entries) :
            next_due_ms[t] # None => ticks_diff(clock, next_due_ms[t]) + d <= MaxLate
       /\ ticks_diff(clock, now) + d <= MaxLate
       /\ clock' = ticks_ms(clock + d)
       /\ since' = [t \in Tasks |-> IF since[t] + d < Cap THEN since[t] + d ELSE Cap]
  /\ UNCHANGED <<handleVars, tickVars, fires, limit, absent>>

\* _initial_next_due_ms
InitialNextDue(o) ==
  IF o.start_after_ms # None THEN ticks_add(clock, o.start_after_ms)
  ELSE IF o.period_ms # None THEN ticks_add(clock, o.period_ms)
  ELSE None

\* add() and add_periodic() of a new handle
Add(t) ==
  /\ UserCode
  /\ t \notin ToSet(entries) \cup ToSet(pending)
  /\ \E o \in Options :
       /\ period_ms' = [period_ms EXCEPT ![t] = o.period_ms]
       /\ next_due_ms' = [next_due_ms EXCEPT ![t] = InitialNextDue(o)]
       /\ run_count' = [run_count EXCEPT ![t] = o.run_count]
       /\ limit' = [limit EXCEPT ![t] = o.run_count]
       /\ preserve_phase' = [preserve_phase EXCEPT ![t] = o.preserve_phase]
  /\ entries' = Append(entries, t)
  /\ since' = [since EXCEPT ![t] = Cap]
  /\ fires' = [fires EXCEPT ![t] = 0]
  /\ UNCHANGED <<clock, tickVars, absent>>

\* TaskHandle.set_period: anchored at the tick's timestamp or a fresh reading
SetPeriod(t) ==
  /\ UserCode
  /\ t \in ToSet(entries)
  /\ \E p \in Periods \cup {None}, anchor \in {now, clock} :
       /\ period_ms' = [period_ms EXCEPT ![t] = p]
       /\ next_due_ms' = [next_due_ms EXCEPT ![t] =
                            IF p = None THEN None ELSE ticks_add(anchor, p)]
  /\ UNCHANGED <<clock, entries, run_count, preserve_phase, tickVars, history>>

\* TaskHandle.remove and Runner._remove.  The runner reads nothing of a removed
\* handle again but its run_count: the other fields are blanked here, so that
\* dead values do not tell states apart.
RemoveTask(t) ==
  /\ UserCode
  /\ t \in ToSet(entries)
  /\ entries' = Remove(entries, t)
  /\ period_ms' = [period_ms EXCEPT ![t] = None]
  /\ next_due_ms' = [next_due_ms EXCEPT ![t] = None]
  /\ since' = [since EXCEPT ![t] = Cap]
  /\ UNCHANGED <<clock, run_count, preserve_phase, tickVars, fires, limit, absent>>

-----------------------------------------------------------------------------
(* tick()                                                                  *)

TickStart ==
  /\ phase = "idle"
  /\ phase' = "collect"
  /\ now' = clock
  /\ index' = 1
  /\ absent' = Tasks \ ToSet(entries)
  /\ UNCHANGED <<clock, handleVars, pending, since, fires, limit>>

\* The entry under the collect loop, its period gate and its reschedule.
Current == entries[index]
Gated(t) == next_due_ms[t] # None /\ ticks_diff(now, next_due_ms[t]) < 0

\* Mutant: the due time moves to the last boundary, not past it.
RealignedOffByOne(t) ==
  LET behind == ticks_diff(now, next_due_ms[t])
  IN  ticks_add(next_due_ms[t], (behind \div period_ms[t]) * period_ms[t])

Realigned(t) ==
  LET behind == ticks_diff(now, next_due_ms[t])
      periods_missed == behind \div period_ms[t] + 1
  IN  ticks_add(next_due_ms[t], periods_missed * period_ms[t])

\* Mutant: every periodic task keeps its phase.
RescheduledAligned(t) ==
  IF next_due_ms[t] = None \/ period_ms[t] = None THEN None ELSE Realigned(t)

Rescheduled(t) ==
  IF next_due_ms[t] = None \/ period_ms[t] = None THEN None
  ELSE IF preserve_phase[t] THEN Realigned(t)
  ELSE ticks_add(now, period_ms[t])

CollectSkip ==
  /\ phase = "collect" /\ index <= Len(entries)
  /\ Gated(Current)
  /\ index' = index + 1
  /\ UNCHANGED <<clock, handleVars, phase, now, pending, history>>

\* check() answers TRUE (a bare handler has none) or FALSE, after the entry
\* has been rescheduled.
CollectCheck ==
  /\ phase = "collect" /\ index <= Len(entries)
  /\ ~Gated(Current)
  /\ next_due_ms' = [next_due_ms EXCEPT ![Current] = Rescheduled(Current)]
  /\ \/ /\ pending' = Append(pending, Current)
        /\ since' = [since EXCEPT ![Current] = 0]
     \/ /\ Current \in Checked
        /\ UNCHANGED <<pending, since>>
  /\ index' = index + 1
  /\ UNCHANGED <<clock, entries, period_ms, run_count, preserve_phase, phase, now,
                 fires, limit, absent>>

\* Mutant: the queue survives the tick.
LeaveTickKeepsQueue == phase' = "idle" /\ pending' = pending /\ index' = 1

\* The finally block: the queue is blanked and the runner may tick again.
LeaveTick == phase' = "idle" /\ pending' = <<>> /\ index' = 1

\* check() raises: nothing isolates it, the handlers queued so far are lost.
CollectRaise ==
  /\ phase = "collect" /\ index <= Len(entries)
  /\ ~Gated(Current)
  /\ Current \in RaisingChecks
  /\ next_due_ms' = [next_due_ms EXCEPT ![Current] = Rescheduled(Current)]
  /\ LeaveTick
  /\ UNCHANGED <<clock, entries, period_ms, run_count, preserve_phase, now,
                 history>>

CollectEnd ==
  /\ phase = "collect" /\ index > Len(entries)
  /\ phase' = "fire" /\ index' = 1
  /\ UNCHANGED <<clock, handleVars, now, pending, history>>

FireStart ==
  /\ phase = "fire" /\ index <= Len(pending)
  /\ phase' = "handler"
  /\ UNCHANGED <<clock, handleVars, now, index, pending, history>>

\* Mutant: auto-removal only below zero.
CountRunBelowZero(t) ==
  /\ fires' = [fires EXCEPT ![t] = IF limit[t] = None THEN 0 ELSE @ + 1]
  /\ IF run_count[t] = None
     THEN UNCHANGED <<run_count, entries>>
     ELSE /\ run_count' = [run_count EXCEPT ![t] = @ - 1]
          /\ entries' = IF run_count[t] - 1 < 0
                        THEN Remove(entries, t)
                        ELSE entries
  /\ phase' = "fire" /\ index' = index + 1
  /\ UNCHANGED <<clock, period_ms, next_due_ms, preserve_phase, now, pending, since, limit, absent>>

\* After the handler: count the run down and auto-remove at zero.
CountRun(t) ==
  /\ fires' = [fires EXCEPT ![t] = IF limit[t] = None THEN 0 ELSE @ + 1]
  /\ IF run_count[t] = None
     THEN UNCHANGED <<run_count, entries>>
     ELSE /\ run_count' = [run_count EXCEPT ![t] = @ - 1]
          /\ entries' = IF run_count[t] - 1 <= 0
                        THEN Remove(entries, t)
                        ELSE entries
  /\ phase' = "fire" /\ index' = index + 1
  /\ UNCHANGED <<clock, period_ms, next_due_ms, preserve_phase, now, pending, since, limit, absent>>

HandlerReturn == phase = "handler" /\ CountRun(pending[index])

\* Mutant: no isolation, a raising handler ends the tick.
HandlerFaultEndsTick ==
  /\ phase = "handler"
  /\ LeaveTick
  /\ UNCHANGED <<clock, handleVars, now, history>>

\* The handler raises an Exception: _record_handler_fault calls the hook.
HandlerFault ==
  /\ phase = "handler"
  /\ phase' = "hook"
  /\ UNCHANGED <<clock, handleVars, now, index, pending, history>>

\* The hook returns, or raises: its exception is counted and dropped.
HookEnd == phase = "hook" /\ CountRun(pending[index])

\* ReentrantTickError or a BaseException leaves tick() at once.
HandlerEscape ==
  /\ phase = "handler"
  /\ pending[index] \in Escaping
  /\ LeaveTick
  /\ UNCHANGED <<clock, handleVars, now, history>>

TickEnd ==
  /\ phase = "fire" /\ index > Len(pending)
  /\ LeaveTick
  /\ UNCHANGED <<clock, handleVars, now, history>>

TickStep ==
  \/ TickStart \/ CollectSkip \/ CollectCheck \/ CollectRaise \/ CollectEnd
  \/ FireStart \/ HandlerReturn \/ HandlerFault \/ HandlerEscape
  \/ HookEnd \/ TickEnd

UserStep == \E t \in Tasks : Add(t) \/ SetPeriod(t) \/ RemoveTask(t)

Next == Elapse \/ UserStep \/ TickStep

Spec == Init /\ [][Next]_vars

\* The main loop keeps ticking and handlers return; the clock cannot stand
\* still through infinitely many iterations of the loop.
FairSpec == Spec /\ WF_vars(TickStep) /\ SF_vars(Elapse)

-----------------------------------------------------------------------------
\* Every due time is a reading of the wrapping clock and every handle field
\* keeps its kind of value (core.py:92-114, 159-184).
TypeOK ==
  /\ clock \in Tick /\ now \in Tick
  /\ entries \in Seq(Tasks) /\ pending \in Seq(Tasks)
  /\ period_ms \in [Tasks -> Periods \cup {None}]
  /\ next_due_ms \in [Tasks -> Tick \cup {None}]
  /\ run_count \in [Tasks -> Nat \cup {None}]
  /\ limit \in [Tasks -> Nat \cup {None}]
  /\ preserve_phase \in [Tasks -> BOOLEAN]
  /\ phase \in {"idle", "collect", "fire", "handler", "hook"}
  /\ index \in Nat \ {0}
  /\ since \in [Tasks -> 0 .. Cap]
  /\ fires \in [Tasks -> Nat]
  /\ absent \subseteq Tasks

\* No handler fires twice in one tick, whatever is added or removed while the
\* queue is being worked off.
QueuedOnce == IsInjective(entries) /\ IsInjective(pending)

\* A task that was not registered when the tick began (removed before it, or
\* added by one of its handlers) does not fire in that tick.
AbsentNeverFires == ToSet(pending) \cap absent = {}

\* run_count is exact: what is left and what was completed add up to what was
\* asked for, and a task that has had its runs is no longer registered.
RunCountExact ==
  \A t \in Tasks : limit[t] # None =>
    /\ fires[t] + run_count[t] = limit[t]
    /\ fires[t] = limit[t] => t \notin ToSet(entries)

\* After the collect loop nothing is left overdue: a stall of any length costs
\* one fire, and the next one is at most one period away.
NoBacklog ==
  phase = "fire" /\ index = 1 =>
    \A t \in ToSet(entries) : next_due_ms[t] # None =>
      LET ahead == ticks_diff(next_due_ms[t], now)
      IN  ahead > 0 /\ (t \in ToSet(pending) => ahead <= period_ms[t])

\* "fires are always at least period_ms apart" (default mode), in true time and
\* across every set_period.
MinGap ==
  [][\A t \in Tasks :
       /\ t \in ToSet(pending') \ ToSet(pending)
       /\ period_ms[t] # None /\ ~preserve_phase[t]
       => since[t] >= period_ms[t]]_vars

\* A periodic task keeps firing although handlers and the error hook raise on
\* every tick, unless it is removed or re-timed over and over; only a check()
\* that raises, or a handler that gets past the isolation, can keep it from it.
PeriodicFires ==
  \A t \in Tasks \ Checked :
    \/ []<>(t \notin ToSet(entries) \/ period_ms[t] = None)
    \/ []<>(phase = "handler" /\ pending[index] = t)
    \/ []<><<SetPeriod(t) \/ CollectRaise \/ HandlerEscape>>_vars
=============================================================================
