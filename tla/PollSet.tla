------------------------------ MODULE PollSet ------------------------------
(***************************************************************************)
(* chumicro_runner.core.Runner.wait: the reconciliation of the poll set    *)
(* (_sync_poll_set, _unregister_descriptor) with the sockets the services  *)
(* report, over a poller keyed by file descriptor (select.poll).           *)
(*                                                                         *)
(* Between two waits services open, close and TLS-wrap sockets and change  *)
(* their interest.  The system hands a freed descriptor to the next socket *)
(* it opens, so a socket object that is gone and one that has just been    *)
(* reported may have had the same descriptor.                              *)
(***************************************************************************)
EXTENDS Naturals, FiniteSets

CONSTANTS
  None,
  Services,     \* runner entries that have io_interest
  Socks,        \* socket objects the program ever creates
  Fds,          \* file descriptors
  Events        \* POLLIN, POLLOUT

ASSUME PollSetAssumption == None \notin Socks \cup Fds

VARIABLES
  fd,           \* the open sockets' descriptors; None: not open
  fresh,        \* socket objects not created yet
  io_socket, io_interest,        \* what each service reports
  registered,   \* keys of _registered_interest
  mask,         \* slot[1], {} until registered
  descriptor,   \* slot[4]
  built,        \* the poller exists (created by the first wait that blocks)
  poller,       \* what the poller watches, per descriptor; {}: nothing
  pc, todo      \* where wait() is, and the slots its loop has left

env == <<fd, fresh, io_socket, io_interest>>
slots == <<registered, mask, descriptor>>
vars == <<env, slots, built, poller, pc, todo>>

IsOpen(s) == fd[s] # None

Init ==
  /\ fd = [s \in Socks |-> None]
  /\ fresh = Socks
  /\ io_socket = [v \in Services |-> None]
  /\ io_interest = [v \in Services |-> {}]
  /\ registered = {}
  /\ mask = [s \in Socks |-> {}]
  /\ descriptor = [s \in Socks |-> None]
  /\ built = FALSE
  /\ poller = [f \in Fds |-> {}]
  /\ pc = "idle"
  /\ todo = {}

-----------------------------------------------------------------------------
(* The services, between two waits.                                        *)

FreeFd(f) == \A s \in Socks : fd[s] # f

Open(s) ==
  /\ pc = "idle" /\ s \in fresh
  /\ \E f \in Fds : FreeFd(f) /\ fd' = [fd EXCEPT ![s] = f]
  /\ fresh' = fresh \ {s}
  /\ UNCHANGED <<io_socket, io_interest, slots, built, poller, pc, todo>>

\* A service reports a socket it has open, or none, and its interest.
Report(v) ==
  /\ pc = "idle"
  /\ \E s \in {x \in Socks : IsOpen(x)} \cup {None} : io_socket' = [io_socket EXCEPT ![v] = s]
  /\ \E i \in SUBSET Events : io_interest' = [io_interest EXCEPT ![v] = i]
  /\ UNCHANGED <<fd, fresh, slots, built, poller, pc, todo>>

\* A service that closes its socket stops reporting it in the same step.
Close(s) ==
  /\ pc = "idle" /\ IsOpen(s)
  /\ fd' = [fd EXCEPT ![s] = None]
  /\ io_socket' = [v \in Services |-> IF io_socket[v] = s THEN None ELSE io_socket[v]]
  /\ UNCHANGED <<fresh, io_interest, slots, built, poller, pc, todo>>

\* TLS: the wrapping object takes the descriptor over, the raw one is detached.
Wrap(s, w) ==
  /\ pc = "idle" /\ IsOpen(s) /\ w \in fresh
  /\ fd' = [fd EXCEPT ![w] = fd[s], ![s] = None]
  /\ fresh' = fresh \ {w}
  /\ io_socket' = [v \in Services |-> IF io_socket[v] = s THEN w ELSE io_socket[v]]
  /\ UNCHANGED <<io_interest, slots, built, poller, pc, todo>>

-----------------------------------------------------------------------------
(* wait()                                                                  *)

SweepMask(s) == UNION {io_interest[v] : v \in {u \in Services : io_socket[u] = s}}
Wanted == {s \in Socks : SweepMask(s) # {}}

\* Mutant: a new slot does not record its descriptor.
SweepForgetsDescriptor ==
  /\ pc = "idle"
  /\ registered' = registered \cup Wanted
  /\ mask' = [s \in Socks |-> IF s \in Wanted \ registered THEN {} ELSE mask[s]]
  /\ descriptor' = [s \in Socks |-> IF s \in Wanted \ registered THEN None ELSE descriptor[s]]
  /\ pc' = "update" /\ todo' = Wanted
  /\ UNCHANGED <<env, built, poller>>

\* First loop: give every wanted socket a slot; a new one records the
\* descriptor and has mask 0.
Sweep ==
  /\ pc = "idle"
  /\ registered' = registered \cup Wanted
  /\ mask' = [s \in Socks |-> IF s \in Wanted \ registered THEN {} ELSE mask[s]]
  /\ descriptor' = [s \in Socks |-> IF s \in Wanted \ registered THEN fd[s] ELSE descriptor[s]]
  /\ pc' = "update" /\ todo' = Wanted
  /\ UNCHANGED <<env, built, poller>>

\* Second loop: register or modify a slot whose mask changed.
Update(s) ==
  /\ pc = "update" /\ s \in todo
  /\ todo' = todo \ {s}
  /\ mask' = [mask EXCEPT ![s] = SweepMask(s)]
  /\ poller' = IF built /\ mask[s] # SweepMask(s)
               THEN [poller EXCEPT ![fd[s]] = SweepMask(s)]
               ELSE poller
  /\ UNCHANGED <<env, registered, descriptor, built, pc>>

\* Mutant: stale slots are not looked for.
UpdateEndWithoutDrop ==
  /\ pc = "update" /\ todo = {}
  /\ pc' = "drop" /\ todo' = {}
  /\ UNCHANGED <<env, slots, built, poller>>

UpdateEnd ==
  /\ pc = "update" /\ todo = {}
  /\ pc' = "drop" /\ todo' = registered \ Wanted
  /\ UNCHANGED <<env, slots, built, poller>>

Without(f) == [poller EXCEPT ![f] = {}]

\* Mutant: no look at the other slots before dropping the descriptor.
UnregisterDescriptorUnguarded(f, left) == Without(f)

\* _unregister_descriptor, given the slots that are left
UnregisterDescriptor(f, left) ==
  IF \E t \in left : descriptor[t] = f THEN poller ELSE Without(f)

\* Third loop: pop a stale slot and unregister it, by the object while the
\* poller accepts it and by the recorded descriptor otherwise.
Drop(s) ==
  /\ pc = "drop" /\ s \in todo
  /\ todo' = todo \ {s}
  /\ registered' = registered \ {s}
  /\ poller' = IF ~built THEN poller
               ELSE IF IsOpen(s) /\ poller[fd[s]] # {} THEN Without(fd[s])
               ELSE UnregisterDescriptor(descriptor[s], registered \ {s})
  /\ UNCHANGED <<env, mask, descriptor, built, pc>>

DropEnd ==
  /\ pc = "drop" /\ todo = {}
  /\ pc' = "synced"
  /\ UNCHANGED <<env, slots, built, poller, todo>>

\* A deadline has passed, or nothing is registered: wait() does not poll.
WaitWithoutPoll ==
  /\ pc = "synced"
  /\ pc' = "idle"
  /\ UNCHANGED <<env, slots, built, poller, todo>>

\* The first blocking wait creates the poller and replays the slots into it.
BuildPoller ==
  /\ pc = "synced" /\ registered # {} /\ ~built
  /\ built' = TRUE
  /\ poller' = [f \in Fds |-> UNION {mask[s] : s \in {t \in registered : fd[t] = f}}]
  /\ UNCHANGED <<env, slots, pc, todo>>

Poll ==
  /\ pc = "synced" /\ registered # {} /\ built
  /\ pc' = "idle"
  /\ UNCHANGED <<env, slots, built, poller, todo>>

Next ==
  \/ \E s \in Socks : Open(s) \/ Close(s) \/ Update(s) \/ Drop(s)
  \/ \E s, w \in Socks : Wrap(s, w)
  \/ \E v \in Services : Report(v)
  \/ Sweep \/ UpdateEnd \/ DropEnd \/ WaitWithoutPoll \/ BuildPoller \/ Poll

Spec == Init /\ [][Next]_vars

-----------------------------------------------------------------------------
\* Every slot of _registered_interest has the descriptor it was registered
\* with, and every other field keeps its kind of value (core.py:485-507).
TypeOK ==
  /\ fd \in [Socks -> Fds \cup {None}]
  /\ fresh \subseteq Socks
  /\ io_socket \in [Services -> Socks \cup {None}]
  /\ io_interest \in [Services -> SUBSET Events]
  /\ registered \subseteq Socks
  /\ mask \in [Socks -> SUBSET Events]
  /\ descriptor \in [Socks -> Fds \cup {None}]
  /\ \A s \in registered : descriptor[s] \in Fds
  /\ built \in BOOLEAN
  /\ poller \in [Fds -> SUBSET Events]
  /\ pc \in {"idle", "update", "drop", "synced"}
  /\ todo \subseteq Socks

\* What the services want to be woken for, per descriptor.
WantedEvents(f) == UNION {SweepMask(s) : s \in {t \in Socks : fd[t] = f}}

\* When wait() goes on to block, the poller watches exactly what the services
\* want: no descriptor of a closed socket is left behind (poll() would report
\* it at once and every wait would spin) and no live connection is blinded,
\* whichever descriptors were closed, reused or wrapped since the last wait.
PollExact == pc = "synced" /\ built => \A f \in Fds : poller[f] = WantedEvents(f)

\* The slots and the sockets agree when wait() blocks, also before the poller
\* exists, so that the replay registers exactly the wanted sockets.
SlotsExact ==
  pc = "synced" => /\ registered = Wanted
                   /\ \A s \in registered : IsOpen(s) /\ mask[s] = SweepMask(s)

\* modify() is only called for a descriptor the poller knows (it raises for
\* any other one, and wait() does not catch that).
ModifyKnown ==
  pc = "update" /\ built =>
    \A s \in todo : mask[s] \notin {{}, SweepMask(s)} => poller[fd[s]] # {}

-----------------------------------------------------------------------------
(* The inductive invariant behind them.                                    *)

EnvOK ==
  /\ \A s, t \in Socks : IsOpen(s) /\ fd[s] = fd[t] => s = t
  /\ \A s \in fresh : ~IsOpen(s) /\ s \notin registered
  /\ \A v \in Services : io_socket[v] # None => IsOpen(io_socket[v])

\* A slot's descriptor is the socket's own while it is open; every watched
\* descriptor has a slot that names it; every open slot is watched.
SlotsOK ==
  /\ \A s \in registered : IsOpen(s) => descriptor[s] = fd[s]
  /\ \A f \in Fds : poller[f] # {} => built /\ \E s \in registered : descriptor[s] = f
  /\ built => \A s \in registered : IsOpen(s) /\ mask[s] # {} => poller[fd[s]] = mask[s]
  /\ \A s \in registered : mask[s] = {} => pc = "update" /\ s \in todo

ProgressOK ==
  /\ pc # "idle" => Wanted \subseteq registered
  /\ pc = "update" => todo \subseteq Wanted /\ \A s \in Wanted \ todo : mask[s] = SweepMask(s)
  /\ pc \in {"drop", "synced"} => \A s \in Wanted : mask[s] = SweepMask(s)
  /\ pc = "drop" => todo = registered \ Wanted
  /\ pc = "synced" => registered = Wanted

IInv == TypeOK /\ EnvOK /\ SlotsOK /\ ProgressOK
=============================================================================
