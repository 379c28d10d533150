--------------------------- MODULE PollSetProofs ---------------------------
(***************************************************************************)
(* For every set of services, sockets and descriptors, the poller watches  *)
(* exactly what the services want whenever wait() blocks.  The invariant   *)
(* IInv says, slot by slot, what a sweep in progress has established.      *)
(***************************************************************************)
EXTENDS PollSet, TLAPS

\* A mask is made of events, and only a reported socket is wanted.
LEMMA SweepMaskFacts ==
  ASSUME TypeOK, NEW s \in Socks
  PROVE  /\ SweepMask(s) \subseteq Events
         /\ SweepMask(s) # {} => \E v \in Services : io_socket[v] = s
BY DEF TypeOK, SweepMask

\* A wanted socket is open.
LEMMA WantedOpen == ASSUME TypeOK, EnvOK PROVE \A s \in Wanted : s \in Socks /\ IsOpen(s)
<1> SUFFICES ASSUME NEW s \in Wanted PROVE s \in Socks /\ IsOpen(s)
  OBVIOUS
<1>1. s \in Socks /\ SweepMask(s) # {}
  BY DEF Wanted
<1>2. PICK v \in Services : io_socket[v] = s
  BY <1>1, SweepMaskFacts
<1> QED BY <1>1, <1>2, PollSetAssumption DEF EnvOK

\* What is wanted depends on the services alone.
LEMMA WantedUnchanged ==
  ASSUME UNCHANGED env
  PROVE  /\ \A s : SweepMask(s)' = SweepMask(s)
         /\ Wanted' = Wanted
         /\ \A s : IsOpen(s)' = IsOpen(s)
BY DEF env, SweepMask, Wanted, IsOpen

\* The initial states satisfy the inductive invariant.
LEMMA InitIInv == Init => IInv
<1> SUFFICES ASSUME Init PROVE IInv
  OBVIOUS
<1>1. TypeOK
  BY DEF Init, TypeOK
<1>2. EnvOK
  BY PollSetAssumption DEF Init, EnvOK, IsOpen
<1>3. SlotsOK
  BY DEF Init, SlotsOK
<1>4. ProgressOK
  BY DEF Init, ProgressOK
<1> QED BY <1>1, <1>2, <1>3, <1>4 DEF IInv

\* The services' steps: between waits only sockets and reports change.
LEMMA EnvStep ==
  ASSUME IInv,
         \/ \E s \in Socks : Open(s) \/ Close(s)
         \/ \E s, w \in Socks : Wrap(s, w)
         \/ \E v \in Services : Report(v)
  PROVE  IInv'
<1> USE DEF IInv
<1>0. pc = "idle" /\ UNCHANGED <<registered, mask, descriptor, built, poller, pc, todo>>
  BY DEF Open, Close, Wrap, Report, slots
<1>1. ASSUME NEW s \in Socks, Open(s) PROVE TypeOK' /\ EnvOK' /\ SlotsOK'
  <2>1. PICK f \in Fds : FreeFd(f) /\ fd' = [fd EXCEPT ![s] = f]
    BY <1>1 DEF Open
  <2>2. s \in fresh /\ fresh' = fresh \ {s} /\ UNCHANGED <<io_socket, io_interest>>
    BY <1>1 DEF Open
  <2>3. TypeOK'
    BY <1>0, <2>1, <2>2 DEF TypeOK
  <2>4. EnvOK'
    BY <1>0, <2>1, <2>2, PollSetAssumption DEF TypeOK, EnvOK, IsOpen, FreeFd
  <2>5. SlotsOK'
    BY <1>0, <2>1, <2>2 DEF TypeOK, EnvOK, SlotsOK, IsOpen
  <2> QED BY <2>3, <2>4, <2>5
<1>2. ASSUME NEW s \in Socks, Close(s) PROVE TypeOK' /\ EnvOK' /\ SlotsOK'
  <2>1. TypeOK'
    BY <1>0, <1>2 DEF Close, TypeOK
  <2>2. EnvOK'
    BY <1>0, <1>2, PollSetAssumption DEF Close, TypeOK, EnvOK, IsOpen
  <2>3. SlotsOK'
    BY <1>0, <1>2 DEF Close, TypeOK, SlotsOK, IsOpen
  <2> QED BY <2>1, <2>2, <2>3
<1>3. ASSUME NEW s \in Socks, NEW w \in Socks, Wrap(s, w) PROVE TypeOK' /\ EnvOK' /\ SlotsOK'
  <2>0. s # w /\ fd[s] \in Fds
    BY <1>3 DEF Wrap, EnvOK, IsOpen, TypeOK
  <2>1. TypeOK'
    BY <1>0, <1>3, <2>0 DEF Wrap, TypeOK
  <2>2. EnvOK'
    BY <1>0, <1>3, <2>0, PollSetAssumption DEF Wrap, TypeOK, EnvOK, IsOpen
  <2>3. SlotsOK'
    BY <1>0, <1>3, <2>0 DEF Wrap, TypeOK, EnvOK, SlotsOK, IsOpen
  <2> QED BY <2>1, <2>2, <2>3
<1>4. ASSUME NEW v \in Services, Report(v) PROVE TypeOK' /\ EnvOK' /\ SlotsOK'
  <2>1. UNCHANGED <<fd, fresh>>
    BY <1>4 DEF Report
  <2>2. PICK s \in {x \in Socks : IsOpen(x)} \cup {None} : io_socket' = [io_socket EXCEPT ![v] = s]
    BY <1>4 DEF Report
  <2>3. PICK i \in SUBSET Events : io_interest' = [io_interest EXCEPT ![v] = i]
    BY <1>4 DEF Report
  <2>4. TypeOK'
    BY <1>0, <2>1, <2>2, <2>3 DEF TypeOK
  <2>5. EnvOK'
    BY <1>0, <2>1, <2>2 DEF TypeOK, EnvOK, IsOpen
  <2>6. SlotsOK'
    BY <1>0, <2>1 DEF SlotsOK, IsOpen
  <2> QED BY <2>4, <2>5, <2>6
<1>5. ProgressOK'
  BY <1>0 DEF ProgressOK
<1> QED BY <1>1, <1>2, <1>3, <1>4, <1>5

\* Sweep: new slots start with mask {} and name an open socket's descriptor.
LEMMA SweepStep == ASSUME IInv, Sweep PROVE IInv'
<1> USE DEF IInv
<1>0. UNCHANGED env /\ built' = built /\ poller' = poller
  BY DEF Sweep
<1>1. \A s \in Wanted : s \in Socks /\ IsOpen(s)
  BY WantedOpen
<1>2. /\ \A s : SweepMask(s)' = SweepMask(s)
      /\ Wanted' = Wanted
      /\ \A s : IsOpen(s)' = IsOpen(s)
  BY <1>0, WantedUnchanged
<1>3. /\ registered' = registered \cup Wanted
      /\ mask' = [s \in Socks |-> IF s \in Wanted \ registered THEN {} ELSE mask[s]]
      /\ descriptor' = [s \in Socks |-> IF s \in Wanted \ registered THEN fd[s] ELSE descriptor[s]]
      /\ pc' = "update" /\ todo' = Wanted /\ pc = "idle"
  BY DEF Sweep
<1>4. TypeOK'
  BY <1>0, <1>1, <1>3 DEF TypeOK, env, IsOpen
<1>5. EnvOK'
  BY <1>0, <1>1, <1>3 DEF EnvOK, env, IsOpen
<1>6. SlotsOK'
  <2>1. \A s \in registered' : IsOpen(s)' => descriptor'[s] = fd'[s]
    BY <1>0, <1>2, <1>3 DEF TypeOK, SlotsOK, env, Wanted
  <2>2. ASSUME NEW f \in Fds, poller'[f] # {}
        PROVE  built' /\ \E s \in registered' : descriptor'[s] = f
    <3>1. built /\ \E s \in registered : descriptor[s] = f
      BY <1>0, <2>2 DEF SlotsOK
    <3> QED BY <1>0, <1>3, <3>1 DEF TypeOK
  <2>3. built' => \A s \in registered' : IsOpen(s)' /\ mask'[s] # {} => poller'[fd'[s]] = mask'[s]
    BY <1>0, <1>2, <1>3 DEF TypeOK, SlotsOK, env, Wanted
  <2>4. \A s \in registered' : mask'[s] = {} => pc' = "update" /\ s \in todo'
    BY <1>3 DEF TypeOK, SlotsOK, Wanted
  <2> QED BY <2>1, <2>2, <2>3, <2>4 DEF SlotsOK
<1>7. ProgressOK'
  BY <1>2, <1>3 DEF ProgressOK
<1> QED BY <1>4, <1>5, <1>6, <1>7

\* Update: the poller learns the new mask of an open socket.
LEMMA UpdateStep == ASSUME IInv, NEW s \in Socks, Update(s) PROVE IInv'
<1> USE DEF IInv
<1>0. /\ UNCHANGED env /\ UNCHANGED <<registered, descriptor, built, pc>>
      /\ pc = "update" /\ s \in todo /\ todo' = todo \ {s}
      /\ mask' = [mask EXCEPT ![s] = SweepMask(s)]
  BY DEF Update
<1>1. s \in Wanted /\ s \in registered /\ IsOpen(s) /\ fd[s] \in Fds /\ SweepMask(s) # {}
  BY <1>0, WantedOpen DEF ProgressOK, TypeOK, IsOpen, Wanted
<1>2. /\ \A t : SweepMask(t)' = SweepMask(t)
      /\ Wanted' = Wanted
      /\ \A t : IsOpen(t)' = IsOpen(t)
  BY <1>0, WantedUnchanged
<1>3. poller' = IF built /\ mask[s] # SweepMask(s)
                THEN [poller EXCEPT ![fd[s]] = SweepMask(s)] ELSE poller
  BY DEF Update
<1>4. SweepMask(s) \in SUBSET Events
  BY SweepMaskFacts
<1>5. TypeOK'
  BY <1>0, <1>1, <1>3, <1>4 DEF TypeOK, env
<1>6. EnvOK'
  BY <1>0 DEF EnvOK, env, IsOpen
<1>7. SlotsOK'
  <2>1. \A t \in registered' : IsOpen(t)' => descriptor'[t] = fd'[t]
    BY <1>0, <1>2 DEF SlotsOK, env
  <2>2. ASSUME NEW f \in Fds, poller'[f] # {}
        PROVE  built' /\ \E t \in registered' : descriptor'[t] = f
    <3>1. CASE f = fd[s] /\ built
      BY <1>0, <1>1, <3>1 DEF SlotsOK
    <3>2. CASE ~(f = fd[s] /\ built)
      BY <1>0, <1>3, <2>2, <3>2 DEF SlotsOK, TypeOK
    <3> QED BY <3>1, <3>2
  <2>3. ASSUME built', NEW t \in registered', IsOpen(t)', mask'[t] # {}
        PROVE  poller'[fd'[t]] = mask'[t]
    <3>0. t \in registered /\ t \in Socks /\ IsOpen(t) /\ fd' = fd /\ built /\ fd[t] \in Fds
      BY <1>0, <1>2, <2>3 DEF TypeOK, env, IsOpen
    <3>1. CASE t = s
      BY <1>0, <1>1, <1>3, <3>0, <3>1 DEF SlotsOK, TypeOK
    <3>2. CASE t # s
      <4>1. fd[t] # fd[s]
        BY <1>1, <3>0, <3>2 DEF EnvOK
      <4>2. poller'[fd[t]] = poller[fd[t]]
        BY <1>1, <1>3, <3>0, <4>1 DEF TypeOK
      <4>3. mask'[t] = mask[t]
        BY <1>0, <3>0, <3>2 DEF TypeOK
      <4> QED BY <2>3, <3>0, <4>2, <4>3 DEF SlotsOK
    <3> QED BY <3>1, <3>2
  <2>4. \A t \in registered' : mask'[t] = {} => pc' = "update" /\ t \in todo'
    BY <1>0, <1>1 DEF SlotsOK, TypeOK
  <2> QED BY <2>1, <2>2, <2>3, <2>4 DEF SlotsOK
<1>8. ProgressOK'
  BY <1>0, <1>1, <1>2 DEF ProgressOK, TypeOK
<1> QED BY <1>5, <1>6, <1>7, <1>8

\* Drop: the descriptor goes unless another slot names it.
LEMMA DropStep == ASSUME IInv, NEW s \in Socks, Drop(s) PROVE IInv'
<1> USE DEF IInv
<1>0. /\ UNCHANGED env /\ UNCHANGED <<mask, descriptor, built, pc>>
      /\ pc = "drop" /\ s \in todo /\ todo' = todo \ {s}
      /\ registered' = registered \ {s}
  BY DEF Drop
<1>1. s \in registered /\ s \notin Wanted /\ descriptor[s] \in Fds /\ mask[s] # {}
  BY <1>0 DEF ProgressOK, TypeOK, SlotsOK
<1>2. /\ \A t : SweepMask(t)' = SweepMask(t)
      /\ Wanted' = Wanted
      /\ \A t : IsOpen(t)' = IsOpen(t)
  BY <1>0, WantedUnchanged
<1>3. \/ poller' = poller /\ ~built
      \/ poller' = poller /\ \E t \in registered' : descriptor[t] = descriptor[s]
      \/ poller' = Without(descriptor[s]) /\ IsOpen(s)
      \/ /\ poller' = Without(descriptor[s])
         /\ \A t \in registered' : descriptor[t] # descriptor[s]
  BY <1>0, <1>1 DEF Drop, SlotsOK, UnregisterDescriptor
<1>4. TypeOK'
  BY <1>0, <1>1, <1>3 DEF TypeOK, env, Without
<1>5. EnvOK'
  BY <1>0 DEF EnvOK, env, IsOpen
<1>6. SlotsOK'
  <2>1. \A t \in registered' : IsOpen(t)' => descriptor'[t] = fd'[t]
    BY <1>0, <1>2 DEF SlotsOK, env
  <2>2. ASSUME NEW f \in Fds, poller'[f] # {}
        PROVE  built' /\ \E t \in registered' : descriptor'[t] = f
    <3>1. poller[f] # {} /\ (poller' = Without(descriptor[s]) => f # descriptor[s])
      BY <1>3, <2>2 DEF Without, TypeOK
    <3>2. built /\ \E t \in registered : descriptor[t] = f
      BY <3>1 DEF SlotsOK
    <3> QED BY <1>0, <1>3, <3>1, <3>2
  <2>3. ASSUME built', NEW t \in registered', IsOpen(t)', mask'[t] # {}
        PROVE  poller'[fd'[t]] = mask'[t]
    <3>0. /\ t \in registered /\ t \in Socks /\ t # s /\ IsOpen(t) /\ built
          /\ fd' = fd /\ fd[t] \in Fds /\ mask'[t] = mask[t] /\ descriptor[t] = fd[t]
      BY <1>0, <1>2, <2>3 DEF TypeOK, env, IsOpen, SlotsOK
    <3>1. poller[fd[t]] = mask[t]
      BY <1>0, <2>3, <3>0 DEF SlotsOK
    <3>2. CASE poller' = poller
      BY <3>0, <3>1, <3>2
    <3>3. CASE poller' = Without(descriptor[s]) /\ fd[t] # descriptor[s]
      BY <1>1, <3>0, <3>1, <3>3 DEF Without, TypeOK
    <3>4. IsOpen(s) => fd[t] # descriptor[s]
      BY <1>1, <3>0 DEF EnvOK, SlotsOK
    <3>5. (\A u \in registered' : descriptor[u] # descriptor[s]) => fd[t] # descriptor[s]
      BY <3>0
    <3> QED BY <1>3, <3>2, <3>3, <3>4, <3>5
  <2>4. \A t \in registered' : mask'[t] = {} => pc' = "update" /\ t \in todo'
    BY <1>0 DEF SlotsOK
  <2> QED BY <2>1, <2>2, <2>3, <2>4 DEF SlotsOK
<1>7. ProgressOK'
  BY <1>0, <1>1, <1>2 DEF ProgressOK
<1> QED BY <1>4, <1>5, <1>6, <1>7

\* The remaining steps move from one loop to the next, or build the poller.
LEMMA OtherSteps ==
  ASSUME IInv, UpdateEnd \/ DropEnd \/ WaitWithoutPoll \/ BuildPoller \/ Poll
  PROVE  IInv'
<1> USE DEF IInv
<1>0. UNCHANGED env /\ UNCHANGED <<registered, mask, descriptor>>
  BY DEF UpdateEnd, DropEnd, WaitWithoutPoll, BuildPoller, Poll, slots
<1>1. /\ \A t : SweepMask(t)' = SweepMask(t)
      /\ Wanted' = Wanted
      /\ \A t : IsOpen(t)' = IsOpen(t)
  BY <1>0, WantedUnchanged
<1>2. CASE BuildPoller
  <2>0. /\ pc = "synced" /\ built' = TRUE /\ UNCHANGED <<pc, todo>>
        /\ registered = Wanted
        /\ \A s \in Wanted : s \in Socks /\ IsOpen(s)
    BY <1>2, WantedOpen DEF BuildPoller, ProgressOK
  <2>1. ASSUME NEW f \in Fds
        PROVE  /\ poller'[f] = UNION {mask[s] : s \in {t \in registered : fd[t] = f}}
               /\ poller'[f] \in SUBSET Events
               /\ poller'[f] # {} => \E s \in registered : fd[s] = f
    BY <1>2 DEF BuildPoller, TypeOK
  <2>2. poller' \in [Fds -> SUBSET Events]
    BY <1>2, <2>1 DEF BuildPoller
  <2>3. TypeOK'
    BY <1>0, <2>0, <2>2 DEF TypeOK, env
  <2>4. EnvOK'
    BY <1>0 DEF EnvOK, env, IsOpen
  <2>5. ASSUME NEW s \in registered PROVE poller'[fd[s]] = mask[s]
    <3>1. fd[s] \in Fds /\ {t \in registered : fd[t] = fd[s]} = {s}
      BY <2>0 DEF TypeOK, EnvOK, IsOpen
    <3>2. poller'[fd[s]] = UNION {mask[t] : t \in {u \in registered : fd[u] = fd[s]}}
      BY <2>1, <3>1
    <3>3. poller'[fd[s]] = UNION {mask[t] : t \in {s}}
      BY <3>1, <3>2
    <3> QED BY <3>3
  <2>6. SlotsOK'
    BY <1>0, <1>1, <2>0, <2>1, <2>5 DEF SlotsOK, env
  <2>7. ProgressOK'
    BY <1>0, <1>1, <2>0 DEF ProgressOK
  <2> QED BY <2>3, <2>4, <2>6, <2>7
<1>3. CASE UpdateEnd \/ DropEnd \/ WaitWithoutPoll \/ Poll
  <2>0. UNCHANGED <<built, poller>>
    BY <1>3 DEF UpdateEnd, DropEnd, WaitWithoutPoll, Poll
  <2>1. TypeOK'
    BY <1>0, <1>3, <2>0 DEF TypeOK, env, UpdateEnd, DropEnd, WaitWithoutPoll, Poll
  <2>2. EnvOK'
    BY <1>0 DEF EnvOK, env, IsOpen
  <2>3. SlotsOK'
    BY <1>0, <1>1, <1>3, <2>0 DEF SlotsOK, env, UpdateEnd, DropEnd, WaitWithoutPoll, Poll
  <2>4. ProgressOK'
    BY <1>0, <1>1, <1>3 DEF ProgressOK, UpdateEnd, DropEnd, WaitWithoutPoll, Poll
  <2> QED BY <2>1, <2>2, <2>3, <2>4
<1> QED BY <1>2, <1>3

\* Every step keeps it: the services' steps, then the loops of wait().
LEMMA NextIInv == IInv /\ [Next]_vars => IInv'
<1> SUFFICES ASSUME IInv, [Next]_vars PROVE IInv'
  OBVIOUS
<1>1. CASE UNCHANGED vars
  BY <1>1 DEF vars, env, slots, IInv, TypeOK, EnvOK, SlotsOK, ProgressOK, IsOpen, Wanted, SweepMask
<1>2. CASE Next
  BY <1>2, EnvStep, SweepStep, UpdateStep, DropStep, OtherSteps DEF Next
<1> QED BY <1>1, <1>2

\* Type correctness of the poll set for every instance.
THEOREM PollSetTypeOK == Spec => []TypeOK
<1>1. IInv => TypeOK
  BY DEF IInv
<1> QED BY InitIInv, NextIInv, <1>1, PTL DEF Spec

\* When wait() blocks, the slots are those of the wanted, open sockets, and
\* modify() is never called for a descriptor the poller does not know.
THEOREM SlotsAlwaysExact == Spec => [](SlotsExact /\ ModifyKnown)
<1>1. IInv => SlotsExact /\ ModifyKnown
  <2> SUFFICES ASSUME IInv PROVE SlotsExact /\ ModifyKnown
    OBVIOUS
  <2>1. \A s \in Wanted : s \in Socks /\ IsOpen(s)
    BY WantedOpen DEF IInv
  <2>2. SlotsExact
    BY <2>1 DEF IInv, SlotsExact, ProgressOK
  <2>3. ModifyKnown
    BY <2>1 DEF IInv, ModifyKnown, ProgressOK, SlotsOK
  <2> QED BY <2>2, <2>3
<1> QED BY InitIInv, NextIInv, <1>1, PTL DEF Spec

\* When wait() blocks, the poller watches exactly the descriptors and events
\* the services want: nothing stale, nothing missing, for every history of
\* closes, descriptor reuse and TLS wraps.
THEOREM PollAlwaysExact == Spec => []PollExact
<1>1. IInv => PollExact
  <2> SUFFICES ASSUME IInv, pc = "synced", built, NEW f \in Fds
               PROVE  poller[f] = WantedEvents(f)
    BY DEF PollExact
  <2> USE DEF IInv
  <2>1. /\ registered = Wanted
        /\ \A s \in Wanted : /\ s \in Socks /\ IsOpen(s) /\ mask[s] = SweepMask(s)
                             /\ descriptor[s] = fd[s]
                             /\ mask[s] # {} => poller[fd[s]] = mask[s]
    BY WantedOpen DEF ProgressOK, SlotsOK
  <2>2. \A s \in Socks : SweepMask(s) # {} <=> s \in Wanted
    BY DEF Wanted
  <2>3. CASE \E s \in Wanted : fd[s] = f
    <3>1. PICK s \in Wanted : fd[s] = f
      BY <2>3
    <3>2. {t \in Socks : fd[t] = f} = {s}
      BY <2>1, <3>1 DEF EnvOK
    <3>3. WantedEvents(f) = SweepMask(s)
      BY <3>2 DEF WantedEvents
    <3> QED BY <2>1, <2>2, <3>1, <3>3
  <2>4. CASE ~ \E s \in Wanted : fd[s] = f
    <3>1. poller[f] = {}
      BY <2>1, <2>4 DEF SlotsOK
    <3>2. \A s \in {t \in Socks : fd[t] = f} : SweepMask(s) = {}
      BY <2>2, <2>4
    <3>3. WantedEvents(f) = {}
      BY <3>2 DEF WantedEvents
    <3> QED BY <3>1, <3>3
  <2> QED BY <2>3, <2>4
<1> QED BY InitIInv, NextIInv, <1>1, PTL DEF Spec
=============================================================================
