------------------------ MODULE TelegramRouterProofs ------------------------
(***************************************************************************)
(* Safety of the router for any number of sessions of which any may fail,  *)
(* sleep, stop or be killed: the leader election and the session files     *)
(* (IInv), the delivery of updates (DInv), the types of all variables      *)
(* (TInv), and the way of replies (RInv).                                  *)
(***************************************************************************)
EXTENDS TelegramRouter, FiniteSetTheorems, WellFoundedInduction, TLAPS

\* The variables the argument is about.
core == <<pc, task, lock, seat, sweep, doomed, orphan, kept, stale>>

Tasks == {"none", "sent", "register", "beat", "beating"}

Typed ==
    /\ lock \in Sessions \cup {None}
    /\ seat \in [Sessions -> Seats] /\ seats \in Seats /\ stale \subseteq Stalling
    /\ pc \in [Sessions -> Labels]
    /\ task \in [Sessions -> Tasks]
    /\ doomed \in [Sessions -> Sessions \cup {None}]
    /\ orphan \in [Sessions -> Sessions \cup {None}]
    /\ sweep \in [Sessions -> SUBSET Sessions]
    /\ kept \in [Sessions -> Seats]

\* Tools and heartbeat run only beside the polling loop, and while one of them
\* is inside a synchronous function the loop waits.
TasksInv ==
    \A s \in Sessions :
        /\ task[s] # "none" => Running(s)
        /\ task[s] \in {"register", "beat", "beating"} => pc[s] \in {"loop", "process"}

\* A heartbeat writes back the rank it read.
KeptInv == \A s \in Sessions : task[s] = "beating" => kept[s] # Unseated

\* A session has no file before it registers.
FreshInv == \A s \in Sessions : pc[s] = "off" => seat[s] = Unseated

\* What a sweep has listed of those that send their heartbeats in time and are
\* not gone has its file: nothing it finds vanished can come back.
ListedInv ==
    \A s \in Sessions, x \in Sessions \ Stalling :
        x \in sweep[s] => seat[x] # Unseated \/ pc[x] = "gone"

\* No sweep is about to remove the file of a session that is not gone and
\* sends its heartbeats in time.
SparedInv ==
    \A s \in Sessions \ Stalling :
        pc[s] # "gone" => \A x \in Sessions : doomed[x] # s

\* From its registration on such a session has its file.
AliveSeated ==
    \A s \in Sessions \ (Stalling \cup Failing) : Alive(s) => seat[s] # Unseated

IInv == /\ Typed /\ TasksInv /\ KeptInv /\ FreshInv /\ ListedInv /\ SparedInv /\ AliveSeated
        /\ OnePoller /\ NoGhostFile

USE DEF Seats, Unseated, Tasks

-----------------------------------------------------------------------------
LEMMA InitIInv == Init => IInv
<1> SUFFICES ASSUME Init PROVE IInv
  OBVIOUS
<1>1. Typed
  BY BoundsAssumption, SessionsAssumption DEF Init, Typed, Labels
<1>2. OnePoller /\ NoGhostFile
  BY SessionsAssumption DEF Init, OnePoller, NoGhostFile, Routing
<1>3. TasksInv /\ KeptInv /\ FreshInv /\ ListedInv /\ SparedInv /\ AliveSeated
  BY SessionsAssumption DEF Init, TasksInv, KeptInv, FreshInv, ListedInv, SparedInv, AliveSeated, Alive
<1> QED
  BY <1>1, <1>2, <1>3 DEF IInv

\* Steps that only move the polling loop of s from one of its labels to another,
\* neither of them part of routing a batch unless s holds the lock.
LEMMA MoveStep ==
    ASSUME IInv, NEW s \in Sessions, NEW to \in Labels,
           pc' = [pc EXCEPT ![s] = to],
           UNCHANGED <<lock, seat, seats, stale, task, sweep, doomed, orphan, kept>>,
           Running(s),
           to \in {"loop", "fetched", "saved", "tabled", "rostered", "route",
                   "reader", "unlink", "process"},
           to \in {"fetched", "saved", "tabled", "rostered", "route"} => lock = s,
           task[s] \in {"none", "sent"}
    PROVE  IInv'
<1>1. Typed'
  BY DEF IInv, Typed
<1>2. TasksInv' /\ KeptInv' /\ FreshInv' /\ ListedInv' /\ SparedInv' /\ AliveSeated'
  BY DEF IInv, Typed, TasksInv, KeptInv, FreshInv, ListedInv, SparedInv, AliveSeated, Running, Alive
<1>3. OnePoller' /\ NoGhostFile'
  BY SessionsAssumption DEF IInv, Typed, OnePoller, NoGhostFile, Running, Routing
<1> QED
  BY <1>1, <1>2, <1>3 DEF IInv

\* Steps that leave the core alone.
LEMMA CoreFrame ==
    ASSUME IInv, UNCHANGED core, UNCHANGED seats
    PROVE  IInv'
BY DEF core, IInv, Typed, TasksInv, KeptInv, FreshInv, ListedInv, SparedInv, AliveSeated,
   OnePoller, NoGhostFile, Running, Alive, Routing

LEMMA PollingLoopStep ==
    ASSUME IInv, NEW s \in Sessions, PollingLoop(s)
    PROVE  IInv'
<1> DEFINE Moves(to) == pc' = [pc EXCEPT ![s] = to]
<1> USE DEF Goto
<1>1. CASE Promote(s)
  <2>1. Typed'
    BY <1>1 DEF Promote, IInv, Typed, registry, tools, startup
  <2>2. OnePoller'
    BY <1>1, SessionsAssumption
       DEF Promote, IInv, Typed, OnePoller, Running, Routing
  <2> QED
    BY <1>1, <2>1, <2>2
       DEF Promote, IInv, TasksInv, KeptInv, FreshInv, ListedInv, SparedInv, AliveSeated,
           NoGhostFile, Running, Alive, registry, tools, startup
<1>2. CASE PollFails(s) \/ Route(s)
  BY <1>2, CoreFrame DEF PollFails, Route, core, registry, files, tools, startup
<1>3. ASSUME Poll(s) \/ SaveOffset(s) \/ ReadTable(s) \/ ReadRoster(s) \/ PickPrimary(s)
             \/ Routed(s) \/ Denied(s) \/ NoInbox(s) \/ ReadInbox(s)
             \/ UnlinkInbox(s) \/ UnlinkInboxFails(s) \/ Process(s) \/ ProcessFails(s)
      PROVE  IInv'
  <2>1. UNCHANGED <<lock, seat, seats, stale, task, sweep, doomed, orphan, kept>>
    BY <1>3 DEF Poll, SaveOffset, ReadTable, ReadRoster, PickPrimary, Routed, Denied,
       NoInbox, ReadInbox, UnlinkInbox, UnlinkInboxFails, Process, ProcessFails,
       registry, files, tools, startup
  <2>2. task[s] \in {"none", "sent"}
    <3>1. CASE AtAwait(s)
      BY <3>1 DEF AtAwait
    <3>2. CASE pc[s] \notin {"loop", "process"}
      BY <3>2 DEF IInv, Typed, TasksInv
    <3> QED
      BY <1>3, <3>1, <3>2
         DEF Poll, SaveOffset, ReadTable, ReadRoster, PickPrimary, Routed, Denied,
             NoInbox, ReadInbox, UnlinkInbox, UnlinkInboxFails, Process, ProcessFails
  <2>3. Running(s)
    BY <1>3 DEF Poll, SaveOffset, ReadTable, ReadRoster, PickPrimary, Routed, Denied,
       NoInbox, ReadInbox, UnlinkInbox, UnlinkInboxFails, Process, ProcessFails, Running
  <2>4. \E to \in {"loop", "fetched", "saved", "tabled", "rostered", "route", "reader",
                   "unlink", "process"} :
           /\ Moves(to)
           /\ to \in {"fetched", "saved", "tabled", "rostered", "route"} => lock = s
    <3>1. Routing(s) => lock = s
      BY DEF IInv, OnePoller
    <3>2. CASE Poll(s)
      BY <3>2 DEF Poll
    <3>3. CASE SaveOffset(s) \/ ReadTable(s) \/ ReadRoster(s) \/ PickPrimary(s)
      BY <3>1, <3>3 DEF SaveOffset, ReadTable, ReadRoster, PickPrimary, Routing
    <3>4. CASE \/ Routed(s) \/ Denied(s) \/ NoInbox(s) \/ ReadInbox(s)
               \/ UnlinkInbox(s) \/ UnlinkInboxFails(s) \/ Process(s) \/ ProcessFails(s)
      BY <3>4 DEF Routed, Denied, NoInbox, ReadInbox, UnlinkInbox, UnlinkInboxFails,
         Process, ProcessFails
    <3> QED
      BY <1>3, <3>2, <3>3, <3>4
  <2>5. PICK to \in {"loop", "fetched", "saved", "tabled", "rostered", "route", "reader",
                    "unlink", "process"} :
           /\ Moves(to)
           /\ to \in {"fetched", "saved", "tabled", "rostered", "route"} => lock = s
    BY <2>4
  <2> QED
    BY <2>1, <2>2, <2>3, <2>5, MoveStep DEF Labels
<1> QED
  BY <1>1, <1>2, <1>3 DEF PollingLoop

LEMMA RegisterStep ==
    ASSUME IInv, NEW s \in Sessions, Register(s)
    PROVE  IInv'
<1> USE DEF Goto
<1>1. /\ pc[s] = "off" /\ pc' = [pc EXCEPT ![s] = "count"]
      /\ UNCHANGED <<stale, lock, doomed, orphan, task, kept>>
      /\ seats < MaxSeats /\ seats' = seats + 1
      /\ \/ seat' = [seat EXCEPT ![s] = seats + 1]
         \/ s \in Failing /\ seat' = seat
      /\ sweep' = [sweep EXCEPT ![s] = {x \in Sessions : seat'[x] # Unseated}]
  BY DEF Register, Written, files, tools
<1>2. Typed'
  BY <1>1, BoundsAssumption DEF IInv, Typed, Labels
<1>3. TasksInv' /\ KeptInv' /\ FreshInv' /\ ListedInv' /\ SparedInv'
  BY <1>1 DEF IInv, Typed, TasksInv, KeptInv, FreshInv, ListedInv, SparedInv, Running
<1>4. AliveSeated'
  <2> SUFFICES ASSUME NEW x \in Sessions \ (Stalling \cup Failing), Alive(x)'
               PROVE  seat'[x] # Unseated
    BY DEF AliveSeated
  <2>1. CASE x = s
    BY <1>1, <2>1, BoundsAssumption DEF IInv, Typed
  <2>2. CASE x # s
    <3>1. Alive(x)
      BY <1>1, <2>2 DEF Alive
    <3> QED
      BY <1>1, <2>2, <3>1 DEF IInv, Typed, AliveSeated
  <2> QED
    BY <2>1, <2>2
<1>5. OnePoller' /\ NoGhostFile'
  BY <1>1, SessionsAssumption DEF IInv, Typed, OnePoller, NoGhostFile, Running, Routing
<1> QED
  BY <1>2, <1>3, <1>4, <1>5 DEF IInv

LEMMA LaunchStep ==
    ASSUME IInv, NEW s \in Sessions, Launch(s)
    PROVE  IInv'
<1> USE DEF Goto
<1>1. ASSUME NEW x \in Sessions, SweepVisit(s, x)
      PROVE  IInv'
  <2>1. /\ UNCHANGED <<pc, task, lock, seat, seats, kept, stale>>
        /\ x \in sweep[s]
        /\ sweep' = [sweep EXCEPT ![s] = sweep[s] \ {x}]
        /\ doomed' = [doomed EXCEPT
                        ![s] = IF seat[x] = Unseated \/ Outdated(x) THEN x ELSE None]
        /\ \E y \in {x, None} : orphan' = [orphan EXCEPT ![s] = y]
    BY <1>1 DEF SweepVisit, registry, files, tools
  <2>2. SparedInv'
    <3> SUFFICES ASSUME NEW y \in Sessions \ Stalling, pc[y] # "gone",
                        NEW z \in Sessions, doomed'[z] = y
                 PROVE  FALSE
      BY <2>1 DEF SparedInv
    <3>1. z = s /\ y = x /\ (seat[x] = Unseated \/ Outdated(x))
      BY <2>1, SessionsAssumption DEF IInv, Typed, SparedInv
    <3>2. seat[x] # Unseated
      BY <2>1, <3>1 DEF IInv, ListedInv
    <3>3. ~Alive(x)
      BY <3>1, <3>2 DEF Outdated, IInv, Typed
    <3> QED
      BY <3>1, <3>2, <3>3 DEF Alive, IInv, FreshInv
  <2>3. Typed' /\ ListedInv'
    BY <2>1 DEF IInv, Typed, ListedInv
  <2> QED
    BY <2>1, <2>2, <2>3 DEF IInv, TasksInv, KeptInv, FreshInv, AliveSeated, OnePoller,
       NoGhostFile, Running, Alive, Routing
<1>2. CASE RemoveSeat(s)
  <2>1. /\ UNCHANGED <<pc, task, lock, seats, sweep, orphan, kept, stale>>
        /\ doomed[s] \in Sessions
        /\ seat' = [seat EXCEPT ![doomed[s]] = Unseated]
        /\ doomed' = [doomed EXCEPT ![s] = None]
    BY <1>2 DEF RemoveSeat, files, tools, IInv, Typed
  <2>2. Typed'
    BY <2>1, BoundsAssumption DEF IInv, Typed
  <2>3. FreshInv' /\ ListedInv' /\ SparedInv' /\ NoGhostFile'
    BY <2>1, SessionsAssumption
       DEF IInv, Typed, FreshInv, ListedInv, SparedInv, NoGhostFile
  <2>4. AliveSeated'
    BY <2>1 DEF IInv, Typed, AliveSeated, SparedInv, Alive
  <2> QED
    BY <2>1, <2>2, <2>3, <2>4 DEF IInv, TasksInv, KeptInv, OnePoller, Running, Routing
<1>3. CASE Start(s) \/ Started(s)
  <2>1. /\ UNCHANGED <<task, seat, seats, doomed, orphan, kept, stale>>
        /\ \/ /\ pc[s] = "count" /\ pc' = [pc EXCEPT ![s] = "clean"] /\ lock' = lock
              /\ sweep' = [sweep EXCEPT ![s] = SeatedSessions]
           \/ /\ UNCHANGED sweep
              /\ pc[s] = "clean" /\ pc' = [pc EXCEPT ![s] = "loop"]
              /\ lock' = IF lock = None THEN s ELSE lock
    BY <1>3 DEF Start, Started, registry, files, tools, startup
  <2>2. Typed'
    BY <2>1 DEF IInv, Typed, Labels, SeatedSessions
  <2>3. TasksInv' /\ KeptInv' /\ FreshInv' /\ ListedInv' /\ SparedInv' /\ AliveSeated' /\ NoGhostFile'
    BY <2>1 DEF IInv, Typed, TasksInv, KeptInv, FreshInv, ListedInv, SparedInv, AliveSeated,
       NoGhostFile, Running, Alive, SeatedSessions
  <2>4. OnePoller'
    BY <2>1, SessionsAssumption DEF IInv, Typed, OnePoller, Running, Routing
  <2> QED
    BY <2>2, <2>3, <2>4 DEF IInv
<1>4. CASE RemoveInbox(s)
  <2>1. /\ UNCHANGED <<pc, task, lock, seat, seats, sweep, doomed, kept, stale>>
        /\ orphan' = [orphan EXCEPT ![s] = None]
    BY <1>4 DEF RemoveInbox, registry, tools
  <2> QED
    BY <2>1 DEF IInv, Typed, TasksInv, KeptInv, FreshInv, ListedInv, SparedInv, AliveSeated,
       OnePoller, NoGhostFile, Running, Alive, Routing
<1> QED
  BY <1>1, <1>2, <1>3, <1>4 DEF Launch

\* The tools and the heartbeat: neither the polling loop nor the lock moves.
LEMMA TaskStep ==
    ASSUME IInv, NEW s \in Sessions,
           Send(s) \/ RegisterMessage(s) \/ GoStale(s) \/ Heartbeat(s)
    PROVE  IInv'
<1>1. UNCHANGED <<pc, lock, sweep, doomed, orphan>>
  BY DEF Send, RegisterMessage, RegisterRead, RegisterWrite, GoStale, Heartbeat, BeatCheck,
     BeatRead, BeatRecreate, BeatWrite, files, startup
<1>2. OnePoller' /\ SparedInv'
  BY <1>1 DEF IInv, OnePoller, SparedInv, Running, Routing
<1>3. CASE Send(s) \/ RegisterMessage(s) \/ BeatCheck(s)
  <2>1. /\ UNCHANGED <<seat, seats, stale, kept>>
        /\ \E t \in {"none", "sent", "register", "beat"} : task' = [task EXCEPT ![s] = t]
        /\ \/ pc[s] \in {"loop", "process"}
           \/ task' = [task EXCEPT ![s] = "none"]
    BY <1>3 DEF Send, RegisterMessage, RegisterRead, RegisterWrite, BeatCheck, AtAwait,
       registry
  <2>2. Typed'
    BY <1>1, <2>1 DEF IInv, Typed
  <2>3. TasksInv' /\ KeptInv'
    BY <1>1, <2>1 DEF IInv, Typed, TasksInv, KeptInv, Running
  <2> QED
    BY <1>1, <1>2, <2>1, <2>2, <2>3 DEF IInv, FreshInv, ListedInv, AliveSeated,
       NoGhostFile, Alive
<1>4. CASE GoStale(s)
  <2>1. UNCHANGED <<seat, seats, task, kept>> /\ stale' \subseteq Stalling
    BY <1>4 DEF GoStale, tools, IInv, Typed
  <2> QED
    BY <1>1, <1>2, <2>1 DEF IInv, Typed, TasksInv, KeptInv, FreshInv, ListedInv, AliveSeated,
       NoGhostFile, Running, Alive
<1>5. CASE BeatRead(s) \/ BeatRecreate(s) \/ BeatWrite(s)
  <2>1. /\ pc[s] \in {"loop", "process"}
        /\ stale' \subseteq Stalling
        /\ \/ /\ UNCHANGED <<seat, seats>>
              /\ seat[s] # Unseated
              /\ kept' = [kept EXCEPT ![s] = seat[s]]
              /\ task' = [task EXCEPT ![s] = "beating"]
           \/ /\ seats < MaxSeats /\ seats' = seats + 1
              /\ seat' = [seat EXCEPT ![s] = seats + 1]
              /\ task' = [task EXCEPT ![s] = "none"]
              /\ kept' = kept
           \/ /\ seats' = seats /\ kept[s] # Unseated
              /\ seat' = [seat EXCEPT ![s] = kept[s]]
              /\ kept' = [kept EXCEPT ![s] = Unseated]
              /\ task' = [task EXCEPT ![s] = "none"]
    BY <1>5 DEF BeatRead, BeatRecreate, BeatWrite, registry, IInv, Typed, TasksInv, KeptInv
  <2>2. Typed'
    BY <1>1, <2>1, BoundsAssumption DEF IInv, Typed
  <2>3. TasksInv' /\ KeptInv'
    BY <1>1, <2>1 DEF IInv, Typed, TasksInv, KeptInv, Running
  <2>4. FreshInv' /\ ListedInv' /\ NoGhostFile'
    BY <1>1, <2>1, BoundsAssumption DEF IInv, Typed, FreshInv, ListedInv, NoGhostFile
  <2>5. AliveSeated'
    BY <1>1, <2>1, BoundsAssumption DEF IInv, Typed, AliveSeated, Alive
  <2> QED
    BY <1>2, <2>2, <2>3, <2>4, <2>5 DEF IInv
<1> QED
  BY <1>3, <1>4, <1>5 DEF Heartbeat

LEMMA EndStep ==
    ASSUME IInv, NEW s \in Sessions, Stop(s) \/ Shutdown(s) \/ Crash(s)
    PROVE  IInv'
<1> USE DEF Goto
<1>1. CASE Stop(s)
  <2>1. /\ pc[s] \in {"loop", "process"} /\ pc' = [pc EXCEPT ![s] = "release"]
        /\ task' = [task EXCEPT ![s] = "none"]
        /\ UNCHANGED <<lock, seat, seats, sweep, doomed, orphan, kept, stale>>
    BY <1>1 DEF Stop, AtAwait, registry, files, startup
  <2>2. Typed'
    BY <2>1 DEF IInv, Typed, Labels
  <2>3. TasksInv' /\ KeptInv' /\ FreshInv' /\ ListedInv' /\ SparedInv' /\ AliveSeated' /\ NoGhostFile'
    BY <2>1 DEF IInv, Typed, TasksInv, KeptInv, FreshInv, ListedInv, SparedInv, AliveSeated,
       NoGhostFile, Running, Alive
  <2>4. OnePoller'
    BY <2>1, SessionsAssumption DEF IInv, Typed, OnePoller, Running, Routing
  <2> QED
    BY <2>2, <2>3, <2>4 DEF IInv
<1>2. CASE StopRelease(s) \/ StopDiscard(s) \/ StopReadTable(s) \/ StopWriteTable(s)
  <2>1. /\ UNCHANGED <<task, seat, seats, sweep, doomed, orphan, kept, stale>>
        /\ \/ /\ pc[s] = "release" /\ pc' = [pc EXCEPT ![s] = "discard"]
              /\ lock' = IF lock = s THEN None ELSE lock
           \/ /\ pc[s] \in {"discard", "forget", "rewrite"} /\ lock' = lock
              /\ \E to \in {"forget", "rewrite", "unregister"} : pc' = [pc EXCEPT ![s] = to]
    BY <1>2 DEF StopRelease, StopDiscard, StopReadTable, StopWriteTable, registry, files,
       startup, tools
  <2>2. Typed'
    BY <2>1 DEF IInv, Typed, Labels
  <2>3. TasksInv' /\ KeptInv' /\ FreshInv' /\ ListedInv' /\ SparedInv' /\ AliveSeated' /\ NoGhostFile'
    BY <2>1 DEF IInv, Typed, TasksInv, KeptInv, FreshInv, ListedInv, SparedInv, AliveSeated,
       NoGhostFile, Running, Alive
  <2>4. OnePoller'
    BY <2>1, SessionsAssumption DEF IInv, Typed, OnePoller, Running, Routing
  <2> QED
    BY <2>2, <2>3, <2>4 DEF IInv
<1>3. CASE Unregister(s) \/ Crash(s)
  <2>1. /\ pc[s] # "off" /\ pc' = [pc EXCEPT ![s] = "gone"]
        /\ stale' \subseteq Stalling /\ seats' = seats
        /\ \/ /\ pc[s] = "unregister"
              /\ seat' = [seat EXCEPT ![s] = Unseated]
              /\ UNCHANGED <<lock, sweep, doomed, orphan, kept, task>>
           \/ /\ s \in Crashing /\ seat' = seat
              /\ lock' = IF lock = s THEN None ELSE lock
              /\ task' = [task EXCEPT ![s] = "none"]
              /\ sweep' = [sweep EXCEPT ![s] = {}]
              /\ doomed' = [doomed EXCEPT ![s] = None]
              /\ orphan' = [orphan EXCEPT ![s] = None]
              /\ kept' = [kept EXCEPT ![s] = Unseated]
    BY <1>3 DEF Unregister, Crash, Alive, registry, files, startup, tools, IInv, Typed
  <2>2. Typed'
    BY <2>1, BoundsAssumption DEF IInv, Typed, Labels
  <2>3. TasksInv' /\ KeptInv'
    BY <2>1 DEF IInv, Typed, TasksInv, KeptInv, Running
  <2>4. FreshInv' /\ ListedInv' /\ SparedInv' /\ AliveSeated' /\ NoGhostFile'
    BY <2>1, SessionsAssumption
       DEF IInv, Typed, FreshInv, ListedInv, SparedInv, AliveSeated, NoGhostFile, Alive
  <2>5. OnePoller'
    BY <2>1, SessionsAssumption DEF IInv, Typed, OnePoller, Running, Routing
  <2> QED
    BY <2>2, <2>3, <2>4, <2>5 DEF IInv
<1> QED
  BY <1>1, <1>2, <1>3 DEF Shutdown

LEMMA IInvStep == IInv /\ [Next]_vars => IInv'
<1> SUFFICES ASSUME IInv, [Next]_vars PROVE IInv'
  OBVIOUS
<1>1. CASE UNCHANGED vars
  BY <1>1, CoreFrame DEF vars, core, registry, files, startup, tools
<1>2. CASE (\E m \in {NoReply} \cup Messages : UserWrites(m)) \/ StrangerWrites
  BY <1>2, CoreFrame DEF UserWrites, StrangerWrites, core, registry, files, startup, tools
<1>3. ASSUME NEW s \in Sessions,
             \/ Register(s) \/ Launch(s) \/ PollingLoop(s)
             \/ Send(s) \/ RegisterMessage(s)
             \/ GoStale(s) \/ Heartbeat(s)
             \/ Stop(s) \/ Shutdown(s) \/ Crash(s)
      PROVE  IInv'
  BY <1>3, RegisterStep, LaunchStep, PollingLoopStep, TaskStep, EndStep
<1> QED
  BY <1>1, <1>2, <1>3 DEF Next

LEMMA Invariant == Spec => []IInv
BY InitIInv, IInvStep, PTL DEF Spec

-----------------------------------------------------------------------------
(* The delivery of updates: facts about sequences *)

Below(S, T) == \A u \in S, v \in T : u < v

\* The elements of q outside of L ascend.
Ascending(q, L) ==
    \A i, j \in DOMAIN q : i < j /\ q[i] \notin L /\ q[j] \notin L => q[i] < q[j]

LEMMA AppendSet ==
    ASSUME NEW S, NEW q \in Seq(S), NEW u \in S
    PROVE  ToSet(Append(q, u)) = ToSet(q) \cup {u}
<1>1. /\ DOMAIN q = 1..Len(q) /\ Len(q) \in Nat
      /\ DOMAIN Append(q, u) = 1..(Len(q) + 1)
      /\ Append(q, u)[Len(q) + 1] = u
      /\ \A i \in 1..Len(q) : Append(q, u)[i] = q[i]
  OBVIOUS
<1>2. ToSet(Append(q, u)) \subseteq ToSet(q) \cup {u}
  BY <1>1 DEF ToSet
<1>3. ToSet(q) \cup {u} \subseteq ToSet(Append(q, u))
  BY <1>1 DEF ToSet
<1> QED
  BY <1>2, <1>3

LEMMA TailSet ==
    ASSUME NEW S, NEW q \in Seq(S), q # <<>>
    PROVE  /\ Head(q) \in ToSet(q) /\ ToSet(Tail(q)) \subseteq ToSet(q)
           /\ Tail(q) \in Seq(S)
<1>1. /\ DOMAIN q = 1..Len(q) /\ Len(q) \in Nat \ {0}
      /\ Tail(q) \in Seq(S) /\ DOMAIN Tail(q) = 1..(Len(q) - 1)
      /\ Head(q) = q[1]
      /\ \A i \in 1..(Len(q) - 1) : Tail(q)[i] = q[i + 1]
  OBVIOUS
<1> QED
  BY <1>1 DEF ToSet

LEMMA AppendAscending ==
    ASSUME NEW q \in Seq(Nat), NEW u \in Nat, NEW L, Ascending(q, L),
           u \notin L => Below(ToSet(q) \ L, {u})
    PROVE  Ascending(Append(q, u), L)
<1>1. /\ DOMAIN q = 1..Len(q) /\ Len(q) \in Nat
      /\ DOMAIN Append(q, u) = 1..(Len(q) + 1)
      /\ Append(q, u)[Len(q) + 1] = u
      /\ \A i \in 1..Len(q) : Append(q, u)[i] = q[i] /\ q[i] \in ToSet(q)
  BY DEF ToSet
<1> QED
  BY <1>1 DEF Ascending, Below

LEMMA TailAscending ==
    ASSUME NEW q \in Seq(Nat), q # <<>>, NEW L, Ascending(q, L)
    PROVE  Ascending(Tail(q), L) /\ Below({Head(q)} \ L, ToSet(Tail(q)) \ L)
<1>1. /\ DOMAIN q = 1..Len(q) /\ Len(q) \in Nat \ {0}
      /\ DOMAIN Tail(q) = 1..(Len(q) - 1)
      /\ Head(q) = q[1]
      /\ \A i \in 1..(Len(q) - 1) : Tail(q)[i] = q[i + 1]
  OBVIOUS
<1>2. Ascending(Tail(q), L)
  BY <1>1 DEF Ascending
<1>3. Below({Head(q)} \ L, ToSet(Tail(q)) \ L)
  BY <1>1 DEF Ascending, Below, ToSet
<1> QED
  BY <1>2, <1>3

LEMMA LongTail ==
    ASSUME NEW S, NEW q \in Seq(S), q # <<>>, Len(q) # 1
    PROVE  Tail(q) # <<>>
<1>1. PICK n \in Nat : n = Len(q)
  OBVIOUS
<1>2. n # 0 /\ n # 1
  BY <1>1
<1>3. Len(Tail(q)) = n - 1
  BY <1>1, <1>2
<1>4. Len(<<>>) = 0
  OBVIOUS
<1> QED
  BY <1>2, <1>3, <1>4

LEMMA NatSequence ==
    ASSUME NEW S, S \subseteq Nat, NEW q \in Seq(S)
    PROVE  q \in Seq(Nat)
<1>1. Len(q) \in Nat /\ DOMAIN q = 1..Len(q) /\ q = [i \in 1..Len(q) |-> q[i]]
      /\ \A i \in 1..Len(q) : q[i] \in Nat
  OBVIOUS
<1> QED
  BY <1>1

LEMMA EmptyTyped == <<>> \in Seq(Updates)
OBVIOUS

LEMMA EmptySet == ToSet(<<>>) = {} /\ \A L : Ascending(<<>>, L)
BY DEF ToSet, Ascending

-----------------------------------------------------------------------------
(* Where an update that was fetched and not lost is *)

Authorized == {u \in DOMAIN chat : chat[u].auth}

\* In the hands of s: processed, about to be, or in its inbox.
Placed(s) == ToSet(delivered[s]) \cup ToSet(mine[s]) \cup ToSet(inbox[s])

\* offset.json is past the batch.
Past(s) == pc[s] \in {"saved", "tabled", "rostered", "route"}

\* s may still read its inbox: once it holds the lock it no longer will.
Reads(s) == /\ lock # s
            /\ pc[s] \in {"off", "count", "clean", "loop", "reader", "unlink", "process"}

Entries == [auth : BOOLEAN, re : Messages \cup {NoReply}, due : BOOLEAN]

DataTyped ==
    /\ chat \in Seq(Entries)
    /\ Len(chat) <= MaxUpdates
    /\ confirmed \in 0..MaxUpdates
    /\ offset \in Offsets
    /\ client \in [Sessions -> Offsets]
    /\ inbox \in [Sessions -> Seq(Updates)]
    /\ batch \in [Sessions -> SUBSET Updates]
    /\ mine \in [Sessions -> Seq(Updates)]
    /\ roster \in [Sessions -> SUBSET Sessions]
    /\ primary \in [Sessions -> Sessions \cup {None}]
    /\ delivered \in [Sessions -> Seq(Updates)]
    /\ unsaved \subseteq Updates /\ lapses \in 0..MaxLapses

\* A saved update is in the hands of one session only, and offset.json is past it.
PlacedInv ==
    \A s \in Sessions :
        /\ Placed(s) \subseteq Authorized
        /\ \A u \in Placed(s) \ unsaved : u < offset
        /\ \A x \in Sessions \ {s} : Placed(s) \cap Placed(x) \subseteq unsaved

\* What is left of a batch comes after every saved update that is in anybody's
\* hands.
BatchInv ==
    \A s \in Sessions :
        /\ batch[s] \subseteq Authorized
        /\ pc[s] = "fetched" =>
             offset <= client[s] /\ \A u \in batch[s] : offset <= u /\ u < client[s]
        /\ Past(s) => \A u \in batch[s] \ unsaved : u < offset
        /\ Past(s) => \A x \in Sessions : Below(Placed(x) \ unsaved, batch[s])

\* Everything in q that was saved comes before everything in r that was.
Precedes(q, r) == Below(ToSet(q) \ unsaved, ToSet(r) \ unsaved)

\* Of the saved updates, what a session processes next comes after what it
\* processed, and so does its inbox as long as it may read it.
OrderInv ==
    \A s \in Sessions :
        /\ Ascending(mine[s], unsaved) /\ Ascending(inbox[s], unsaved)
        /\ Precedes(delivered[s], mine[s])
        /\ Reads(s) =>
             /\ Precedes(delivered[s], inbox[s])
             /\ pc[s] # "unlink" => Precedes(mine[s], inbox[s])
        /\ lock = s => pc[s] \notin {"reader", "unlink"}
        /\ pc[s] \in {"unlink", "process"} => mine[s] # <<>>

DInv == DataTyped /\ PlacedInv /\ BatchInv /\ OrderInv

LEMMA InitDInv == Init => DInv
<1> SUFFICES ASSUME Init PROVE DInv
  OBVIOUS
<1>1. DataTyped
  BY BoundsAssumption DEF Init, DataTyped, Offsets, Updates
<1>2. \A s \in Sessions : Placed(s) = {} /\ batch[s] = {} /\ pc[s] = "off"
                          /\ mine[s] = <<>> /\ inbox[s] = <<>> /\ lock # s
                          /\ delivered[s] = <<>>
  BY EmptySet, SessionsAssumption DEF Init, Placed
<1>3. PlacedInv /\ BatchInv
  BY <1>2 DEF PlacedInv, BatchInv, Past, Below
<1>4. OrderInv
  BY <1>2, EmptySet DEF OrderInv, Precedes, Below
<1> QED
  BY <1>1, <1>3, <1>4 DEF DInv

\* Steps after which every update is where it was or lost.
LEMMA ShrinkStep ==
    ASSUME DInv, DataTyped',
           UNCHANGED <<chat, offset, client, delivered, unsaved>>,
           \A x \in Sessions :
             /\ inbox'[x] = inbox[x] \/ inbox'[x] = <<>>
             /\ mine'[x] = mine[x] \/ mine'[x] = <<>>
             /\ batch'[x] = batch[x] \/ batch'[x] = {}
             /\ pc'[x] = "fetched" => pc[x] = "fetched"
             /\ Past(x)' => Past(x)
             /\ Reads(x)' => Reads(x)
             /\ Reads(x)' /\ pc[x] = "unlink" /\ pc'[x] # "unlink"
                  => mine'[x] = <<>> \/ inbox'[x] = <<>>
             /\ lock' = x => pc'[x] \notin {"reader", "unlink"}
             /\ pc'[x] \in {"unlink", "process"} => mine'[x] # <<>>
    PROVE  DInv'
<1>1. \A x \in Sessions : Placed(x)' \subseteq Placed(x)
  BY EmptySet DEF Placed
<1>2. Authorized' = Authorized
  BY DEF Authorized
<1>3. PlacedInv'
  BY <1>1, <1>2 DEF DInv, PlacedInv
<1>4. BatchInv'
  BY <1>1, <1>2 DEF DInv, BatchInv, Below
<1>5. OrderInv'
  <2> SUFFICES ASSUME NEW x \in Sessions
               PROVE  /\ Ascending(mine'[x], unsaved) /\ Ascending(inbox'[x], unsaved)
                      /\ Precedes(delivered[x], mine'[x])
                      /\ Reads(x)' =>
                           /\ Precedes(delivered[x], inbox'[x])
                           /\ pc'[x] # "unlink" => Precedes(mine'[x], inbox'[x])
    BY DEF OrderInv, Precedes
  <2>1. /\ ToSet(mine'[x]) \subseteq ToSet(mine[x])
        /\ ToSet(inbox'[x]) \subseteq ToSet(inbox[x])
    BY EmptySet
  <2>2. Ascending(mine'[x], unsaved) /\ Ascending(inbox'[x], unsaved)
    BY EmptySet DEF DInv, OrderInv
  <2>3. Precedes(delivered[x], mine'[x])
    BY <2>1 DEF DInv, OrderInv, Precedes, Below
  <2>4. ASSUME Reads(x)' PROVE Precedes(delivered[x], inbox'[x])
    BY <2>1, <2>4 DEF DInv, OrderInv, Precedes, Below
  <2>5. ASSUME Reads(x)', pc'[x] # "unlink"
        PROVE  Precedes(mine'[x], inbox'[x])
    <3>1. CASE pc[x] # "unlink"
      BY <2>1, <2>5, <3>1 DEF DInv, OrderInv, Precedes, Below
    <3>2. CASE pc[x] = "unlink"
      BY <2>5, <3>2, EmptySet DEF Precedes, Below
    <3> QED
      BY <3>1, <3>2
  <2> QED
    BY <2>2, <2>3, <2>4, <2>5
<1> QED
  BY <1>3, <1>4, <1>5 DEF DInv

\* The steps of the chat: updates are only added.
LEMMA ChatStep ==
    ASSUME DInv, UNCHANGED <<confirmed, files, pc, polling, delivered, unsaved, lapses>>,
           Len(chat) < MaxUpdates,
           NEW e \in Entries,
           chat' = Append(chat, e)
    PROVE  DInv'
<1>1. DataTyped'
  BY BoundsAssumption DEF DInv, DataTyped, files, polling
<1>2. Authorized \subseteq Authorized'
  BY DEF DInv, DataTyped, Authorized
<1>3. \A s \in Sessions : Placed(s)' = Placed(s) /\ Past(s)' = Past(s)
                          /\ Reads(s)' = Reads(s)
  BY DEF Placed, Past, Reads, files, polling
<1>4. PlacedInv'
  BY <1>2, <1>3 DEF DInv, PlacedInv, files
<1>5. BatchInv' /\ OrderInv'
  BY <1>2, <1>3 DEF DInv, BatchInv, OrderInv, Precedes, files, polling
<1> QED
  BY <1>1, <1>4, <1>5 DEF DInv

LEMMA SmallerIsLess ==
    ASSUME NEW x \in Nat, NEW y \in Nat
    PROVE  Smaller(x, y) \in Nat /\ Smaller(x, y) <= y
BY DEF Smaller

\* A poll fetches updates that nobody has.
LEMMA PollStep ==
    ASSUME IInv, DInv, NEW s \in Sessions, Poll(s)
    PROVE  DInv'
<1>1. /\ Asked(s) \in Offsets /\ offset <= Asked(s)
      /\ offset \in Nat /\ confirmed \in Nat /\ Len(chat) \in Nat
      /\ Len(chat) <= MaxUpdates /\ DOMAIN chat = 1..Len(chat)
      /\ Batch \in Nat /\ MaxUpdates \in Nat
  BY BoundsAssumption DEF DInv, DataTyped, Asked, Offsets
<1>2. PICK low \in Nat :
        confirmed' = low /\ low <= MaxUpdates /\ offset <= low + 1 /\ Asked(s) <= low + 1
  <2>1. PICK low \in Nat : /\ low = Larger(confirmed, Asked(s) - 1)
                            /\ low <= MaxUpdates /\ Asked(s) <= low + 1
    BY <1>1 DEF DInv, DataTyped, Larger, Offsets
  <2>2. confirmed' = Larger(confirmed, Asked(s) - 1)
    BY DEF Poll
  <2>3. offset <= low + 1
    BY <1>1, <2>1 DEF Offsets
  <2> QED
    BY <2>1, <2>2, <2>3
<1>3. PICK last \in Int : last = Smaller(low + Batch, Len(chat)) /\ last <= Len(chat)
  <2>1. low + Batch \in Nat
    BY <1>1, <1>2
  <2>2. /\ Smaller(low + Batch, Len(chat)) \in Nat
        /\ Smaller(low + Batch, Len(chat)) <= Len(chat)
    BY <1>1, <2>1, SmallerIsLess
  <2> QED
    BY <2>2
<1>4. PICK got : got = (low + 1)..last
  OBVIOUS
<1>5. PICK wanted : wanted = {u \in got : chat[u].auth}
  OBVIOUS
<1>6. /\ pc[s] = "loop" /\ lock = s
      /\ client' = [client EXCEPT ![s] = IF got = {} THEN Asked(s) ELSE last + 1]
      /\ batch' = [batch EXCEPT ![s] = wanted]
      /\ pc' = [pc EXCEPT ![s] = IF wanted = {} THEN "loop" ELSE "fetched"]
      /\ UNCHANGED <<chat, inbox, offset, lock, mine, roster, primary, delivered,
                     unsaved, lapses>>
  <2> DEFINE L(c) == Smaller(c + Batch, Len(chat))
             G(c) == (c + 1)..L(c)
             W(c) == {u \in G(c) : chat[u].auth}
  <2>1. /\ pc[s] = "loop" /\ lock = s
        /\ client' = [client EXCEPT ![s] = IF G(confirmed') = {} THEN Asked(s)
                                                               ELSE L(confirmed') + 1]
        /\ batch' = [batch EXCEPT ![s] = W(confirmed')]
        /\ pc' = [pc EXCEPT ![s] = IF W(confirmed') = {} THEN "loop" ELSE "fetched"]
        /\ UNCHANGED <<chat, inbox, offset, lock, mine, roster, primary, delivered,
                       unsaved, lapses>>
    BY DEF Poll, Goto, telegram, files, history
  <2>2. L(low) = last /\ G(low) = got /\ W(low) = wanted
    BY <1>3, <1>4, <1>5
  <2> HIDE DEF L, G, W
  <2> QED
    BY <1>2, <2>1, <2>2
<1>7. last <= Len(chat) /\ \A u \in got : u \in Int /\ low + 1 <= u /\ u <= last
  <2>1. last <= Len(chat)
    BY <1>3
  <2>2. \A u \in got : u \in Int /\ low + 1 <= u /\ u <= last
    BY <1>2, <1>3, <1>4
  <2> QED
    BY <2>1, <2>2
<1>8. /\ got # {} => last + 1 \in Offsets /\ offset <= last + 1
      /\ wanted # {} => got # {}
      /\ wanted \subseteq Authorized /\ wanted \subseteq Updates
      /\ \A u \in wanted : offset <= u /\ u < last + 1
  <2>1. got # {} => last + 1 \in Offsets /\ offset <= last + 1
    BY <1>1, <1>2, <1>7 DEF Offsets
  <2>2. \A u \in got : u \in 1..Len(chat) /\ u \in Updates /\ offset <= u /\ u < last + 1
    BY <1>1, <1>2, <1>7 DEF Updates
  <2> QED
    BY <1>1, <1>5, <2>1, <2>2 DEF Authorized
<1>9. DataTyped'
  BY <1>1, <1>2, <1>6, <1>8 DEF DInv, DataTyped
<1>10. PlacedInv'
  <2>1. \A x \in Sessions : Placed(x)' = Placed(x)
    BY <1>6 DEF Placed
  <2> QED
    BY <1>6, <2>1 DEF DInv, PlacedInv, Authorized
<1>11. BatchInv'
  <2> SUFFICES ASSUME NEW x \in Sessions
               PROVE  /\ batch'[x] \subseteq Authorized
                      /\ pc'[x] = "fetched" =>
                           offset <= client'[x] /\ \A u \in batch'[x] : offset <= u /\ u < client'[x]
                      /\ Past(x)' => \A u \in batch'[x] \ unsaved : u < offset
                      /\ Past(x)' => \A y \in Sessions : Below(Placed(y)' \ unsaved, batch'[x])
    BY <1>6 DEF BatchInv, Authorized
  <2>1. CASE x = s
    BY <1>6, <1>8, <2>1 DEF Past, IInv, Typed, DInv, DataTyped
  <2>2. CASE x # s
    <3>1. ~Past(x) /\ pc[x] # "fetched" /\ pc'[x] = pc[x] /\ batch'[x] = batch[x]
      BY <1>6, <2>2 DEF IInv, Typed, OnePoller, Routing, Past, DInv, DataTyped
    <3> QED
      BY <3>1 DEF Past, DInv, BatchInv
  <2> QED
    BY <2>1, <2>2
<1>12. OrderInv'
  BY <1>6 DEF DInv, OrderInv, Precedes, Reads, IInv, Typed
<1> QED
  BY <1>9, <1>10, <1>11, <1>12 DEF DInv

\* offset.json moves past the batch, or nothing in the batch is saved.
LEMMA SaveStep ==
    ASSUME IInv, DInv, NEW s \in Sessions, SaveOffset(s)
    PROVE  DInv'
<1>1. /\ pc[s] = "fetched" /\ lock = s
      /\ \/ offset' = client[s] /\ unsaved' = unsaved /\ lapses' = lapses
         \/ /\ offset' = offset /\ unsaved' = unsaved \cup batch[s]
            /\ lapses' = lapses + 1 /\ lapses < MaxLapses
      /\ pc' = [pc EXCEPT ![s] = "saved"]
      /\ UNCHANGED <<chat, confirmed, client, inbox, lock, batch, mine, roster, primary,
                     delivered>>
  BY DEF SaveOffset, Goto, telegram, polling, IInv, OnePoller, Routing
<1>2. /\ offset <= client[s] /\ client[s] \in Offsets /\ offset \in Offsets
      /\ \A u \in batch[s] : offset <= u /\ u < client[s] /\ u \in Updates
  BY <1>1 DEF DInv, DataTyped, BatchInv
<1>3. \A x \in Sessions : Placed(x)' = Placed(x) /\ Placed(x) \subseteq Nat
                          /\ \A u \in Placed(x) \ unsaved : u < offset
  <2>1. \A x \in Sessions : Placed(x)' = Placed(x)
    BY <1>1 DEF Placed
  <2> QED
    BY <2>1 DEF DInv, PlacedInv, Authorized, DataTyped
<1>4. unsaved \subseteq unsaved'
  BY <1>1
<1>5. DataTyped'
  <2>1. unsaved' \subseteq Updates /\ offset' \in Offsets
    BY <1>1, <1>2 DEF DInv, DataTyped
  <2>2. lapses' \in 0..MaxLapses
    BY <1>1, BoundsAssumption DEF DInv, DataTyped
  <2> QED
    BY <1>1, <2>1, <2>2 DEF DInv, DataTyped
<1>6. PlacedInv'
  <2>1. \A x \in Sessions : \A u \in Placed(x) \ unsaved : u < offset'
    BY <1>1, <1>2, <1>3 DEF Offsets
  <2> QED
    BY <1>1, <1>3, <1>4, <2>1 DEF DInv, PlacedInv, Authorized
<1>7. BatchInv'
  <2> SUFFICES ASSUME NEW x \in Sessions
               PROVE  /\ pc'[x] # "fetched"
                      /\ Past(x)' => \A u \in batch[x] \ unsaved' : u < offset'
                      /\ Past(x)' => \A y \in Sessions : Below(Placed(y) \ unsaved', batch[x])
    BY <1>1, <1>3 DEF DInv, BatchInv, Authorized
  <2>1. CASE x = s
    <3>1. \A y \in Sessions : Below(Placed(y) \ unsaved, batch[s])
      BY <1>2, <1>3 DEF Below, Offsets, Updates
    <3>2. \A y \in Sessions : Below(Placed(y) \ unsaved', batch[s])
      BY <1>4, <3>1 DEF Below
    <3>3. \A u \in batch[s] \ unsaved' : u < offset'
      BY <1>1, <1>2
    <3> QED
      BY <1>1, <2>1, <3>2, <3>3 DEF IInv, Typed
  <2>2. CASE x # s
    BY <1>1, <2>2 DEF IInv, Typed, OnePoller, Routing, Past
  <2> QED
    BY <2>1, <2>2
<1>8. OrderInv'
  <2> SUFFICES ASSUME NEW x \in Sessions
               PROVE  /\ Ascending(mine[x], unsaved') /\ Ascending(inbox[x], unsaved')
                      /\ Precedes(delivered[x], mine[x])'
                      /\ Reads(x)' =>
                           /\ Precedes(delivered[x], inbox[x])'
                           /\ pc'[x] # "unlink" => Precedes(mine[x], inbox[x])'
                      /\ lock = x => pc'[x] \notin {"reader", "unlink"}
                      /\ pc'[x] \in {"unlink", "process"} => mine[x] # <<>>
    BY <1>1 DEF OrderInv, Precedes
  <2>1. Ascending(mine[x], unsaved') /\ Ascending(inbox[x], unsaved')
    BY <1>4 DEF DInv, OrderInv, Ascending
  <2>2. /\ Precedes(delivered[x], mine[x]) => Precedes(delivered[x], mine[x])'
        /\ Precedes(delivered[x], inbox[x]) => Precedes(delivered[x], inbox[x])'
        /\ Precedes(mine[x], inbox[x]) => Precedes(mine[x], inbox[x])'
    BY <1>1, <1>4 DEF Precedes, Below
  <2>3. Reads(x)' => Reads(x) /\ pc'[x] = pc[x]
    BY <1>1 DEF Reads, IInv, Typed
  <2> QED
    BY <1>1, <2>1, <2>2, <2>3 DEF DInv, OrderInv, IInv, Typed
<1> QED
  BY <1>5, <1>6, <1>7, <1>8 DEF DInv

LEMMA NatUpdates == Updates \subseteq Nat
BY DEF Updates

\* A routed update comes before what is left of the batch; if it is saved it comes
\* after everything saved in anybody's hands.
LEMMA RouteStep ==
    ASSUME IInv, DInv, NEW s \in Sessions, Route(s)
    PROVE  DInv'
<1>1. /\ pc[s] = "route" /\ lock = s
      /\ UNCHANGED <<chat, confirmed, client, offset, lock, pc, roster, primary, delivered,
                     unsaved, lapses>>
  BY DEF Route, telegram, history, IInv, OnePoller, Routing
<1>2. PICK u \in batch[s] :
        /\ \A v \in batch[s] : u <= v
        /\ batch' = [batch EXCEPT ![s] = @ \ {u}]
        /\ \/ mine' = [mine EXCEPT ![s] = Append(@, u)] /\ inbox' = inbox
           \/ /\ \E t \in Sessions \ {s} : inbox' = [inbox EXCEPT ![t] = Append(@, u)]
              /\ mine' = mine
           \/ mine' = mine /\ inbox' = inbox
  <2>1. \A u : Target(s, u) \in Sessions \cup {None}
    BY DEF DInv, DataTyped, Target
  <2> QED
    BY <2>1 DEF Route, Written
<1>3. /\ u \in Authorized /\ u \in Updates /\ u \in Nat
      /\ u \notin unsaved => u < offset
      /\ \A x \in Sessions : Below(Placed(x) \ unsaved, {u})
      /\ \A v \in batch[s] \ {u} : u < v
  BY <1>1, <1>2 DEF DInv, DataTyped, BatchInv, Past, Below, Updates
<1>4. DataTyped'
  <2>1. \A x \in Sessions : /\ Append(mine[x], u) \in Seq(Updates)
                            /\ Append(inbox[x], u) \in Seq(Updates)
    BY <1>3 DEF DInv, DataTyped
  <2>2. mine' \in [Sessions -> Seq(Updates)]
    BY <1>2, <2>1 DEF DInv, DataTyped
  <2>3. inbox' \in [Sessions -> Seq(Updates)]
    BY <1>2, <2>1 DEF DInv, DataTyped
  <2>4. batch' \in [Sessions -> SUBSET Updates]
    BY <1>2 DEF DInv, DataTyped
  <2> QED
    BY <1>1, <2>2, <2>3, <2>4 DEF DInv, DataTyped
<1>5. \A x \in Sessions : /\ Placed(x) \subseteq Placed(x)'
                          /\ Placed(x)' \subseteq Placed(x) \cup {u}
                          /\ u \notin Placed(x) \ unsaved
  <2> TAKE x \in Sessions
  <2>1. u \notin Placed(x) \ unsaved
    BY <1>3 DEF Below
  <2>2. /\ ToSet(Append(mine[x], u)) = ToSet(mine[x]) \cup {u}
        /\ ToSet(Append(inbox[x], u)) = ToSet(inbox[x]) \cup {u}
    BY <1>3, AppendSet DEF DInv, DataTyped
  <2>3. \/ mine'[x] = mine[x] \/ mine'[x] = Append(mine[x], u)
    BY <1>2 DEF DInv, DataTyped
  <2>4. \/ inbox'[x] = inbox[x] \/ inbox'[x] = Append(inbox[x], u)
    BY <1>2 DEF DInv, DataTyped
  <2> QED
    BY <1>1, <2>1, <2>2, <2>3, <2>4 DEF Placed
<1>6. \A x, y \in Sessions : u \in Placed(x)' \cap Placed(y)' => x = y \/ u \in unsaved
  <2>1. \A x \in Sessions : mine'[x] = mine[x] /\ inbox'[x] = inbox[x]
                             => u \notin Placed(x)' \ unsaved
    BY <1>1, <1>5 DEF Placed
  <2> QED
    BY <1>2, <2>1 DEF DInv, DataTyped
<1>7. PlacedInv'
  BY <1>1, <1>3, <1>5, <1>6 DEF DInv, PlacedInv, Authorized
<1>8. BatchInv'
  <2>1. \A x \in Sessions \ {s} : ~Past(x)' /\ pc'[x] # "fetched" /\ batch'[x] = batch[x]
    BY <1>1, <1>2 DEF IInv, OnePoller, Routing, Past, DInv, DataTyped
  <2>2. batch'[s] = batch[s] \ {u} /\ batch[s] \subseteq Nat
    BY <1>2 DEF DInv, DataTyped, Updates
  <2>3. \A x \in Sessions : Below(Placed(x)' \ unsaved, batch'[s])
    BY <1>1, <1>3, <1>5, <2>2 DEF DInv, BatchInv, Past, Below
  <2> QED
    BY <1>1, <2>1, <2>2, <2>3 DEF DInv, BatchInv, Past, Authorized
<1>9. OrderInv'
  <2> SUFFICES ASSUME NEW x \in Sessions
               PROVE  /\ Ascending(mine'[x], unsaved) /\ Ascending(inbox'[x], unsaved)
                      /\ Precedes(delivered[x], mine'[x])
                      /\ Reads(x) =>
                           /\ Precedes(delivered[x], inbox'[x])
                           /\ pc[x] # "unlink" => Precedes(mine'[x], inbox'[x])
                      /\ pc[x] \in {"unlink", "process"} => mine'[x] # <<>>
    BY <1>1 DEF DInv, OrderInv, Precedes, Reads
  <2>1. /\ ToSet(Append(mine[x], u)) = ToSet(mine[x]) \cup {u}
        /\ ToSet(Append(inbox[x], u)) = ToSet(inbox[x]) \cup {u}
    BY <1>3, AppendSet DEF DInv, DataTyped
  <2>2. /\ Below(ToSet(delivered[x]) \ unsaved, {u})
        /\ Below(ToSet(mine[x]) \ unsaved, {u}) /\ Below(ToSet(inbox[x]) \ unsaved, {u})
    BY <1>3 DEF Placed, Below
  <2>3. /\ Ascending(Append(mine[x], u), unsaved)
        /\ Ascending(Append(inbox[x], u), unsaved)
    <3>1. mine[x] \in Seq(Nat) /\ inbox[x] \in Seq(Nat)
      BY NatUpdates, NatSequence DEF DInv, DataTyped
    <3> QED
      BY <1>3, <2>2, <3>1, AppendAscending DEF DInv, OrderInv
  <2>4. CASE mine'[x] = mine[x] /\ inbox'[x] = inbox[x]
    BY <2>4 DEF DInv, OrderInv
  <2>5. CASE x = s /\ mine'[x] = Append(mine[x], u) /\ inbox'[x] = inbox[x]
    BY <1>1, <2>1, <2>2, <2>3, <2>5 DEF DInv, OrderInv, Reads, Precedes, Below
  <2>6. CASE inbox'[x] = Append(inbox[x], u) /\ mine'[x] = mine[x]
    BY <2>1, <2>2, <2>3, <2>6 DEF DInv, OrderInv, Precedes, Below
  <2> QED
    BY <1>2, <2>4, <2>5, <2>6 DEF DInv, DataTyped
<1> QED
  BY <1>4, <1>7, <1>8, <1>9 DEF DInv

\* A session takes its inbox into its hands; the file is still there.
LEMMA ReadInboxStep ==
    ASSUME IInv, DInv, NEW s \in Sessions, ReadInbox(s)
    PROVE  DInv'
<1>1. /\ pc[s] = "reader" /\ lock # s /\ inbox[s] # <<>>
      /\ mine' = [mine EXCEPT ![s] = inbox[s]]
      /\ pc' = [pc EXCEPT ![s] = "unlink"]
      /\ UNCHANGED <<chat, confirmed, client, offset, inbox, lock, batch, roster, primary,
                     delivered, unsaved, lapses>>
  BY DEF ReadInbox, Goto, telegram, files, history, DInv, OrderInv
<1>2. DataTyped'
  BY <1>1 DEF DInv, DataTyped
<1>3. \A x \in Sessions : Placed(x)' \subseteq Placed(x)
  BY <1>1 DEF Placed, DInv, DataTyped
<1>4. PlacedInv'
  BY <1>1, <1>3 DEF DInv, PlacedInv, Authorized
<1>5. BatchInv'
  BY <1>1, <1>3 DEF DInv, BatchInv, Past, Below, Authorized, IInv, Typed
<1>6. OrderInv'
  BY <1>1 DEF DInv, DataTyped, OrderInv, Precedes, Reads, IInv, Typed
<1> QED
  BY <1>2, <1>4, <1>5, <1>6 DEF DInv

\* A session processes the next update in its hands.
LEMMA ProcessStep ==
    ASSUME IInv, DInv, NEW s \in Sessions, Process(s) \/ ProcessFails(s)
    PROVE  DInv'
<1>1. PICK rest \in {Tail(mine[s]), <<>>}, to \in {"loop", "process"} :
        /\ pc[s] = "process" /\ mine[s] # <<>>
        /\ delivered' = [delivered EXCEPT ![s] = Append(@, Head(mine[s]))]
        /\ mine' = [mine EXCEPT ![s] = rest]
        /\ pc' = [pc EXCEPT ![s] = to]
        /\ to = "process" => rest # <<>>
        /\ UNCHANGED <<chat, confirmed, client, offset, inbox, lock, batch, roster, primary,
                       unsaved, lapses>>
  <2>1. pc[s] = "process" /\ mine[s] # <<>> /\ mine[s] \in Seq(Updates)
    BY DEF Process, ProcessFails, DInv, DataTyped, OrderInv
  <2>2. Len(mine[s]) # 1 => Tail(mine[s]) # <<>>
    BY <2>1, LongTail
  <2> QED
    BY <2>1, <2>2 DEF Process, ProcessFails, Goto, telegram, files
<1>2. PICK u \in Updates : u = Head(mine[s])
  BY <1>1 DEF DInv, DataTyped
<1>3. /\ u \in ToSet(mine[s]) /\ ToSet(rest) \subseteq ToSet(mine[s])
      /\ rest \in Seq(Updates) /\ Ascending(rest, unsaved)
      /\ Below({u} \ unsaved, ToSet(rest) \ unsaved)
  <2>1. mine[s] \in Seq(Updates) /\ mine[s] \in Seq(Nat) /\ Ascending(mine[s], unsaved)
    BY NatUpdates, NatSequence DEF DInv, DataTyped, OrderInv
  <2> QED
    <3>1. /\ Head(mine[s]) \in ToSet(mine[s]) /\ ToSet(Tail(mine[s])) \subseteq ToSet(mine[s])
          /\ Tail(mine[s]) \in Seq(Updates)
      BY <1>1, <2>1, TailSet
    <3>2. /\ Ascending(Tail(mine[s]), unsaved)
          /\ Below({Head(mine[s])} \ unsaved, ToSet(Tail(mine[s])) \ unsaved)
      BY <1>1, <2>1, TailAscending
    <3>3. CASE rest = Tail(mine[s])
      BY <1>2, <3>1, <3>2, <3>3
    <3>4. CASE rest = <<>>
      BY <1>2, <3>1, <3>4, EmptySet DEF Below
    <3> QED
      BY <1>1, <3>3, <3>4
<1>4. ToSet(delivered'[s]) = ToSet(delivered[s]) \cup {u}
  BY <1>1, <1>2, AppendSet DEF DInv, DataTyped
<1>5. DataTyped'
  BY <1>1, <1>2, <1>3 DEF DInv, DataTyped
<1>6. \A x \in Sessions : Placed(x)' \subseteq Placed(x)
  BY <1>1, <1>3, <1>4 DEF Placed, DInv, DataTyped
<1>7. PlacedInv'
  BY <1>1, <1>6 DEF DInv, PlacedInv, Authorized
<1>8. BatchInv'
  BY <1>1, <1>6 DEF DInv, BatchInv, Past, Below, Authorized, IInv, Typed
<1>9. OrderInv'
  <2> SUFFICES ASSUME NEW x \in Sessions
               PROVE  /\ Ascending(mine'[x], unsaved)
                      /\ Precedes(delivered'[x], mine'[x])
                      /\ Reads(x)' =>
                           /\ Precedes(delivered'[x], inbox[x])
                           /\ pc'[x] # "unlink" => Precedes(mine'[x], inbox[x])
                      /\ lock = x => pc'[x] \notin {"reader", "unlink"}
                      /\ pc'[x] \in {"unlink", "process"} => mine'[x] # <<>>
    BY <1>1 DEF DInv, OrderInv, Precedes
  <2>1. CASE x # s
    BY <1>1, <2>1 DEF DInv, DataTyped, OrderInv, Reads, IInv, Typed
  <2>2. CASE x = s
    <3>1. mine'[s] = rest /\ pc'[s] = to /\ (Reads(s)' => Reads(s))
      BY <1>1 DEF DInv, DataTyped, IInv, Typed, Reads
    <3> QED
      BY <1>1, <1>3, <1>4, <2>2, <3>1 DEF DInv, OrderInv, Precedes, Below
  <2> QED
    BY <2>1, <2>2
<1> QED
  BY <1>5, <1>7, <1>8, <1>9 DEF DInv

\* The other steps of a session neither add to anybody's hands nor change their
\* order.
LEMMA QuietStep ==
    ASSUME DInv,
           UNCHANGED <<chat, confirmed, inbox, offset, client, batch, mine, delivered,
                       unsaved, lapses>>,
           roster' \in [Sessions -> SUBSET Sessions],
           primary' \in [Sessions -> Sessions \cup {None}],
           \A x \in Sessions :
             /\ pc'[x] = "fetched" => pc[x] = "fetched"
             /\ Past(x)' => Past(x)
             /\ Reads(x)' => Reads(x)
             /\ pc'[x] \in {"unlink", "process"} => mine[x] # <<>>
             /\ pc[x] = "unlink" => pc'[x] = "unlink"
             /\ lock' = x => pc'[x] \notin {"reader", "unlink"}
    PROVE  DInv'
<1>1. DataTyped'
  BY DEF DInv, DataTyped
<1> QED
  BY <1>1, ShrinkStep

LEMMA LaunchDelivery ==
    ASSUME IInv, DInv, NEW s \in Sessions, Register(s) \/ Launch(s)
    PROVE  DInv'
<1> USE DEF Goto
<1>1. CASE RemoveInbox(s)
  <2>1. PICK x \in Sessions : inbox' = [inbox EXCEPT ![x] = <<>>]
    BY <1>1 DEF RemoveInbox, IInv, Typed
  <2>2. UNCHANGED <<chat, confirmed, offset, client, batch, mine, roster, primary,
                    delivered, pc, lock, unsaved, lapses>>
    BY <1>1 DEF RemoveInbox, telegram, polling, history
  <2>3. DataTyped'
    BY <2>1, <2>2, EmptyTyped DEF DInv, DataTyped
  <2>4. \A y \in Sessions : inbox'[y] = inbox[y] \/ inbox'[y] = <<>>
    BY <2>1 DEF DInv, DataTyped
  <2> QED
    BY <2>2, <2>3, <2>4, ShrinkStep DEF DInv, OrderInv, Past, Reads
<1>2. ASSUME Register(s) \/ Start(s) \/ Started(s) \/ RemoveSeat(s)
             \/ \E x \in Sessions : SweepVisit(s, x)
      PROVE  DInv'
  <2>1. /\ UNCHANGED <<chat, confirmed, inbox, offset, client, batch, mine, roster, primary,
                       delivered, unsaved, lapses>>
        /\ \/ /\ \/ pc[s] = "off" /\ pc' = [pc EXCEPT ![s] = "count"]
                 \/ pc[s] = "count" /\ pc' = [pc EXCEPT ![s] = "clean"]
                 \/ pc' = pc
              /\ lock' = lock
           \/ /\ pc[s] = "clean" /\ pc' = [pc EXCEPT ![s] = "loop"]
              /\ lock' = IF lock = None THEN s ELSE lock
    BY <1>2 DEF Register, Start, Started, RemoveSeat, SweepVisit, telegram, files,
       polling, history
  <2>2. \A x \in Sessions : \/ pc'[x] = pc[x]
                            \/ pc[x] \in {"off", "count", "clean"}
                               /\ pc'[x] \in {"count", "clean", "loop"}
    BY <2>1 DEF IInv, Typed
  <2>3. lock' = lock \/ (lock' = s /\ lock = None /\ pc'[s] = "loop")
    BY <2>1 DEF IInv, Typed
  <2> QED
    BY <2>1, <2>2, <2>3, QuietStep, SessionsAssumption DEF DInv, DataTyped, OrderInv, Past, Reads
<1> QED
  BY <1>1, <1>2 DEF Launch

LEMMA PollFailsDelivery ==
    ASSUME IInv, DInv, NEW s \in Sessions, PollFails(s)
    PROVE  DInv'
<1>1. /\ pc[s] = "loop"
      /\ client' = [client EXCEPT ![s] = Asked(s)]
      /\ confirmed' = confirmed \/ confirmed' = Larger(confirmed, Asked(s) - 1)
      /\ UNCHANGED <<chat, inbox, offset, lock, pc, batch, mine, roster, primary, delivered,
                     unsaved, lapses>>
  BY DEF PollFails, telegram, files, history
<1>2. /\ Asked(s) \in Offsets
      /\ confirmed \in 0..MaxUpdates /\ Larger(confirmed, Asked(s) - 1) \in 0..MaxUpdates
  BY BoundsAssumption DEF DInv, DataTyped, Asked, Offsets, Larger
<1>3. DataTyped'
  BY <1>1, <1>2 DEF DInv, DataTyped
<1>4. \A x \in Sessions : Placed(x)' = Placed(x) /\ (x # s => client'[x] = client[x])
  BY <1>1 DEF Placed, DInv, DataTyped
<1>5. PlacedInv' /\ BatchInv'
  BY <1>1, <1>4 DEF DInv, PlacedInv, BatchInv, Past, Authorized
<1>6. OrderInv'
  BY <1>1 DEF DInv, OrderInv, Precedes, Reads
<1> QED
  BY <1>3, <1>5, <1>6 DEF DInv

LEMMA PollingDelivery ==
    ASSUME IInv, DInv, NEW s \in Sessions, PollingLoop(s)
    PROVE  DInv'
<1> USE DEF Goto
<1>1. CASE UnlinkInbox(s) \/ UnlinkInboxFails(s)
  <2>1. /\ pc[s] = "unlink" /\ mine[s] # <<>> /\ lock # s
        /\ \/ /\ inbox' = [inbox EXCEPT ![s] = <<>>] /\ mine' = mine
              /\ pc' = [pc EXCEPT ![s] = "process"]
           \/ /\ mine' = [mine EXCEPT ![s] = <<>>] /\ inbox' = inbox
              /\ pc' = [pc EXCEPT ![s] = "loop"]
        /\ UNCHANGED <<chat, confirmed, offset, client, batch, roster, primary, delivered,
                       lock, unsaved, lapses>>
    BY <1>1 DEF UnlinkInbox, UnlinkInboxFails, telegram, files, polling, history,
       DInv, OrderInv
  <2>2. DataTyped'
    BY <2>1, EmptyTyped DEF DInv, DataTyped
  <2> QED
    <3>1. \A x \in Sessions \ {s} : /\ mine'[x] = mine[x] /\ inbox'[x] = inbox[x]
                                    /\ pc'[x] = pc[x]
      BY <2>1 DEF DInv, DataTyped, IInv, Typed
    <3>2. \/ /\ mine'[s] = mine[s] /\ inbox'[s] = <<>> /\ pc'[s] = "process"
          \/ mine'[s] = <<>> /\ inbox'[s] = inbox[s] /\ pc'[s] = "loop"
      BY <2>1 DEF DInv, DataTyped, IInv, Typed
    <3> QED
      BY <2>1, <2>2, <3>1, <3>2, ShrinkStep DEF DInv, OrderInv, Past, Reads
<1>2. CASE \/ Promote(s) \/ ReadTable(s) \/ ReadRoster(s) \/ PickPrimary(s)
           \/ Routed(s) \/ Denied(s) \/ NoInbox(s)
  <2>1. /\ UNCHANGED <<chat, confirmed, inbox, offset, client, batch, mine, delivered,
                       unsaved, lapses>>
        /\ \/ pc[s] = "loop" /\ lock' = s /\ lock = None /\ pc' = pc
           \/ /\ lock' = lock
              /\ \/ Past(s) /\ pc' = [pc EXCEPT ![s] = "tabled"]
                 \/ Past(s) /\ pc' = [pc EXCEPT ![s] = "rostered"]
                 \/ Past(s) /\ pc' = [pc EXCEPT ![s] = "route"]
                 \/ /\ Past(s) /\ mine[s] # <<>>
                    /\ pc' = [pc EXCEPT ![s] = "process"]
                 \/ Past(s) /\ pc' = [pc EXCEPT ![s] = "loop"]
                 \/ pc[s] = "loop" /\ lock # s /\ pc' = [pc EXCEPT ![s] = "reader"]
                 \/ pc[s] = "reader" /\ pc' = [pc EXCEPT ![s] = "loop"]
    BY <1>2 DEF Promote, ReadTable, ReadRoster, PickPrimary, Routed, Denied, NoInbox,
       telegram, files, polling, history, Past
  <2>2. roster' \in [Sessions -> SUBSET Sessions]
    BY <1>2 DEF Promote, ReadTable, ReadRoster, PickPrimary, Routed, Denied, NoInbox,
       polling, SeatedSessions, DInv, DataTyped
  <2>3. primary' \in [Sessions -> Sessions \cup {None}]
    <3>1. CASE PickPrimary(s)
      <4>1. PICK x \in Sessions \cup {None} : primary' = [primary EXCEPT ![s] = x]
        BY <3>1 DEF PickPrimary, DInv, DataTyped
      <4> QED
        BY <4>1 DEF DInv, DataTyped
    <3>2. CASE ~PickPrimary(s)
      BY <1>2, <3>2 DEF Promote, ReadTable, ReadRoster, Routed, Denied, NoInbox,
         polling, DInv, DataTyped
    <3> QED
      BY <3>1, <3>2
  <2>4. Past(s) => lock = s
    BY DEF Past, IInv, OnePoller, Routing
  <2>5. \A x \in Sessions \ {s} : pc'[x] = pc[x]
    BY <2>1 DEF IInv, Typed
  <2>6. \/ pc[s] = "loop" /\ lock' = s /\ lock = None /\ pc'[s] = pc[s]
        \/ /\ lock' = lock
           /\ \/ Past(s) /\ pc'[s] \in {"tabled", "rostered", "route", "loop"}
              \/ Past(s) /\ mine[s] # <<>> /\ pc'[s] = "process"
              \/ pc[s] = "loop" /\ lock # s /\ pc'[s] = "reader"
              \/ pc[s] = "reader" /\ pc'[s] = "loop"
    BY <2>1 DEF IInv, Typed
  <2> QED
    BY <2>1, <2>2, <2>3, <2>4, <2>5, <2>6, QuietStep, SessionsAssumption
       DEF DInv, OrderInv, Past, Reads
<1> QED
  BY <1>1, <1>2, PollStep, PollFailsDelivery, SaveStep, RouteStep, ReadInboxStep,
     ProcessStep DEF PollingLoop

LEMMA TaskDelivery ==
    ASSUME IInv, DInv, NEW s \in Sessions,
           Send(s) \/ RegisterMessage(s) \/ GoStale(s) \/ Heartbeat(s)
    PROVE  DInv'
<1>1. UNCHANGED <<chat, confirmed, inbox, offset, client, batch, mine, delivered, roster,
                  primary, pc, lock, unsaved, lapses>>
  BY DEF Send, RegisterMessage, RegisterRead, RegisterWrite, GoStale, Heartbeat, BeatCheck,
     BeatRead, BeatRecreate, BeatWrite, telegram, files, polling, history
<1> QED
  BY <1>1, QuietStep DEF DInv, DataTyped, OrderInv, Past, Reads

LEMMA EndDelivery ==
    ASSUME IInv, DInv, NEW s \in Sessions, Stop(s) \/ Shutdown(s) \/ Crash(s)
    PROVE  DInv'
<1>1. PICK to \in {"release", "discard", "forget", "rewrite", "unregister", "gone"} :
        pc' = [pc EXCEPT ![s] = to]
  BY DEF Stop, Shutdown, StopRelease, StopDiscard, StopReadTable, StopWriteTable,
     Unregister, Crash, Goto
<1>2. UNCHANGED <<chat, confirmed, offset, client, delivered, unsaved, lapses>>
  BY DEF Stop, Shutdown, StopRelease, StopDiscard, StopReadTable, StopWriteTable,
     Unregister, Crash, telegram, files, polling, history
<1>3. lock' = lock \/ (lock = s /\ lock' = None)
  BY DEF Stop, Shutdown, StopRelease, StopDiscard, StopReadTable, StopWriteTable,
     Unregister, Crash, files
<1>4. /\ inbox' = inbox \/ inbox' = [inbox EXCEPT ![s] = <<>>]
      /\ mine' = mine \/ mine' = [mine EXCEPT ![s] = <<>>]
      /\ batch' = batch \/ batch' = [batch EXCEPT ![s] = {}]
      /\ roster' = roster \/ roster' = [roster EXCEPT ![s] = {}]
      /\ primary' = primary \/ primary' = [primary EXCEPT ![s] = None]
  BY DEF Stop, Shutdown, StopRelease, StopDiscard, StopReadTable, StopWriteTable,
     Unregister, Crash, files, polling
<1>5. DataTyped'
  <2>1. inbox' \in [Sessions -> Seq(Updates)] /\ mine' \in [Sessions -> Seq(Updates)]
    BY <1>4, EmptyTyped DEF DInv, DataTyped
  <2>2. batch' \in [Sessions -> SUBSET Updates]
    BY <1>4 DEF DInv, DataTyped
  <2>3. /\ roster' \in [Sessions -> SUBSET Sessions]
        /\ primary' \in [Sessions -> Sessions \cup {None}]
    BY <1>4 DEF DInv, DataTyped
  <2> QED
    BY <1>2, <2>1, <2>2, <2>3 DEF DInv, DataTyped
<1>6. \A x \in Sessions : /\ inbox'[x] = inbox[x] \/ inbox'[x] = <<>>
                          /\ mine'[x] = mine[x] \/ (x = s /\ mine'[x] = <<>>)
                          /\ batch'[x] = batch[x] \/ batch'[x] = {}
  BY <1>4 DEF DInv, DataTyped
<1>7. \A x \in Sessions : x # s => pc'[x] = pc[x]
  BY <1>1 DEF IInv, Typed
<1>8. pc'[s] = to /\ ~Reads(s)' /\ ~Past(s)'
  BY <1>1 DEF IInv, Typed, Reads, Past
<1> QED
  BY <1>2, <1>3, <1>5, <1>6, <1>7, <1>8, ShrinkStep, SessionsAssumption
     DEF DInv, OrderInv, Past, Reads

LEMMA AppendedEntry ==
    ASSUME (\E m \in {NoReply} \cup Messages : UserWrites(m)) \/ StrangerWrites
    PROVE  \E e \in Entries : chat' = Append(chat, e)
<1>1. ASSUME NEW m \in {NoReply} \cup Messages, UserWrites(m)
      PROVE  \E e \in Entries : chat' = Append(chat, e)
  <2> DEFINE due == m \in ToSet(registered)
  <2>1. due \in BOOLEAN
    OBVIOUS
  <2>2. chat' = Append(chat, [auth |-> TRUE, re |-> m, due |-> due])
    BY <1>1 DEF UserWrites
  <2> HIDE DEF due
  <2> QED
    BY <2>1, <2>2 DEF Entries
<1>2. ASSUME StrangerWrites
      PROVE  \E e \in Entries : chat' = Append(chat, e)
  BY <1>2 DEF StrangerWrites, Entries
<1> QED
  BY <1>1, <1>2

LEMMA DInvStep ==
    ASSUME IInv, DInv, [Next]_vars
    PROVE  DInv'
<1>1. CASE UNCHANGED vars
  BY <1>1, QuietStep
     DEF vars, telegram, files, polling, history, DInv, DataTyped, OrderInv, Past, Reads
<1>2. CASE (\E m \in {NoReply} \cup Messages : UserWrites(m)) \/ StrangerWrites
  <2>1. /\ UNCHANGED <<confirmed, files, pc, polling, delivered, unsaved, lapses>>
        /\ Len(chat) < MaxUpdates
    BY <1>2 DEF UserWrites, StrangerWrites, history
  <2>2. PICK e \in Entries : chat' = Append(chat, e)
    BY <1>2, AppendedEntry
  <2> QED
    BY <2>1, <2>2, ChatStep
<1>3. ASSUME NEW s \in Sessions,
             \/ Register(s) \/ Launch(s) \/ PollingLoop(s)
             \/ Send(s) \/ RegisterMessage(s)
             \/ GoStale(s) \/ Heartbeat(s)
             \/ Stop(s) \/ Shutdown(s) \/ Crash(s)
      PROVE  DInv'
  BY <1>3, LaunchDelivery, PollingDelivery, TaskDelivery, EndDelivery
<1> QED
  BY <1>1, <1>2, <1>3 DEF Next

LEMMA DeliveryInvariant == Spec => [](IInv /\ DInv)
<1>1. IInv /\ DInv /\ [Next]_vars => (IInv /\ DInv)'
  BY IInvStep, DInvStep
<1> QED
  BY <1>1, InitIInv, InitDInv, PTL DEF Spec

-----------------------------------------------------------------------------
(* The refinement, step by step *)

Posted == [u \in DOMAIN chat |-> chat[u].auth]

LEMMA DeliveryStarts == Init => Delivery!Init
<1> SUFFICES ASSUME Init PROVE Delivery!Init
  OBVIOUS
<1>1. Posted = <<>>
  BY DEF Init, Posted
<1> QED
  BY <1>1 DEF Init, Delivery!Init, Posted

LEMMA PostStep ==
    ASSUME DInv, Len(chat) < MaxUpdates, UNCHANGED <<delivered, unsaved>>,
           NEW e \in Entries, chat' = Append(chat, e)
    PROVE  Delivery!Post
<1>1. /\ DOMAIN chat = 1..Len(chat) /\ Len(chat) \in Nat
      /\ \A u \in DOMAIN chat : chat[u].auth \in BOOLEAN
  <2>1. DOMAIN chat = 1..Len(chat) /\ Len(chat) \in Nat
    BY DEF DInv, DataTyped
  <2>2. \A u \in 1..Len(chat) : chat[u] \in Entries
    BY DEF DInv, DataTyped
  <2> QED
    BY <2>1, <2>2 DEF Entries
<1>2. Posted \in Seq(BOOLEAN) /\ Len(Posted) = Len(chat)
  BY <1>1 DEF Posted
<1> e.auth \in BOOLEAN
  BY DEF Entries
<1>3. Posted' = Append(Posted, e.auth)
  <2>1. /\ DOMAIN chat' = 1..(Len(chat) + 1) /\ chat'[Len(chat) + 1] = e
        /\ \A u \in 1..Len(chat) : chat'[u] = chat[u]
    BY DEF DInv, DataTyped
  <2>2. DOMAIN Posted' = 1..(Len(chat) + 1) /\ DOMAIN Append(Posted, e.auth) = 1..(Len(chat) + 1)
    BY <1>1, <1>2, <2>1 DEF Posted
  <2>3. \A u \in 1..(Len(chat) + 1) : Posted'[u] = Append(Posted, e.auth)[u]
    BY <1>1, <1>2, <2>1 DEF Posted
  <2> QED
    BY <1>1, <1>2, <2>2, <2>3 DEF Posted
<1> QED
  BY <1>2, <1>3 DEF Delivery!Post, Posted

\* A failed write of offset.json makes the batch repeatable: what anybody has of it
\* already was.
LEMMA LoosenStep ==
    ASSUME IInv, DInv, NEW s \in Sessions, SaveOffset(s)
    PROVE  [Delivery!Next]_(Delivery!vars)
<1>1. /\ pc[s] = "fetched"
      /\ unsaved' = unsaved \/ unsaved' = unsaved \cup batch[s]
      /\ UNCHANGED <<chat, delivered>>
  BY DEF SaveOffset, telegram
<1>2. \A x \in Sessions : Placed(x) \cap batch[s] \subseteq unsaved
  <2> SUFFICES ASSUME NEW x \in Sessions, NEW u \in Placed(x) \cap batch[s], u \notin unsaved
               PROVE  FALSE
    OBVIOUS
  <2>1. u < offset /\ offset <= u
    BY <1>1 DEF DInv, PlacedInv, BatchInv
  <2>2. u \in Nat /\ offset \in Nat
    BY DEF DInv, DataTyped, Updates, Offsets
  <2> QED
    BY <2>1, <2>2
<1>3. batch[s] \cap Delivery!Handed \subseteq unsaved
  BY <1>2 DEF Delivery!Handed, Delivery!ToSet, ToSet, Placed
<1>4. batch[s] \in SUBSET (DOMAIN Posted)
  BY DEF DInv, BatchInv, Authorized, Posted
<1>5. CASE unsaved' = unsaved
  BY <1>1, <1>5 DEF Delivery!vars
<1>6. CASE unsaved' = unsaved \cup batch[s]
  <2>1. Delivery!Loosen(batch[s])
    BY <1>1, <1>3, <1>6 DEF Delivery!Loosen
  <2> QED
    BY <1>4, <2>1 DEF Delivery!Next, Posted
<1> QED
  BY <1>1, <1>5, <1>6

\* Processing an update delivers it: if it is saved nobody has processed it, and it
\* comes after every saved update that the session processed.
LEMMA DeliverStep ==
    ASSUME DInv, NEW s \in Sessions, Process(s) \/ ProcessFails(s)
    PROVE  \E u \in DOMAIN Posted : Delivery!Deliver(s, u)
<1>1. mine[s] # <<>> /\ mine[s] \in Seq(Updates)
  BY DEF Process, ProcessFails, DInv, DataTyped, OrderInv
<1>2. PICK u \in Updates : u = Head(mine[s]) /\ u \in ToSet(mine[s])
  BY <1>1, TailSet
<1>3. u \in Authorized /\ u \in DOMAIN Posted /\ Posted[u]
  BY <1>2 DEF DInv, PlacedInv, Placed, Authorized, Posted
<1>4. u \notin unsaved => \A v \in ToSet(delivered[s]) \ unsaved : v < u
  BY <1>2 DEF DInv, OrderInv, Precedes, Below
<1>5. u \notin unsaved => u \notin Delivery!Handed
  <2> SUFFICES ASSUME u \notin unsaved, NEW x \in Sessions, u \in ToSet(delivered[x])
               PROVE  FALSE
    BY DEF Delivery!Handed, Delivery!ToSet, ToSet
  <2>1. CASE x = s
    BY <1>4, <2>1 DEF Updates
  <2>2. CASE x # s
    BY <1>2, <2>2 DEF DInv, PlacedInv, Placed
  <2> QED
    BY <2>1, <2>2
<1>6. /\ delivered' = [delivered EXCEPT ![s] = Append(@, u)]
      /\ chat' = chat /\ unsaved' = unsaved
  BY <1>2 DEF Process, ProcessFails, telegram
<1> QED
  BY <1>3, <1>4, <1>5, <1>6 DEF Delivery!Deliver, Delivery!ToSet, ToSet, Posted

LEMMA DeliveryStep ==
    ASSUME IInv, DInv, [Next]_vars
    PROVE  [Delivery!Next]_(Delivery!vars)
<1>1. ASSUME UNCHANGED <<chat, delivered, unsaved>> PROVE UNCHANGED Delivery!vars
  BY <1>1 DEF Delivery!vars
<1>2. CASE UNCHANGED vars
  BY <1>1, <1>2 DEF vars, telegram, history
<1>3. CASE (\E m \in {NoReply} \cup Messages : UserWrites(m)) \/ StrangerWrites
  <2>1. Len(chat) < MaxUpdates /\ UNCHANGED <<delivered, unsaved>>
    BY <1>3 DEF UserWrites, StrangerWrites, history
  <2>2. PICK e \in Entries : chat' = Append(chat, e)
    BY <1>3, AppendedEntry
  <2> QED
    BY <2>1, <2>2, PostStep DEF Delivery!Next
<1>5. ASSUME NEW s \in Sessions, Process(s) \/ ProcessFails(s) PROVE Delivery!Next
  <2>1. PICK u \in DOMAIN Posted : Delivery!Deliver(s, u)
    BY <1>5, DeliverStep
  <2> QED
    BY <2>1 DEF Delivery!Next, Posted
<1>6. ASSUME NEW s \in Sessions,
             \/ Register(s) \/ Launch(s) \/ Send(s) \/ RegisterMessage(s)
             \/ GoStale(s) \/ Heartbeat(s)
             \/ Stop(s) \/ Shutdown(s) \/ Crash(s)
      PROVE  UNCHANGED <<chat, delivered, unsaved>>
  BY <1>6 DEF Register, Launch, SweepVisit, RemoveSeat, RemoveInbox, Start, Started,
     Send, RegisterMessage, RegisterRead, RegisterWrite, GoStale, Heartbeat, BeatCheck,
     BeatRead, BeatRecreate, BeatWrite, Stop, Shutdown, StopRelease, StopDiscard,
     StopReadTable, StopWriteTable, Unregister, Crash, telegram, history
<1>7. ASSUME NEW s \in Sessions, PollingLoop(s),
             ~(SaveOffset(s) \/ Process(s) \/ ProcessFails(s))
      PROVE  UNCHANGED <<chat, delivered, unsaved>>
  BY <1>7 DEF PollingLoop, Promote, Poll, PollFails, ReadTable, ReadRoster,
     PickPrimary, Route, Routed, Denied, NoInbox, ReadInbox, UnlinkInbox,
     UnlinkInboxFails, telegram, history
<1> QED
  BY <1>1, <1>2, <1>3, <1>5, <1>6, <1>7, LoosenStep DEF Next

-----------------------------------------------------------------------------
(* Types *)

\* The well-founded order of the naturals, as a least element of every set.
LEMMA Smallest ==
    ASSUME NEW S \in SUBSET Nat, S # {}
    PROVE  \E m \in S : \A n \in S : m <= n
<1> DEFINE T == {0..k : k \in S}
           F == FiniteSubsetsOf(Nat)
           R == StrictSubsetOrdering(Nat)
<1>1. T \subseteq F /\ T # {}
  <2>1. ASSUME NEW k \in S PROVE 0..k \in F
    BY FS_Interval DEF FiniteSubsetsOf
  <2> QED
    BY <2>1
<1>2. \E x \in T : \A y \in T : ~(<<y, x>> \in R)
  <2>1. IsWellFoundedOn(R, F)
    BY FS_StrictSubsetOrderingWellFounded
  <2> HIDE DEF T, F, R
  <2> QED
    BY <1>1, <2>1, WFMin
<1>3. PICK m \in S : \A n \in S : ~(<<0..n, 0..m>> \in R)
  BY <1>2
<1>4. ASSUME NEW n \in S, n < m PROVE FALSE
  <2>1. /\ 0..n \subseteq 0..m /\ m \in 0..m /\ m \notin 0..n
        /\ 0..n \subseteq Nat /\ 0..m \subseteq Nat
    BY <1>4
  <2>2. 0..n # 0..m
    BY <2>1
  <2>3. <<0..n, 0..m>> \in R
    BY <2>1, <2>2 DEF StrictSubsetOrdering
  <2> QED
    BY <1>3, <2>3
<1> QED
  BY <1>4

\* Induction, for a set.
LEMMA Induction ==
    ASSUME NEW S \in SUBSET Nat, 0 \in S, \A n \in S : n + 1 \in S
    PROVE  \A n \in Nat : n \in S
<1> SUFFICES ASSUME NEW k \in Nat \ S PROVE FALSE
  OBVIOUS
<1>1. PICK m \in Nat \ S : \A n \in Nat \ S : m <= n
  <2>1. Nat \ S \in SUBSET Nat /\ Nat \ S # {}
    OBVIOUS
  <2> QED
    BY <2>1, Smallest
<1>2. m # 0 /\ m - 1 \in Nat
  BY <1>1
<1>3. m - 1 \in S
  BY <1>1, <1>2
<1>4. (m - 1) + 1 \in S
  BY <1>3
<1> QED
  BY <1>1, <1>2, <1>4

\* g keeps, of the first k entries of t, those of sessions other than s.
Keeps(t, s, S, n, g) ==
    /\ g \in [0..n -> Seq(S)] /\ g[0] = <<>>
    /\ \A k \in 1..n : g[k] = IF t[k].session = s THEN g[k - 1]
                              ELSE Append(g[k - 1], t[k])

LEMMA KeepsExist ==
    ASSUME NEW S, NEW t \in Seq(S), NEW s
    PROVE  \E g : Keeps(t, s, S, Len(t), g)
<1> DEFINE N == {n \in Nat : n <= Len(t) => \E g : Keeps(t, s, S, n, g)}
<1>1. 0 \in N
  <2> DEFINE g == [k \in 0..0 |-> <<>>]
  <2>1. <<>> \in Seq(S)
    OBVIOUS
  <2>2. Keeps(t, s, S, 0, g)
    BY <2>1 DEF Keeps
  <2> QED
    BY <2>2
<1>2. ASSUME NEW n \in N PROVE n + 1 \in N
  <2> SUFFICES ASSUME n + 1 <= Len(t) PROVE \E g : Keeps(t, s, S, n + 1, g)
    OBVIOUS
  <2>1. PICK f : Keeps(t, s, S, n, f)
    OBVIOUS
  <2>2. PICK last : last = IF t[n + 1].session = s THEN f[n] ELSE Append(f[n], t[n + 1])
    OBVIOUS
  <2>3. last \in Seq(S)
    <3>1. f[n] \in Seq(S) /\ t[n + 1] \in S
      BY <2>1 DEF Keeps
    <3>2. Append(f[n], t[n + 1]) \in Seq(S)
      BY <3>1
    <3> QED
      BY <2>2, <3>1, <3>2
  <2> DEFINE g == [k \in 0..(n + 1) |-> IF k = n + 1 THEN last ELSE f[k]]
  <2>4. g \in [0..(n + 1) -> Seq(S)] /\ g[0] = <<>>
    BY <2>1, <2>3 DEF Keeps
  <2>5. ASSUME NEW k \in 1..(n + 1)
        PROVE  g[k] = IF t[k].session = s THEN g[k - 1] ELSE Append(g[k - 1], t[k])
    <3>1. CASE k = n + 1
      BY <2>2, <3>1
    <3>2. CASE k # n + 1
      <4>1. k \in 1..n /\ k - 1 \in 0..n /\ k - 1 # n + 1
        BY <3>2
      <4>2. f[k] = IF t[k].session = s THEN f[k - 1] ELSE Append(f[k - 1], t[k])
        BY <2>1, <4>1 DEF Keeps
      <4> QED
        BY <3>2, <4>1, <4>2
    <3> QED
      BY <3>1, <3>2
  <2> HIDE DEF g
  <2>6. Keeps(t, s, S, n + 1, g)
    BY <2>4, <2>5 DEF Keeps
  <2> QED
    BY <2>6
<1>3. Len(t) \in N
  <2>1. N \in SUBSET Nat
    OBVIOUS
  <2> HIDE DEF N
  <2> QED
    BY <1>1, <1>2, <2>1, Induction
<1> QED
  BY <1>3

\* What Without computes, entry by entry.
LEMMA WithoutIsKept ==
    ASSUME NEW S, NEW t \in Seq(S), NEW s
    PROVE  \E h : Keeps(t, s, S, Len(t), h) /\ Without(t, s) = h[Len(t)]
<1> DEFINE Def(f) == [n \in 0..Len(t) |->
                        IF n = 0 THEN <<>>
                        ELSE IF t[n].session = s THEN f[n - 1]
                             ELSE Append(f[n - 1], t[n])]
           h == CHOOSE f : f = Def(f)
<1>1. PICK g : Keeps(t, s, S, Len(t), g)
  BY KeepsExist
<1>2. g = Def(g)
  <2>1. g = [n \in 0..Len(t) |-> g[n]]
    BY <1>1 DEF Keeps
  <2>2. ASSUME NEW n \in 0..Len(t) PROVE g[n] = Def(g)[n]
    <3>1. CASE n = 0
      BY <1>1, <3>1 DEF Keeps
    <3>2. CASE n # 0
      <4>1. n \in 1..Len(t)
        BY <3>2
      <4>2. g[n] = IF t[n].session = s THEN g[n - 1] ELSE Append(g[n - 1], t[n])
        BY <1>1, <4>1 DEF Keeps
      <4> QED
        BY <3>2, <4>2
    <3> QED
      BY <3>1, <3>2
  <2> QED
    BY <2>1, <2>2
<1>3. h = Def(h)
  BY <1>2
<1>4. Without(t, s) = h[Len(t)]
  BY DEF Without
<1> HIDE DEF h
<1> DEFINE N == {n \in Nat : n <= Len(t) => h[n] \in Seq(S)}
<1>5. 0 \in N
  <2>1. h[0] = <<>> /\ <<>> \in Seq(S)
    BY <1>3
  <2> QED
    BY <2>1
<1>6. ASSUME NEW n \in N PROVE n + 1 \in N
  <2> SUFFICES ASSUME n + 1 <= Len(t) PROVE h[n + 1] \in Seq(S)
    OBVIOUS
  <2>1. h[n + 1] = IF t[n + 1].session = s THEN h[n] ELSE Append(h[n], t[n + 1])
    <3>1. PICK m \in 1..Len(t) : m = n + 1
      OBVIOUS
    <3>2. h[m] = Def(h)[m]
      BY <1>3
    <3>3. Def(h)[m] = IF t[m].session = s THEN h[m - 1] ELSE Append(h[m - 1], t[m])
      OBVIOUS
    <3>4. m - 1 = n
      BY <3>1
    <3> HIDE DEF Def
    <3> QED
      BY <3>1, <3>2, <3>3, <3>4
  <2>2. h[n] \in Seq(S) /\ t[n + 1] \in S
    OBVIOUS
  <2>3. Append(h[n], t[n + 1]) \in Seq(S)
    BY <2>2
  <2> QED
    BY <2>1, <2>2, <2>3
<1>7. \A n \in Nat : n \in N
  <2>1. N \in SUBSET Nat
    OBVIOUS
  <2> HIDE DEF N
  <2> QED
    BY <1>5, <1>6, <2>1, Induction
<1>8. h \in [0..Len(t) -> Seq(S)] /\ h[0] = <<>>
  <2>1. h = [n \in 0..Len(t) |-> h[n]]
    BY <1>3
  <2>2. \A n \in 0..Len(t) : h[n] \in Seq(S)
    BY <1>7
  <2>3. h[0] = <<>>
    BY <1>3
  <2> QED
    BY <2>1, <2>2, <2>3
<1>9. ASSUME NEW k \in 1..Len(t)
      PROVE  h[k] = IF t[k].session = s THEN h[k - 1] ELSE Append(h[k - 1], t[k])
  <2>1. h[k] = Def(h)[k]
    BY <1>3
  <2>2. Def(h)[k] = IF t[k].session = s THEN h[k - 1] ELSE Append(h[k - 1], t[k])
    OBVIOUS
  <2> HIDE DEF Def
  <2> QED
    BY <2>1, <2>2
<1> QED
  BY <1>4, <1>8, <1>9 DEF Keeps

\* Without(t, s) drops the entries of s and no others, and none gets further
\* from the end.
LEMMA WithoutKeeps ==
    ASSUME NEW S, NEW t \in Seq(S), NEW s
    PROVE  /\ Without(t, s) \in Seq(S)
           /\ \A j \in DOMAIN Without(t, s) : \E i \in DOMAIN t :
                /\ Without(t, s)[j] = t[i] /\ t[i].session # s
                /\ Len(Without(t, s)) - j <= Len(t) - i
           /\ \A i \in DOMAIN t : t[i].session # s =>
                \E j \in DOMAIN Without(t, s) : Without(t, s)[j] = t[i]
<1>1. PICK h : Keeps(t, s, S, Len(t), h) /\ Without(t, s) = h[Len(t)]
  BY WithoutIsKept
<1> DEFINE From(k) == \A j \in DOMAIN h[k] : \E i \in 1..k :
                        h[k][j] = t[i] /\ t[i].session # s /\ Len(h[k]) - j <= k - i
           All(k) == \A i \in 1..k : t[i].session # s =>
                        \E j \in DOMAIN h[k] : h[k][j] = t[i]
           N == {k \in Nat : k <= Len(t) => From(k) /\ All(k)}
<1>2. 0 \in N
  BY <1>1 DEF Keeps
<1>3. ASSUME NEW k \in N PROVE k + 1 \in N
  <2> SUFFICES ASSUME k + 1 <= Len(t) PROVE From(k + 1) /\ All(k + 1)
    OBVIOUS
  <2>1. k \in Nat /\ From(k) /\ All(k) /\ k + 1 \in 1..Len(t)
    OBVIOUS
  <2>2. PICK e \in S : e = t[k + 1]
    BY <2>1
  <2>3. PICK q \in Seq(S) : q = h[k]
    <3>1. k \in 0..Len(t)
      BY <2>1
    <3> QED
      BY <1>1, <3>1 DEF Keeps
  <2>4. h[k + 1] = IF e.session = s THEN q ELSE Append(q, e)
    <3>1. (k + 1) - 1 = k
      BY <2>1
    <3> QED
      BY <1>1, <2>1, <2>2, <2>3, <3>1 DEF Keeps
  <2>5. CASE e.session = s
    <3>1. h[k + 1] = q
      BY <2>4, <2>5
    <3>2. From(k + 1)
      <4> SUFFICES ASSUME NEW j \in DOMAIN q
                   PROVE  \E i \in 1..(k + 1) :
                            q[j] = t[i] /\ t[i].session # s /\ Len(q) - j <= (k + 1) - i
        BY <3>1
      <4>1. PICK i \in 1..k : q[j] = t[i] /\ t[i].session # s /\ Len(q) - j <= k - i
        BY <2>1, <2>3
      <4>2. i \in 1..(k + 1) /\ Len(q) - j <= (k + 1) - i
        BY <2>1, <2>3, <4>1
      <4> QED
        BY <4>1, <4>2
    <3>3. All(k + 1)
      <4> SUFFICES ASSUME NEW i \in 1..(k + 1), t[i].session # s
                   PROVE  \E j \in DOMAIN q : q[j] = t[i]
        BY <3>1
      <4>1. i \in 1..k
        BY <2>1, <2>2, <2>5
      <4> QED
        BY <2>1, <2>3, <4>1
    <3> QED
      BY <3>2, <3>3
  <2>6. CASE e.session # s
    <3>0. Append(q, e) \in Seq(S)
      OBVIOUS
    <3>1. PICK r \in Seq(S) : r = Append(q, e)
      BY <3>0
    <3>2. h[k + 1] = r
      BY <2>4, <2>6, <3>1
    <3>3. PICK n \in Nat : n = Len(q) /\ DOMAIN q = 1..n
      BY <2>3
    <3>4. /\ Len(r) = n + 1 /\ DOMAIN r = 1..(n + 1) /\ r[n + 1] = e
          /\ \A j \in 1..n : r[j] = q[j]
      BY <2>3, <3>1, <3>3
    <3>5. From(k + 1)
      <4> SUFFICES ASSUME NEW j \in 1..(n + 1)
                   PROVE  \E i \in 1..(k + 1) :
                            r[j] = t[i] /\ t[i].session # s /\ (n + 1) - j <= (k + 1) - i
        BY <3>2, <3>4
      <4>1. CASE j = n + 1
        <5>1. k + 1 \in 1..(k + 1) /\ (n + 1) - j <= (k + 1) - (k + 1)
          BY <2>1, <4>1
        <5> QED
          BY <2>2, <2>6, <3>4, <4>1, <5>1
      <4>2. CASE j # n + 1
        <5>1. j \in 1..n
          BY <4>2
        <5>2. PICK i \in 1..k : q[j] = t[i] /\ t[i].session # s /\ n - j <= k - i
          BY <2>1, <2>3, <3>3, <5>1
        <5>3. i \in 1..(k + 1) /\ (n + 1) - j <= (k + 1) - i
          BY <2>1, <5>1, <5>2
        <5> QED
          BY <3>4, <5>1, <5>2, <5>3
      <4> QED
        BY <4>1, <4>2
    <3>6. All(k + 1)
      <4> SUFFICES ASSUME NEW i \in 1..(k + 1), t[i].session # s
                   PROVE  \E j \in 1..(n + 1) : r[j] = t[i]
        BY <3>2, <3>4
      <4>1. CASE i = k + 1
        BY <2>2, <3>4, <4>1
      <4>2. CASE i # k + 1
        <5>0. i \in 1..k
          BY <2>1, <4>2
        <5>1. PICK j \in 1..n : q[j] = t[i]
          BY <2>1, <2>3, <3>3, <5>0
        <5> QED
          BY <3>4, <5>1
      <4> QED
        BY <4>1, <4>2
    <3> QED
      BY <3>5, <3>6
  <2> QED
    BY <2>5, <2>6
<1>4. From(Len(t)) /\ All(Len(t))
  <2>1. Len(t) \in N
    <3>1. N \in SUBSET Nat
      OBVIOUS
    <3> HIDE DEF N
    <3>2. Len(t) \in Nat
      OBVIOUS
    <3> QED
      BY <1>2, <1>3, <3>1, <3>2, Induction
  <2>2. Len(t) \in Nat /\ Len(t) <= Len(t)
    OBVIOUS
  <2> HIDE DEF From, All
  <2> QED
    BY <2>1, <2>2
<1>5. h[Len(t)] \in Seq(S) /\ DOMAIN t = 1..Len(t)
  BY <1>1 DEF Keeps
<1> QED
  BY <1>1, <1>4, <1>5
\* The data of tools, routing tables and start-up.
ToolsTyped ==
    /\ sent \in Seq(Senders) /\ Len(sent) <= MaxSends
    /\ table \in Tables /\ copy \in [Sessions -> Tables]
    /\ msg \in [Sessions -> Messages \cup {0}]
    /\ registered \in Seq(Messages) /\ risked \subseteq Messages

\* What a session is about to process or to register is there.
HandsInv ==
    \A s \in Sessions :
        /\ pc[s] \in {"unlink", "process"} => mine[s] # <<>>
        /\ task[s] \in {"sent", "register"} => msg[s] \in Messages

TInv == IInv /\ DataTyped /\ ToolsTyped /\ HandsInv

LEMMA InitTInv == Init => TInv
<1> SUFFICES ASSUME Init PROVE TInv
  OBVIOUS
<1>1. DataTyped
  BY BoundsAssumption DEF Init, DataTyped, Offsets, Updates
<1>2. ToolsTyped
  <2>1. /\ <<>> \in Seq(Senders) /\ <<>> \in Seq(Messages) /\ Len(<<>>) = 0
        /\ <<>> \in Seq([msg : Messages, session : Sessions])
    OBVIOUS
  <2> QED
    BY <2>1, BoundsAssumption DEF Init, ToolsTyped, Tables
<1>3. HandsInv
  BY DEF Init, HandsInv
<1> QED
  BY <1>1, <1>2, <1>3, InitIInv DEF TInv

\* The newest entries are the last ones, in their places from the end.
LEMMA NewestLast ==
    ASSUME NEW S, NEW t \in Seq(S)
    PROVE  /\ Newest(t) \in Seq(S)
           /\ \A k \in Nat : k < MaxTable /\ k < Len(t) =>
                /\ Len(Newest(t)) - k \in DOMAIN Newest(t)
                /\ Newest(t)[Len(Newest(t)) - k] = t[Len(t) - k]
           /\ \A j \in DOMAIN Newest(t) : \E i \in DOMAIN t :
                Newest(t)[j] = t[i] /\ Len(Newest(t)) - j = Len(t) - i
           /\ \A j \in DOMAIN Newest(t) : \E i \in DOMAIN t : Newest(t)[j] = t[i]
<1>1. PICK n \in Nat : n = Len(t) /\ DOMAIN t = 1..n
  OBVIOUS
<1>2. PICK mt \in Nat : mt = MaxTable
  BY BoundsAssumption
<1>3. CASE n <= mt
  <2>1. Newest(t) = t
    BY <1>1, <1>2, <1>3 DEF Newest
  <2> QED
    BY <1>1, <1>2, <2>1
<1>4. CASE n > mt
  <2>1. Newest(t) = SubSeq(t, n - mt + 1, n)
    BY <1>1, <1>2, <1>4 DEF Newest
  <2>2. PICK q : q = SubSeq(t, n - mt + 1, n)
    OBVIOUS
  <2>3. /\ q \in Seq(S) /\ Len(q) = mt /\ DOMAIN q = 1..mt
        /\ \A j \in 1..mt : q[j] = t[n - mt + j]
    BY <1>1, <1>2, <1>4, <2>2
  <2>4. \A k \in Nat : k < mt => mt - k \in 1..mt /\ q[mt - k] = t[n - k]
    <3> SUFFICES ASSUME NEW k \in Nat, k < mt
                 PROVE  mt - k \in 1..mt /\ q[mt - k] = t[n - k]
      OBVIOUS
    <3>1. mt - k \in 1..mt /\ n - mt + (mt - k) = n - k
      BY <1>1, <1>2
    <3> QED
      BY <2>3, <3>1
  <2>5. \A j \in 1..mt : n - mt + j \in 1..n
    BY <1>1, <1>2, <1>4
  <2>6. \A k \in Nat : k < MaxTable /\ k < Len(t) =>
          Len(q) - k \in DOMAIN q /\ q[Len(q) - k] = t[Len(t) - k]
    BY <1>1, <1>2, <2>3, <2>4
  <2>7. \A j \in DOMAIN q : \E i \in DOMAIN t : q[j] = t[i] /\ Len(q) - j = Len(t) - i
    <3> SUFFICES ASSUME NEW j \in 1..mt
                 PROVE  \E i \in DOMAIN t : q[j] = t[i] /\ Len(q) - j = Len(t) - i
      BY <2>3
    <3>1. n - mt + j \in DOMAIN t /\ q[j] = t[n - mt + j]
      BY <1>1, <2>3, <2>5
    <3>2. Len(q) - j = Len(t) - (n - mt + j)
      BY <1>1, <1>2, <2>3
    <3> QED
      BY <3>1, <3>2
  <2> QED
    BY <2>1, <2>2, <2>3, <2>6, <2>7
<1> QED
  BY <1>1, <1>2, <1>3, <1>4

LEMMA ChatTypes ==
    ASSUME TInv, StrangerWrites \/ \E m \in {NoReply} \cup Messages : UserWrites(m)
    PROVE  DataTyped' /\ ToolsTyped' /\ HandsInv'
<1>1. PICK e \in Entries : chat' = Append(chat, e) /\ Len(chat) < MaxUpdates
  BY AppendedEntry DEF UserWrites, StrangerWrites
<1>2. UNCHANGED <<confirmed, sent, registry, files, pc, startup, polling, tools, copy,
                  history>>
  BY DEF StrangerWrites, UserWrites
<1>3. chat' \in Seq(Entries) /\ Len(chat') <= MaxUpdates
  <2>1. PICK n \in Nat : n = Len(chat) /\ n < MaxUpdates
    BY <1>1 DEF TInv, DataTyped
  <2>2. Len(chat') = n + 1 /\ chat' \in Seq(Entries)
    BY <1>1, <2>1 DEF TInv, DataTyped
  <2> QED
    BY <2>1, <2>2, BoundsAssumption
<1> QED
  BY <1>2, <1>3 DEF TInv, DataTyped, ToolsTyped, HandsInv, registry, files, startup,
     polling, tools, history

\* Start-up, heartbeats and failing clocks.
LEMMA LaunchTypes ==
    ASSUME TInv, NEW s \in Sessions,
           Register(s) \/ Launch(s) \/ GoStale(s) \/ Heartbeat(s)
    PROVE  DataTyped' /\ ToolsTyped' /\ HandsInv'
<1> USE DEF telegram, registry, files, startup, polling, tools, history, Goto
<1>1. CASE Register(s) \/ Start(s) \/ Started(s) \/ \E x \in Sessions : SweepVisit(s, x)
  <2>1. /\ UNCHANGED <<telegram, inbox, offset, table, polling, tools, copy, history>>
        /\ pc' = pc \/ \E to \in {"count", "clean", "loop"} : pc' = [pc EXCEPT ![s] = to]
    BY <1>1 DEF Register, Start, Started, SweepVisit
  <2>2. DataTyped'
    BY <2>1 DEF TInv, DataTyped
  <2>3. ToolsTyped'
    BY <2>1 DEF TInv, ToolsTyped
  <2>4. HandsInv'
    BY <2>1 DEF TInv, HandsInv, IInv, Typed
  <2> QED
    BY <2>2, <2>3, <2>4
<1>2. CASE RemoveSeat(s) \/ RemoveInbox(s)
  <2>1. /\ UNCHANGED <<telegram, offset, table, pc, polling, tools, copy, history>>
        /\ inbox' = inbox \/ \E x \in Sessions : inbox' = [inbox EXCEPT ![x] = <<>>]
    BY <1>2 DEF RemoveSeat, RemoveInbox, TInv, IInv, Typed
  <2>2. DataTyped'
    BY <2>1, EmptyTyped DEF TInv, DataTyped
  <2> QED
    BY <2>1, <2>2 DEF TInv, ToolsTyped, HandsInv
<1>3. CASE GoStale(s) \/ Heartbeat(s)
  <2>1. UNCHANGED <<telegram, files, pc, startup, polling, msg, copy, history>>
    BY <1>3 DEF GoStale, Heartbeat, BeatCheck, BeatRead, BeatRecreate, BeatWrite
  <2>2. task' = task \/ \E t \in {"none", "beat", "beating"} : task' = [task EXCEPT ![s] = t]
    BY <1>3 DEF GoStale, Heartbeat, BeatCheck, BeatRead, BeatRecreate, BeatWrite
  <2>3. HandsInv'
    BY <2>1, <2>2 DEF TInv, HandsInv, IInv, Typed
  <2> QED
    BY <2>1, <2>3 DEF TInv, DataTyped, ToolsTyped
<1> QED
  BY <1>1, <1>2, <1>3 DEF Launch

\* The offsets stay in range, and what is fetched was written.
LEMMA PollTypes ==
    ASSUME TInv, NEW s \in Sessions, Poll(s) \/ PollFails(s)
    PROVE  DataTyped' /\ ToolsTyped' /\ HandsInv'
<1> USE DEF registry, files, startup, tools, history, Goto
<1>1. Asked(s) \in Offsets
  BY DEF TInv, DataTyped, Asked
<1>2. PICK c \in 0..MaxUpdates : c = Larger(confirmed, Asked(s) - 1)
  BY <1>1, BoundsAssumption DEF TInv, DataTyped, Larger, Offsets
<1>3. confirmed' \in 0..MaxUpdates
  BY <1>2 DEF Poll, PollFails, TInv, DataTyped
<1>4. \E o \in Offsets, b \in SUBSET Updates :
        /\ client' = [client EXCEPT ![s] = o]
        /\ batch' = [batch EXCEPT ![s] = b]
  <2>1. CASE Poll(s)
    <3>1. PICK n \in Nat : n = Len(chat) /\ n <= MaxUpdates
      BY DEF TInv, DataTyped
    <3>2. PICK last : last = Smaller(c + Batch, n)
      OBVIOUS
    <3>3. last \in Nat /\ last <= n
      BY <3>1, <3>2, BoundsAssumption DEF Smaller
    <3>4. confirmed' = c
      BY <1>2, <2>1 DEF Poll
    <3>5. PICK w : w = {u \in (c + 1)..last : chat[u].auth}
      OBVIOUS
    <3>6. client' = [client EXCEPT ![s] = IF (c + 1)..last = {} THEN Asked(s) ELSE last + 1]
          /\ batch' = [batch EXCEPT ![s] = w]
      BY <2>1, <3>1, <3>2, <3>4, <3>5 DEF Poll
    <3>7. w \in SUBSET Updates /\ last + 1 \in Offsets
      BY <3>1, <3>3, <3>5, BoundsAssumption DEF Updates, Offsets
    <3> QED
      BY <1>1, <3>6, <3>7
  <2>2. CASE PollFails(s)
    <3>1. batch' = [batch EXCEPT ![s] = batch[s]] /\ batch[s] \in SUBSET Updates
      BY <2>2 DEF PollFails, TInv, DataTyped
    <3> QED
      BY <1>1, <2>2, <3>1 DEF PollFails
  <2> QED
    BY <2>1, <2>2
<1>5. UNCHANGED <<chat, sent, registry, files, startup, mine, roster, primary, tools, copy,
                  history>>
  BY DEF Poll, PollFails
<1>6. DataTyped'
  BY <1>3, <1>4, <1>5 DEF TInv, DataTyped
<1>7. pc' = pc \/ \E to \in {"loop", "fetched"} : pc' = [pc EXCEPT ![s] = to]
  BY DEF Poll, PollFails
<1>8. HandsInv'
  BY <1>5, <1>7 DEF TInv, HandsInv, IInv, Typed
<1> QED
  BY <1>5, <1>6, <1>8 DEF TInv, ToolsTyped

LEMMA RouteTypes ==
    ASSUME TInv, NEW s \in Sessions, Route(s)
    PROVE  DataTyped' /\ ToolsTyped' /\ HandsInv'
<1> USE DEF telegram, registry, files, startup, tools, history
<1>1. PICK u \in batch[s] :
        /\ batch' = [batch EXCEPT ![s] = @ \ {u}]
        /\ \/ mine' = [mine EXCEPT ![s] = Append(@, u)] /\ inbox' = inbox
           \/ /\ inbox' \in Written(s, inbox,
                                   [inbox EXCEPT ![Target(s, u)] = Append(@, u)])
              /\ mine' = mine
           \/ mine' = mine /\ inbox' = inbox
  BY DEF Route
<1> DEFINE t == Target(s, u)
<1>2. UNCHANGED <<telegram, registry, offset, table, lock, pc, startup, client, roster,
                  primary, tools, copy, history>>
      /\ pc[s] = "route"
  BY DEF Route
<1>3. u \in Updates /\ batch' \in [Sessions -> SUBSET Updates]
  BY <1>1 DEF TInv, DataTyped
<1>4. mine' \in [Sessions -> Seq(Updates)]
  <2>1. Append(mine[s], u) \in Seq(Updates)
    BY <1>3 DEF TInv, DataTyped
  <2> QED
    BY <1>1, <2>1 DEF TInv, DataTyped
<1>5. inbox' \in [Sessions -> Seq(Updates)]
  <2>1. \A x \in Sessions : Append(inbox[x], u) \in Seq(Updates)
    BY <1>3 DEF TInv, DataTyped
  <2>2. inbox' = inbox \/ inbox' = [inbox EXCEPT ![t] = Append(inbox[t], u)]
    BY <1>1 DEF Written
  <2>3. inbox \in [Sessions -> Seq(Updates)]
    BY DEF TInv, DataTyped
  <2> HIDE DEF t
  <2>4. CASE t \in Sessions
    BY <2>1, <2>2, <2>3, <2>4
  <2>5. CASE t \notin Sessions
    BY <2>2, <2>3, <2>5
  <2> QED
    BY <2>4, <2>5
<1>6. DataTyped'
  BY <1>2, <1>3, <1>4, <1>5 DEF TInv, DataTyped
<1>7. \A x \in Sessions \ {s} : mine'[x] = mine[x]
  BY <1>1 DEF TInv, DataTyped
<1>8. HandsInv'
  BY <1>2, <1>7 DEF TInv, HandsInv
<1> QED
  BY <1>2, <1>6, <1>8 DEF TInv, ToolsTyped

\* The other steps of the loop up to the inbox's.
LEMMA LoopTypes ==
    ASSUME TInv, NEW s \in Sessions,
           \/ Promote(s) \/ SaveOffset(s) \/ ReadTable(s) \/ ReadRoster(s)
           \/ PickPrimary(s) \/ Routed(s) \/ Denied(s) \/ NoInbox(s)
    PROVE  DataTyped' /\ ToolsTyped' /\ HandsInv'
<1> USE DEF telegram, registry, files, startup, polling, tools, history, Goto
<1>1. UNCHANGED <<chat, confirmed, sent, inbox, table, sweep, client, batch, mine, task, msg,
                  delivered, registered, risked>>
  BY DEF Promote, SaveOffset, ReadTable, ReadRoster, PickPrimary, Routed, Denied, NoInbox
<1>2. offset' \in Offsets
  BY DEF Promote, SaveOffset, ReadTable, ReadRoster, PickPrimary, Routed, Denied, NoInbox,
     TInv, DataTyped
<1>3. copy' \in [Sessions -> Tables]
  <2>1. <<>> \in Tables
    BY DEF Tables
  <2>2. copy' = copy \/ copy' = [copy EXCEPT ![s] = table] \/ copy' = [copy EXCEPT ![s] = <<>>]
    BY DEF Promote, SaveOffset, ReadTable, ReadRoster, PickPrimary, Routed, Denied, NoInbox
  <2> QED
    BY <2>1, <2>2 DEF TInv, ToolsTyped
<1>4. roster' \in [Sessions -> SUBSET Sessions]
  <2>1. \/ roster' = roster \/ roster' = [roster EXCEPT ![s] = SeatedSessions]
        \/ roster' = [roster EXCEPT ![s] = {}]
    BY DEF Promote, SaveOffset, ReadTable, ReadRoster, PickPrimary, Routed, Denied, NoInbox
  <2> QED
    BY <2>1 DEF TInv, DataTyped, SeatedSessions
<1>5. primary' \in [Sessions -> Sessions \cup {None}]
  <2>1. CASE PickPrimary(s)
    <3> DEFINE readable == {x \in roster[s] : seat[x] # Unseated}
               oldest == {x \in readable : \A y \in readable : seat[x] <= seat[y]}
    <3>1. PICK x : /\ x = IF oldest = {} THEN None ELSE CHOOSE y \in oldest : TRUE
                   /\ primary' = [primary EXCEPT ![s] = x]
      BY <2>1 DEF PickPrimary
    <3>2. oldest \subseteq Sessions
      BY DEF TInv, DataTyped
    <3> HIDE DEF oldest
    <3>3. x \in Sessions \cup {None}
      BY <3>1, <3>2
    <3> QED
      BY <3>1, <3>3 DEF TInv, DataTyped
  <2>2. CASE ~PickPrimary(s)
    <3>1. primary' = primary \/ primary' = [primary EXCEPT ![s] = None]
      BY <2>2 DEF Promote, SaveOffset, ReadTable, ReadRoster, Routed, Denied, NoInbox
    <3> QED
      BY <3>1 DEF TInv, DataTyped
  <2> QED
    BY <2>1, <2>2
<1>6. DataTyped'
  <2>1. unsaved' = unsaved \/ unsaved' = unsaved \cup batch[s]
    BY DEF Promote, SaveOffset, ReadTable, ReadRoster, PickPrimary, Routed, Denied, NoInbox
  <2>2. lapses' = lapses \/ (lapses < MaxLapses /\ lapses' = lapses + 1)
    BY DEF Promote, SaveOffset, ReadTable, ReadRoster, PickPrimary, Routed, Denied, NoInbox
  <2>3. unsaved' \subseteq Updates
    BY <2>1 DEF TInv, DataTyped
  <2>4. lapses' \in 0..MaxLapses
    BY <2>2, BoundsAssumption DEF TInv, DataTyped
  <2> QED
    BY <1>1, <1>2, <1>4, <1>5, <2>3, <2>4 DEF TInv, DataTyped
<1>7. ToolsTyped'
  BY <1>1, <1>3 DEF TInv, ToolsTyped
<1>8. HandsInv'
  <2>1. \/ pc' = pc
        \/ \E to \in {"loop", "saved", "tabled", "rostered", "route", "reader"} :
             pc' = [pc EXCEPT ![s] = to]
        \/ pc' = [pc EXCEPT ![s] = "process"] /\ mine[s] # <<>>
    BY DEF Promote, SaveOffset, ReadTable, ReadRoster, PickPrimary, Routed, Denied, NoInbox
  <2> QED
    BY <1>1, <2>1 DEF TInv, HandsInv, IInv, Typed
<1> QED
  BY <1>6, <1>7, <1>8

LEMMA InboxTypes ==
    ASSUME TInv, NEW s \in Sessions,
           \/ ReadInbox(s) \/ UnlinkInbox(s) \/ UnlinkInboxFails(s)
           \/ Process(s) \/ ProcessFails(s)
    PROVE  DataTyped' /\ ToolsTyped' /\ HandsInv'
<1> USE DEF telegram, registry, files, startup, polling, tools, history, Goto
<1>1. UNCHANGED <<chat, confirmed, sent, offset, table, sweep, client, batch, roster, primary,
                  task, msg, copy, registered, risked, unsaved, lapses>>
  BY DEF ReadInbox, UnlinkInbox, UnlinkInboxFails, Process, ProcessFails
<1>2. /\ inbox \in [Sessions -> Seq(Updates)] /\ mine \in [Sessions -> Seq(Updates)]
      /\ delivered \in [Sessions -> Seq(Updates)] /\ pc \in [Sessions -> Labels]
  BY DEF TInv, DataTyped, IInv, Typed
<1>3. CASE ReadInbox(s) \/ UnlinkInbox(s) \/ UnlinkInboxFails(s)
  <2>1. /\ inbox' \in [Sessions -> Seq(Updates)] /\ mine' \in [Sessions -> Seq(Updates)]
        /\ delivered' = delivered
    BY <1>2, <1>3, EmptyTyped DEF ReadInbox, UnlinkInbox, UnlinkInboxFails
  <2>2. HandsInv'
    BY <1>1, <1>2, <1>3 DEF ReadInbox, UnlinkInbox, UnlinkInboxFails, TInv, HandsInv
  <2> QED
    BY <1>1, <2>1, <2>2 DEF TInv, DataTyped, ToolsTyped
<1>4. CASE Process(s) \/ ProcessFails(s)
  <2>1. mine[s] # <<>> /\ mine[s] \in Seq(Updates)
    BY <1>2, <1>4 DEF Process, ProcessFails, TInv, HandsInv
  <2>2. PICK u \in Updates : u = Head(mine[s])
    BY <2>1
  <2>3. Append(delivered[s], u) \in Seq(Updates)
    BY <1>2, <2>2
  <2>4. delivered' = [delivered EXCEPT ![s] = Append(delivered[s], u)]
    BY <1>4, <2>2 DEF Process, ProcessFails
  <2>5. PICK rest : /\ mine' = [mine EXCEPT ![s] = rest]
                    /\ rest = Tail(mine[s]) \/ rest = <<>>
                    /\ \E to \in {"loop", "process"} :
                         /\ pc' = [pc EXCEPT ![s] = to]
                         /\ to = "process" => rest = Tail(mine[s]) /\ Len(mine[s]) # 1
    BY <1>4 DEF Process, ProcessFails
  <2>6. rest \in Seq(Updates) /\ ((Len(mine[s]) # 1 /\ rest = Tail(mine[s])) => rest # <<>>)
    <3>1. Tail(mine[s]) \in Seq(Updates)
      BY <2>1, TailSet
    <3>2. Len(mine[s]) # 1 => Tail(mine[s]) # <<>>
      BY <2>1, LongTail
    <3> QED
      BY <2>5, <3>1, <3>2, EmptyTyped
  <2>7. mine' \in [Sessions -> Seq(Updates)] /\ delivered' \in [Sessions -> Seq(Updates)]
        /\ inbox' = inbox
    BY <1>2, <1>4, <2>3, <2>4, <2>5, <2>6 DEF Process, ProcessFails
  <2>8. HandsInv'
    BY <1>1, <1>2, <2>5, <2>6 DEF TInv, HandsInv
  <2> QED
    BY <1>1, <2>7, <2>8 DEF TInv, DataTyped, ToolsTyped
<1> QED
  BY <1>3, <1>4

LEMMA ToolTypes ==
    ASSUME TInv, NEW s \in Sessions, Send(s) \/ RegisterMessage(s)
    PROVE  DataTyped' /\ ToolsTyped' /\ HandsInv'
<1> USE DEF telegram, registry, files, startup, polling, tools, history
<1>1. DataTyped'
  BY DEF Send, RegisterMessage, RegisterRead, RegisterWrite, TInv, DataTyped
<1>2. UNCHANGED <<pc, mine, sweep>> /\ task \in [Sessions -> Tasks]
      /\ msg \in [Sessions -> Messages \cup {0}] /\ copy \in [Sessions -> Tables]
  BY DEF Send, RegisterMessage, RegisterRead, RegisterWrite, TInv, IInv, Typed, ToolsTyped
<1>3. CASE Send(s)
  <2>1. PICK n \in Nat : n = Len(sent) /\ n < MaxSends
    BY <1>3 DEF Send, TInv, ToolsTyped
  <2>2. sent' \in Seq(Senders) /\ Len(sent') = n + 1
    BY <1>3, <2>1 DEF Send, TInv, ToolsTyped
  <2>3. n + 1 \in Messages /\ n + 1 <= MaxSends
    BY <2>1, BoundsAssumption DEF Messages
  <2>4. msg' = [msg EXCEPT ![s] = n + 1] /\ task' = [task EXCEPT ![s] = "sent"]
        /\ UNCHANGED <<table, copy, registered, risked>>
    BY <1>3, <2>1 DEF Send
  <2>5. ToolsTyped'
    BY <1>2, <2>2, <2>3, <2>4 DEF TInv, ToolsTyped
  <2>6. HandsInv'
    BY <1>2, <2>3, <2>4 DEF TInv, HandsInv
  <2> QED
    BY <1>1, <2>5, <2>6
<1>4. CASE RegisterRead(s)
  <2>1. copy' = [copy EXCEPT ![s] = table] /\ task' = [task EXCEPT ![s] = "register"]
        /\ task[s] = "sent" /\ UNCHANGED <<sent, table, msg, registered, risked>>
    BY <1>4 DEF RegisterRead
  <2> QED
    BY <1>1, <1>2, <2>1 DEF TInv, ToolsTyped, HandsInv
<1>5. CASE RegisterWrite(s)
  <2>1. msg[s] \in Messages
    BY <1>5 DEF RegisterWrite, TInv, HandsInv
  <2>2. PICK e : e = [msg |-> msg[s], session |-> s]
    OBVIOUS
  <2>3. e \in [msg : Messages, session : Sessions]
    BY <2>1, <2>2
  <2>4. copy[s] \in Seq([msg : Messages, session : Sessions])
    BY <1>2 DEF Tables
  <2>5. Append(copy[s], e) \in Seq([msg : Messages, session : Sessions])
    BY <2>3, <2>4
  <2>6. PICK t : t = Newest(Append(copy[s], e))
    OBVIOUS
  <2>7. t \in Tables
    BY <2>5, <2>6, NewestLast DEF Tables
  <2>8. table' \in Tables
    BY <1>5, <2>2, <2>6, <2>7 DEF RegisterWrite, Written, TInv, ToolsTyped
  <2>9. registered' \in Seq(Messages) /\ risked' \subseteq Messages /\ sent' = sent
    BY <1>5, <2>1 DEF RegisterWrite, TInv, ToolsTyped
  <2>10. <<>> \in Tables
    BY DEF Tables
  <2>11. copy' = [copy EXCEPT ![s] = <<>>] /\ msg' = [msg EXCEPT ![s] = 0]
         /\ task' = [task EXCEPT ![s] = "none"]
    BY <1>5 DEF RegisterWrite
  <2>12. ToolsTyped'
    BY <1>2, <2>8, <2>9, <2>10, <2>11 DEF TInv, ToolsTyped
  <2>13. HandsInv'
    BY <1>2, <2>11 DEF TInv, HandsInv
  <2> QED
    BY <1>1, <2>12, <2>13
<1> QED
  BY <1>3, <1>4, <1>5 DEF RegisterMessage

LEMMA EndTypes ==
    ASSUME TInv, NEW s \in Sessions, Stop(s) \/ Shutdown(s) \/ Crash(s)
    PROVE  DataTyped' /\ ToolsTyped' /\ HandsInv'
<1> USE DEF telegram, registry, files, startup, polling, tools, history, Goto, Shutdown
<1>0. /\ pc \in [Sessions -> Labels] /\ task \in [Sessions -> Tasks]
      /\ mine \in [Sessions -> Seq(Updates)] /\ inbox \in [Sessions -> Seq(Updates)]
      /\ batch \in [Sessions -> SUBSET Updates] /\ roster \in [Sessions -> SUBSET Sessions]
      /\ primary \in [Sessions -> Sessions \cup {None}]
      /\ msg \in [Sessions -> Messages \cup {0}] /\ copy \in [Sessions -> Tables]
      /\ table \in Tables
  BY DEF TInv, IInv, Typed, DataTyped, ToolsTyped
<1>1. /\ UNCHANGED <<chat, confirmed, sent, offset, client, history>>
      /\ \E to \in {"release", "discard", "forget", "rewrite", "unregister", "gone"} :
           pc' = [pc EXCEPT ![s] = to]
  BY DEF Stop, StopRelease, StopDiscard, StopReadTable, StopWriteTable, Unregister, Crash
<1>2. /\ mine' = mine \/ mine' = [mine EXCEPT ![s] = <<>>]
      /\ inbox' = inbox \/ inbox' = [inbox EXCEPT ![s] = <<>>]
      /\ batch' = batch \/ batch' = [batch EXCEPT ![s] = {}]
      /\ roster' = roster \/ roster' = [roster EXCEPT ![s] = {}]
      /\ primary' = primary \/ primary' = [primary EXCEPT ![s] = None]
      /\ \/ msg' = msg /\ task' = task
         \/ msg' = [msg EXCEPT ![s] = 0] /\ task' = [task EXCEPT ![s] = "none"]
  BY DEF Stop, StopRelease, StopDiscard, StopReadTable, StopWriteTable, Unregister, Crash
<1>3. DataTyped'
  <2>1. mine' \in [Sessions -> Seq(Updates)] /\ inbox' \in [Sessions -> Seq(Updates)]
    <3>1. mine' = mine \/ mine' = [mine EXCEPT ![s] = <<>>]
      BY <1>2
    <3>2. inbox' = inbox \/ inbox' = [inbox EXCEPT ![s] = <<>>]
      BY <1>2
    <3>3. mine' \in [Sessions -> Seq(Updates)]
      BY <1>0, <3>1, EmptyTyped
    <3>4. inbox' \in [Sessions -> Seq(Updates)]
      BY <1>0, <3>2, EmptyTyped
    <3> QED
      BY <3>3, <3>4
  <2>2. /\ batch' \in [Sessions -> SUBSET Updates] /\ roster' \in [Sessions -> SUBSET Sessions]
        /\ primary' \in [Sessions -> Sessions \cup {None}]
    BY <1>0, <1>2
  <2> QED
    BY <1>1, <2>1, <2>2 DEF TInv, DataTyped
<1>4. table' \in Tables
  <2>1. CASE StopWriteTable(s)
    <3>1. copy[s] \in Seq([msg : Messages, session : Sessions])
      BY <1>0 DEF Tables
    <3>2. PICK t : t = Without(copy[s], s)
      OBVIOUS
    <3>3. t \in Tables
      BY <3>1, <3>2, WithoutKeeps DEF Tables
    <3> QED
      BY <1>0, <2>1, <3>2, <3>3 DEF StopWriteTable, Written
  <2>2. CASE ~StopWriteTable(s)
    BY <1>0, <2>2 DEF Stop, StopRelease, StopDiscard, StopReadTable, Unregister, Crash
  <2> QED
    BY <2>1, <2>2
<1>5. copy' \in [Sessions -> Tables]
  <2>1. <<>> \in Tables
    BY DEF Tables
  <2>2. copy' = copy \/ copy' = [copy EXCEPT ![s] = table] \/ copy' = [copy EXCEPT ![s] = <<>>]
    BY DEF Stop, StopRelease, StopDiscard, StopReadTable, StopWriteTable, Unregister, Crash
  <2> QED
    BY <1>0, <2>1, <2>2
<1>6. ToolsTyped'
  BY <1>0, <1>1, <1>2, <1>4, <1>5 DEF TInv, ToolsTyped
<1>7. HandsInv'
  BY <1>0, <1>1, <1>2 DEF TInv, HandsInv
<1> QED
  BY <1>3, <1>6, <1>7

LEMMA TInvStep == TInv /\ [Next]_vars => TInv'
<1> SUFFICES ASSUME TInv, [Next]_vars PROVE TInv'
  OBVIOUS
<1>1. IInv'
  BY IInvStep DEF TInv
<1>2. DataTyped' /\ ToolsTyped' /\ HandsInv'
  <2>1. CASE UNCHANGED vars
    BY <2>1 DEF vars, telegram, registry, files, startup, polling, tools, history,
       TInv, DataTyped, ToolsTyped, HandsInv
  <2>2. CASE StrangerWrites \/ \E m \in {NoReply} \cup Messages : UserWrites(m)
    BY <2>2, ChatTypes
  <2>3. ASSUME NEW s \in Sessions,
               \/ Register(s) \/ Launch(s) \/ PollingLoop(s) \/ Send(s)
               \/ RegisterMessage(s) \/ GoStale(s) \/ Heartbeat(s)
               \/ Stop(s) \/ Shutdown(s) \/ Crash(s)
        PROVE  DataTyped' /\ ToolsTyped' /\ HandsInv'
    BY <2>3, LaunchTypes, PollTypes, RouteTypes, LoopTypes, InboxTypes, ToolTypes, EndTypes
       DEF PollingLoop
  <2> QED
    BY <2>1, <2>2, <2>3 DEF Next
<1> QED
  BY <1>1, <1>2 DEF TInv

-----------------------------------------------------------------------------
(* Replies: any number of sessions send messages, register them and shut down, *)
(* each rewriting the routing table as it read it before                       *)

\* x has not given up its table entries, and its calls do not fail.
Live(x) == x \notin Stalling \cup Failing /\ pc[x] \notin {"unregister", "gone"}

Registered(m) == \E i \in DOMAIN registered : registered[i] = m

Recent(m) == \E i \in DOMAIN registered : registered[i] = m /\ Len(registered) - i < MaxTable

\* The table must have message m: nobody had it open for a rewrite when m was
\* registered, the table has room for m, and its sender is there.
Firm(m) == Recent(m) /\ m \notin risked /\ Live(sent[m])

\* Update u answers such a message, registered when the user answered.
Expected(u) == chat[u].due /\ Firm(chat[u].re)

Holds(t, m) == \E j \in DOMAIN t : t[j].msg = m

\* Every entry names the session that sent the message, and those that come
\* after it are no more than the messages registered after its message.
Faithful(t) ==
    \A j \in DOMAIN t :
        /\ Registered(t[j].msg) /\ t[j].session = sent[t[j].msg]
        /\ \A i \in DOMAIN registered :
             registered[i] = t[j].msg => Len(t) - j <= Len(registered) - i

\* Updates come from the chat.
KnownInv ==
    \A x \in Sessions : Placed(x) \subseteq DOMAIN chat /\ batch[x] \subseteq DOMAIN chat

\* Who sends runs; the message a session is registering is its own and new.
SentInv ==
    /\ \A i \in DOMAIN registered : registered[i] \in DOMAIN sent
    /\ \A m \in DOMAIN sent : pc[sent[m]] \notin {"off", "count", "clean"}
    /\ \A x \in Sessions : task[x] \in {"sent", "register"} =>
         msg[x] \in DOMAIN sent /\ sent[msg[x]] = x /\ ~Registered(msg[x])

\* A message that was due is registered.
DueInv == \A u \in DOMAIN chat : chat[u].due => Registered(chat[u].re)

FaithInv == Faithful(table) /\ \A x \in Sessions : Faithful(copy[x])

\* Neither the table lacks a firm message nor a copy that will replace it.
HeldInv ==
    \A m : Firm(m) =>
        /\ Holds(table, m)
        /\ \A x \in Sessions : Rewriting(x) => Holds(copy[x], m)

\* Whoever routes has read the table and the session files in time.
CopyInv ==
    \A p \in Sessions : \A u \in batch[p] : Expected(u) =>
        /\ pc[p] \in {"tabled", "rostered", "route"} => Holds(copy[p], chat[u].re)
        /\ pc[p] \in {"rostered", "route"} => sent[chat[u].re] \in roster[p]

\* Nobody but the asker has the answer.
PlaceInv == \A x \in Sessions : \A u \in Placed(x) : Expected(u) => x = sent[chat[u].re]

RInv == KnownInv /\ SentInv /\ DueInv /\ FaithInv /\ HeldInv /\ CopyInv /\ PlaceInv

Copied == {"tabled", "rostered", "route"}
Fresh == {"off", "count", "clean"}

\* No message is sent or registered yet.
LEMMA InitRInv == Init => RInv
<1> SUFFICES ASSUME Init PROVE RInv
  OBVIOUS
<1>1. /\ sent = <<>> /\ registered = <<>> /\ chat = <<>> /\ table = <<>>
      /\ \A x \in Sessions : /\ pc[x] = "off" /\ task[x] = "none" /\ batch[x] = {}
                             /\ copy[x] = <<>>
  BY DEF Init
<1>2. \A x \in Sessions : Placed(x) = {}
  BY EmptySet DEF Init, Placed
<1>3. \A m : ~Registered(m) /\ ~Firm(m)
  BY <1>1 DEF Registered, Firm, Recent
<1>4. KnownInv /\ CopyInv /\ PlaceInv
  BY <1>1, <1>2 DEF KnownInv, CopyInv, PlaceInv
<1>5. SentInv /\ DueInv /\ FaithInv /\ HeldInv
  BY <1>1, <1>3 DEF SentInv, DueInv, FaithInv, Faithful, HeldInv
<1> QED
  BY <1>4, <1>5 DEF RInv

\* The sender of a firm message has its session file.
LEMMA AskerSeated ==
    ASSUME TInv, RInv, NEW m, Firm(m)
    PROVE  m \in DOMAIN sent /\ sent[m] \in Sessions /\ sent[m] \in SeatedSessions
<1>1. m \in DOMAIN sent
  BY DEF Firm, Recent, RInv, SentInv
<1>2. sent[m] \in Sessions
  BY <1>1, SessionsAssumption DEF TInv, ToolsTyped
<1>3. Alive(sent[m])
  BY <1>1 DEF Firm, Live, Alive, RInv, SentInv
<1> QED
  BY <1>1, <1>2, <1>3 DEF Firm, Live, TInv, IInv, AliveSeated, SeatedSessions

\* Session x is handed no update and no roster or table that are not the current
\* ones, and what it is sending or rewriting is what it was.
Steady(x) ==
    /\ Placed(x)' \subseteq Placed(x)
    /\ batch'[x] \subseteq DOMAIN chat
    /\ Live(x)' => Live(x)
    /\ pc'[x] \in Fresh => pc[x] \in Fresh
    /\ copy'[x] \in {copy[x], table, <<>>}
    /\ task'[x] \in {"sent", "register"} =>
         task[x] \in {"sent", "register"} /\ msg'[x] = msg[x]
    /\ Rewriting(x)' => copy'[x] = table \/ (Rewriting(x) /\ copy'[x] = copy[x])
    /\ pc'[x] \in Copied =>
         /\ batch'[x] \subseteq batch[x]
         /\ copy'[x] = table \/ (pc[x] \in Copied /\ copy'[x] = copy[x])
    /\ pc'[x] \in {"rostered", "route"} =>
         \/ roster'[x] = SeatedSessions
         \/ pc[x] \in {"rostered", "route"} /\ roster'[x] = roster[x]

\* Steps that send and register nothing and hand no update to anybody: it is
\* enough that the new table, if there is one, holds what it must.
LEMMA SteadyReplies ==
    ASSUME TInv, RInv,
           UNCHANGED <<chat, sent, registered, risked>>,
           Faithful(table)', \A m : Firm(m)' => Holds(table', m),
           \A x \in Sessions : Steady(x)
    PROVE  RInv'
<1> USE DEF Steady
<1>1. ASSUME NEW m, Firm(m)' PROVE Firm(m) /\ sent[m] \in Sessions
  <2>1. Recent(m) /\ m \notin risked /\ Live(sent[m])'
    BY <1>1 DEF Firm, Recent, Live
  <2>2. sent[m] \in Sessions
    BY <2>1, SessionsAssumption DEF Recent, RInv, SentInv, TInv, ToolsTyped
  <2> QED
    BY <2>1, <2>2 DEF Firm
<1>2. \A u \in DOMAIN chat : Expected(u)' => Expected(u)
  BY <1>1 DEF Expected
<1>3. KnownInv'
  BY DEF RInv, KnownInv
<1>4. \A m : Registered(m)' = Registered(m)
  BY DEF Registered
<1>5. SentInv' /\ DueInv'
  <2>1. \A m \in DOMAIN sent : sent[m] \in Sessions
    BY SessionsAssumption DEF TInv, ToolsTyped
  <2>2. DueInv'
    BY <1>4 DEF RInv, DueInv
  <2> QED
    BY <1>4, <2>1, <2>2 DEF RInv, SentInv, Fresh
<1>6. FaithInv'
  <2> SUFFICES ASSUME NEW x \in Sessions PROVE Faithful(copy[x])'
    BY DEF FaithInv
  <2>1. \A t : Faithful(t) <=> \A j \in DOMAIN t :
          /\ Registered(t[j].msg)' /\ t[j].session = sent'[t[j].msg]
          /\ \A i \in DOMAIN registered' :
               registered'[i] = t[j].msg => Len(t) - j <= Len(registered') - i
    BY <1>4 DEF Faithful
  <2>2. Faithful(copy'[x])
    <3>1. Faithful(<<>>)
      BY DEF Faithful
    <3> QED
      BY <3>1 DEF RInv, FaithInv
  <2> QED
    BY <2>1, <2>2 DEF Faithful
<1>7. HeldInv'
  <2> SUFFICES ASSUME NEW m, Firm(m)', NEW x \in Sessions, Rewriting(x)'
               PROVE  Holds(copy'[x], m)
    BY DEF HeldInv, Holds
  <2> QED
    BY <1>1 DEF RInv, HeldInv
<1>8. CopyInv'
  <2> SUFFICES ASSUME NEW p \in Sessions, NEW u \in batch'[p], Expected(u)'
               PROVE  /\ pc'[p] \in Copied => Holds(copy'[p], chat[u].re)
                      /\ pc'[p] \in {"rostered", "route"} => sent[chat[u].re] \in roster'[p]
    BY DEF CopyInv, Copied, Holds
  <2>1. u \in DOMAIN chat /\ Expected(u) /\ Firm(chat[u].re)
    BY <1>2 DEF Expected
  <2>2. Holds(table, chat[u].re) /\ sent[chat[u].re] \in SeatedSessions
    BY <2>1, AskerSeated DEF RInv, HeldInv
  <2>3. ASSUME u \in batch[p]
        PROVE  /\ pc[p] \in Copied => Holds(copy[p], chat[u].re)
               /\ pc[p] \in {"rostered", "route"} => sent[chat[u].re] \in roster[p]
    BY <2>1, <2>3 DEF RInv, CopyInv, Copied
  <2>4. pc'[p] \in {"rostered", "route"} => pc'[p] \in Copied
    BY DEF Copied
  <2> QED
    BY <2>2, <2>3, <2>4
<1>9. PlaceInv'
  <2> SUFFICES ASSUME NEW x \in Sessions, NEW u \in Placed(x)', Expected(u)'
               PROVE  x = sent[chat[u].re]
    BY DEF PlaceInv
  <2>1. u \in Placed(x) /\ u \in DOMAIN chat
    BY DEF RInv, KnownInv
  <2> QED
    BY <1>2, <2>1 DEF RInv, PlaceInv
<1> QED
  BY <1>3, <1>5, <1>6, <1>7, <1>8, <1>9 DEF RInv

\* Only a registered message makes an update due.
LEMMA ChatReplies ==
    ASSUME TInv, RInv, StrangerWrites \/ \E m \in {NoReply} \cup Messages : UserWrites(m)
    PROVE  RInv'
<1>1. PICK e \in Entries :
        /\ chat' = Append(chat, e)
        /\ e.due => Registered(e.re)
  <2>1. CASE StrangerWrites
    <3>1. PICK e : e = [auth |-> FALSE, re |-> NoReply, due |-> FALSE]
      OBVIOUS
    <3>2. e \in Entries /\ ~e.due
      BY <3>1 DEF Entries
    <3> QED
      BY <2>1, <3>1, <3>2 DEF StrangerWrites
  <2>2. ASSUME NEW m \in {NoReply} \cup Messages, UserWrites(m)
        PROVE  \E e \in Entries : chat' = Append(chat, e) /\ (e.due => Registered(e.re))
    <3>1. PICK e : e = [auth |-> TRUE, re |-> m, due |-> m \in ToSet(registered)]
      OBVIOUS
    <3>2. e \in Entries
      BY <3>1 DEF Entries
    <3>3. e.due => Registered(e.re)
      BY <3>1 DEF Registered, ToSet
    <3> QED
      BY <2>2, <3>1, <3>2, <3>3 DEF UserWrites
  <2> QED
    BY <2>1, <2>2
<1>2. UNCHANGED <<sent, registered, risked, table, copy, pc, task, msg, batch, roster, mine,
                  inbox, delivered>>
  BY DEF StrangerWrites, UserWrites, files, polling, tools, history
<1>3. PICK n \in Nat : n = Len(chat) /\ DOMAIN chat = 1..n
  BY DEF TInv, DataTyped
<1>4. /\ DOMAIN chat' = 1..(n + 1) /\ chat'[n + 1] = e
      /\ \A u \in DOMAIN chat : chat'[u] = chat[u]
  <2>1. PICK q : q = Append(chat, e)
    OBVIOUS
  <2>2. Len(q) = n + 1 /\ DOMAIN q = 1..(n + 1) /\ q[n + 1] = e
        /\ \A u \in 1..n : q[u] = chat[u]
    BY <1>3, <2>1 DEF TInv, DataTyped
  <2> QED
    BY <1>1, <1>3, <2>1, <2>2
<1>5. \A m : Firm(m)' = Firm(m) /\ Registered(m)' = Registered(m)
  BY <1>2 DEF Firm, Recent, Live, Registered
<1>6. \A u \in DOMAIN chat : Expected(u)' = Expected(u) /\ chat'[u].re = chat[u].re
  BY <1>4, <1>5 DEF Expected
<1>7. \A x \in Sessions : Placed(x)' = Placed(x)
  BY <1>2 DEF Placed
<1>8. DOMAIN chat \subseteq DOMAIN chat'
  BY <1>3, <1>4
<1>9. KnownInv'
  BY <1>2, <1>7, <1>8 DEF RInv, KnownInv
<1>10. SentInv'
  BY <1>2, <1>5 DEF RInv, SentInv
<1>11. DueInv'
  <2> SUFFICES ASSUME NEW u \in DOMAIN chat', chat'[u].due PROVE Registered(chat'[u].re)
    BY <1>5 DEF DueInv
  <2>1. CASE u \in DOMAIN chat
    BY <1>4, <2>1 DEF RInv, DueInv
  <2>2. CASE u \notin DOMAIN chat
    <3>1. u = n + 1
      BY <1>3, <1>4, <2>2
    <3> QED
      BY <1>1, <1>4, <3>1
  <2> QED
    BY <2>1, <2>2
<1>12. FaithInv'
  BY <1>2, <1>5 DEF RInv, FaithInv, Faithful
<1>13. HeldInv'
  BY <1>2, <1>5 DEF RInv, HeldInv, Holds, Rewriting
<1>14. CopyInv'
  <2> SUFFICES ASSUME NEW p \in Sessions, NEW u \in batch[p], Expected(u)'
               PROVE  /\ pc[p] \in {"tabled", "rostered", "route"} => Holds(copy[p], chat'[u].re)
                      /\ pc[p] \in {"rostered", "route"} => sent[chat'[u].re] \in roster[p]
    BY <1>2 DEF CopyInv, Holds
  <2>1. u \in DOMAIN chat
    BY DEF RInv, KnownInv
  <2> QED
    BY <1>6, <2>1 DEF RInv, CopyInv
<1>15. PlaceInv'
  <2> SUFFICES ASSUME NEW x \in Sessions, NEW u \in Placed(x), Expected(u)'
               PROVE  x = sent[chat'[u].re]
    BY <1>2, <1>7 DEF PlaceInv
  <2>1. u \in DOMAIN chat
    BY DEF RInv, KnownInv
  <2> QED
    BY <1>6, <2>1 DEF RInv, PlaceInv
<1> QED
  BY <1>9, <1>10, <1>11, <1>12, <1>13, <1>14, <1>15 DEF RInv

\* A message that is registered, firm, or answered by an expected update was sent
\* before.
LEMMA OldMessages ==
    ASSUME RInv
    PROVE  /\ \A m : Registered(m) => m \in DOMAIN sent
           /\ \A m : Firm(m) => Registered(m)
           /\ \A u \in DOMAIN chat : Expected(u) => chat[u].re \in DOMAIN sent
BY DEF RInv, SentInv, Registered, Firm, Recent, Expected

\* A new message is not registered yet.
LEMMA SendReplies ==
    ASSUME TInv, RInv, NEW s \in Sessions, Send(s)
    PROVE  RInv'
<1>1. /\ pc[s] \in {"loop", "process"} /\ task[s] = "none"
      /\ sent' = Append(sent, s)
      /\ msg' = [msg EXCEPT ![s] = Len(sent) + 1]
      /\ task' = [task EXCEPT ![s] = "sent"]
      /\ UNCHANGED <<chat, registered, risked, table, copy, pc, batch, roster, mine, inbox,
                     delivered>>
  BY DEF Send, AtAwait, files, polling, history
<1>2. PICK n \in Nat : n = Len(sent) /\ DOMAIN sent = 1..n
  BY DEF TInv, ToolsTyped
<1>3. /\ DOMAIN sent' = 1..(n + 1) /\ sent'[n + 1] = s
      /\ \A m \in DOMAIN sent : sent'[m] = sent[m]
  <2>1. PICK q : q = Append(sent, s)
    OBVIOUS
  <2>2. Len(q) = n + 1 /\ DOMAIN q = 1..(n + 1) /\ q[n + 1] = s
        /\ \A m \in 1..n : q[m] = sent[m]
    BY <1>2, <2>1 DEF TInv, ToolsTyped
  <2> QED
    BY <1>1, <1>2, <2>1, <2>2
<1>4. \A m : Registered(m)' = Registered(m)
  BY <1>1 DEF Registered
<1>5. \A m : Firm(m)' => Firm(m)
  <2> SUFFICES ASSUME NEW m, Firm(m)' PROVE Firm(m)
    OBVIOUS
  <2>1. Recent(m) /\ m \notin risked /\ Live(sent'[m])
    BY <1>1 DEF Firm, Recent, Live
  <2>2. m \in DOMAIN sent
    BY <2>1, OldMessages DEF Recent, Registered
  <2> QED
    BY <1>3, <2>1, <2>2 DEF Firm
<1>6. \A u \in DOMAIN chat : Expected(u)' => Expected(u) /\ sent'[chat[u].re] = sent[chat[u].re]
  BY <1>1, <1>3, <1>5, OldMessages DEF Expected
<1>7. \A x \in Sessions : /\ x # s => task'[x] = task[x] /\ msg'[x] = msg[x]
                          /\ x = s => task'[x] = "sent" /\ msg'[x] = n + 1
                          /\ Placed(x)' = Placed(x)
  BY <1>1, <1>2 DEF TInv, IInv, Typed, ToolsTyped, Placed
<1>8. KnownInv' /\ DueInv'
  BY <1>1, <1>4, <1>7 DEF RInv, KnownInv, DueInv
<1>9. SentInv'
  <2>1. ~Registered(n + 1)
    BY <1>2, OldMessages
  <2>2. \A i \in DOMAIN registered : registered[i] \in DOMAIN sent'
    BY <1>2, <1>3 DEF RInv, SentInv
  <2>3. ASSUME NEW m \in DOMAIN sent' PROVE pc[sent'[m]] \notin {"off", "count", "clean"}
    <3>1. CASE m \in DOMAIN sent
      BY <1>3, <3>1 DEF RInv, SentInv
    <3>2. CASE m \notin DOMAIN sent
      <4>1. m = n + 1
        BY <1>2, <1>3, <3>2
      <4> QED
        BY <1>1, <1>3, <4>1
    <3> QED
      BY <3>1, <3>2
  <2>4. ASSUME NEW x \in Sessions, task'[x] \in {"sent", "register"}
        PROVE  msg'[x] \in DOMAIN sent' /\ sent'[msg'[x]] = x /\ ~Registered(msg'[x])
    <3>1. CASE x = s
      BY <1>3, <1>7, <2>1, <3>1
    <3>2. CASE x # s
      <4>1. msg[x] \in DOMAIN sent /\ sent[msg[x]] = x /\ ~Registered(msg[x])
        BY <1>7, <2>4, <3>2 DEF RInv, SentInv
      <4> QED
        BY <1>2, <1>3, <1>7, <3>2, <4>1
    <3> QED
      BY <3>1, <3>2
  <2> QED
    BY <1>1, <1>4, <2>2, <2>3, <2>4 DEF SentInv
<1>10. FaithInv'
  <2>1. \A t : Faithful(t) =>
          \A j \in DOMAIN t :
            /\ Registered(t[j].msg)' /\ t[j].session = sent'[t[j].msg]
            /\ \A i \in DOMAIN registered' :
                 registered'[i] = t[j].msg => Len(t) - j <= Len(registered') - i
    BY <1>1, <1>3, <1>4, OldMessages DEF Faithful
  <2> QED
    BY <1>1, <2>1 DEF RInv, FaithInv, Faithful
<1>11. HeldInv'
  <2>1. \A x \in Sessions : Rewriting(x)' => Rewriting(x)
    BY <1>1, <1>7 DEF Rewriting
  <2> QED
    BY <1>1, <1>5, <2>1 DEF RInv, HeldInv, Holds
<1>12. CopyInv'
  <2> SUFFICES ASSUME NEW p \in Sessions, NEW u \in batch[p], Expected(u)'
               PROVE  /\ pc[p] \in {"tabled", "rostered", "route"} => Holds(copy[p], chat[u].re)
                      /\ pc[p] \in {"rostered", "route"} => sent'[chat[u].re] \in roster[p]
    BY <1>1 DEF CopyInv, Holds
  <2>1. u \in DOMAIN chat
    BY DEF RInv, KnownInv
  <2> QED
    BY <1>6, <2>1 DEF RInv, CopyInv
<1>13. PlaceInv'
  <2> SUFFICES ASSUME NEW x \in Sessions, NEW u \in Placed(x), Expected(u)'
               PROVE  x = sent'[chat[u].re]
    <3>1. chat' = chat /\ \A x \in Sessions : Placed(x)' = Placed(x)
      BY <1>1, <1>7
    <3> QED
      BY <3>1 DEF PlaceInv
  <2>1. u \in DOMAIN chat
    BY DEF RInv, KnownInv
  <2> QED
    BY <1>6, <2>1 DEF RInv, PlaceInv
<1> QED
  BY <1>8, <1>9, <1>10, <1>11, <1>12, <1>13 DEF RInv

\* The answer to a firm message goes to its sender: the table that the router read
\* names nobody else, and the sender has its file.
LEMMA RouteReplies ==
    ASSUME TInv, RInv, NEW s \in Sessions, Route(s)
    PROVE  RInv'
<1>1. /\ pc[s] = "route"
      /\ UNCHANGED <<chat, sent, registered, risked, table, task, msg, copy, pc, roster,
                     delivered>>
  BY DEF Route, telegram, tools, history
<1>2. PICK u \in batch[s] :
        /\ batch' = [batch EXCEPT ![s] = @ \ {u}]
        /\ \/ Target(s, u) = s /\ mine' = [mine EXCEPT ![s] = Append(@, u)] /\ inbox' = inbox
           \/ /\ Target(s, u) \in Sessions \ {s}
              /\ inbox' = [inbox EXCEPT ![Target(s, u)] = Append(@, u)]
              /\ mine' = mine
           \/ mine' = mine /\ inbox' = inbox
  <2>1. \A u : Target(s, u) \in Sessions \cup {None}
    BY DEF TInv, DataTyped, Target
  <2> QED
    BY <2>1 DEF Route, Written
<1>3. u \in Updates /\ u \in DOMAIN chat
  BY <1>2 DEF TInv, DataTyped, RInv, KnownInv
<1>4. /\ \A m : Firm(m)' = Firm(m) /\ Registered(m)' = Registered(m)
      /\ \A v : Expected(v)' = Expected(v)
  BY <1>1 DEF Firm, Live, Expected, Recent, Registered
<1>5. ASSUME Expected(u) PROVE Target(s, u) = sent[chat[u].re]
  <2>1. /\ \A j \in DOMAIN copy[s] : copy[s][j].session = sent[copy[s][j].msg]
        /\ \E j \in DOMAIN copy[s] : copy[s][j].msg = chat[u].re
        /\ sent[chat[u].re] \in roster[s]
    BY <1>1, <1>2, <1>5 DEF RInv, CopyInv, FaithInv, Faithful, Holds
  <2>2. Asker(copy[s], chat[u].re) \cap roster[s] = {sent[chat[u].re]}
    BY <2>1 DEF Asker
  <2> QED
    BY <2>2 DEF Target
<1>6. \A x \in Sessions : /\ batch'[x] \subseteq batch[x]
                          /\ Placed(x)' \subseteq Placed(x) \cup {u}
                          /\ x # Target(s, u) => Placed(x)' = Placed(x)
  <2> TAKE x \in Sessions
  <2>1. /\ ToSet(Append(mine[x], u)) = ToSet(mine[x]) \cup {u}
        /\ ToSet(Append(inbox[x], u)) = ToSet(inbox[x]) \cup {u}
    BY <1>3, AppendSet DEF TInv, DataTyped
  <2>2. batch'[x] \subseteq batch[x]
    BY <1>2 DEF TInv, DataTyped
  <2>3. /\ mine'[x] = mine[x] \/ mine'[x] = Append(mine[x], u)
        /\ inbox'[x] = inbox[x] \/ inbox'[x] = Append(inbox[x], u)
        /\ x # Target(s, u) => mine'[x] = mine[x] /\ inbox'[x] = inbox[x]
    BY <1>2 DEF TInv, DataTyped
  <2> QED
    BY <1>1, <2>1, <2>2, <2>3 DEF Placed
<1>7. KnownInv'
  <2> SUFFICES ASSUME NEW x \in Sessions
               PROVE  Placed(x)' \subseteq DOMAIN chat /\ batch'[x] \subseteq DOMAIN chat
    BY <1>1 DEF KnownInv
  <2> QED
    BY <1>3, <1>6 DEF RInv, KnownInv
<1>8. SentInv' /\ DueInv'
  BY <1>1, <1>4 DEF RInv, SentInv, DueInv
<1>9. FaithInv'
  BY <1>1, <1>4 DEF RInv, FaithInv, Faithful
<1>10. HeldInv'
  BY <1>1, <1>4 DEF RInv, HeldInv, Holds, Rewriting
<1>11. CopyInv'
  BY <1>1, <1>4, <1>6 DEF RInv, CopyInv, Holds
<1>12. PlaceInv'
  BY <1>1, <1>4, <1>5, <1>6 DEF RInv, PlaceInv
<1> QED
  BY <1>7, <1>8, <1>9, <1>10, <1>11, <1>12 DEF RInv

\* What RegisterWrite leaves in the table: the newest entries of the copy and the
\* new one, or the old table.
LEMMA WrittenReplies ==
    ASSUME TInv, RInv, NEW s \in Sessions, RegisterWrite(s)
    PROVE  /\ Faithful(table)'
           /\ \A m : Firm(m)' /\ m # msg[s] => Firm(m)
           /\ \A m : Firm(m)' => Holds(table', m)
           /\ \A t \in Tables : Faithful(t) => Faithful(t)'
<1>1. /\ task[s] = "register"
      /\ table' \in Written(s, table,
                            Newest(Append(copy[s], [msg |-> msg[s], session |-> s])))
      /\ registered' = Append(registered, msg[s])
      /\ risked \subseteq risked'
      /\ UNCHANGED <<sent, pc>>
  BY DEF RegisterWrite, telegram
<1>2. PICK m0 : m0 = msg[s] /\ m0 \in DOMAIN sent /\ sent[m0] = s /\ ~Registered(m0)
                /\ m0 \in Messages
  BY <1>1 DEF RInv, SentInv, TInv, HandsInv
<1>3. PICK k \in Nat : k = Len(registered) /\ DOMAIN registered = 1..k
  BY DEF TInv, ToolsTyped
<1>4. PICK r : /\ r = registered' /\ Len(r) = k + 1 /\ DOMAIN r = 1..(k + 1) /\ r[k + 1] = m0
               /\ \A i \in 1..k : r[i] = registered[i]
  <2>1. registered \in Seq(Messages)
    BY DEF TInv, ToolsTyped
  <2>2. PICK q : q = Append(registered, m0)
    OBVIOUS
  <2>3. /\ Len(q) = k + 1 /\ DOMAIN q = 1..(k + 1) /\ q[k + 1] = m0
        /\ \A i \in 1..k : q[i] = registered[i]
    BY <1>2, <1>3, <2>1, <2>2
  <2> QED
    BY <1>1, <1>2, <2>2, <2>3
<1>5. \A i \in 1..k : r[i] # m0
  BY <1>2, <1>3, <1>4 DEF Registered
<1>6. \A m : /\ Registered(m)' <=> Registered(m) \/ m = m0
             /\ Live(m)' = Live(m)
  <2>1. \A m : Registered(m)' <=> \E i \in 1..(k + 1) : r[i] = m
    BY <1>4 DEF Registered
  <2>2. \A m : Registered(m) <=> \E i \in 1..k : r[i] = m
    BY <1>3, <1>4 DEF Registered
  <2>3. 1..(k + 1) = 1..k \cup {k + 1}
    BY <1>3
  <2>4. \A m : Live(m)' = Live(m)
    BY <1>1 DEF Live
  <2> QED
    BY <1>4, <2>1, <2>2, <2>3, <2>4
<1>7. ASSUME NEW m, Firm(m)'
      PROVE  /\ 0 < MaxTable /\ Live(sent[m])
             /\ m # m0 => Firm(m) /\ \E i \in 1..k : registered[i] = m /\ (k + 1) - i < MaxTable
  <2>1. PICK i \in 1..(k + 1) : r[i] = m /\ (k + 1) - i < MaxTable
    BY <1>4, <1>7 DEF Firm, Recent
  <2>2. Live(sent[m]) /\ m \notin risked
    BY <1>1, <1>7 DEF Firm, Live
  <2>3. 0 < MaxTable
    BY <2>1, BoundsAssumption
  <2>4. ASSUME m # m0 PROVE i \in 1..k /\ registered[i] = m /\ k - i < MaxTable
    <3>1. i \in 1..k
      BY <1>4, <2>1, <2>4
    <3> QED
      BY <1>4, <2>1, <3>1, BoundsAssumption
  <2>5. ASSUME m # m0 PROVE Firm(m)
    BY <1>3, <2>2, <2>4, <2>5 DEF Firm, Recent
  <2> QED
    BY <2>1, <2>2, <2>3, <2>4, <2>5
<1>8. ASSUME NEW t \in Tables, Faithful(t) PROVE Faithful(t)'
  <2> SUFFICES ASSUME NEW j \in DOMAIN t
               PROVE  /\ Registered(t[j].msg)' /\ t[j].session = sent[t[j].msg]
                      /\ \A i \in 1..(k + 1) : r[i] = t[j].msg => Len(t) - j <= (k + 1) - i
    BY <1>1, <1>4 DEF Faithful
  <2>1. /\ Registered(t[j].msg) /\ t[j].session = sent[t[j].msg]
        /\ \A i \in 1..k : registered[i] = t[j].msg => Len(t) - j <= k - i
    BY <1>3, <1>8 DEF Faithful
  <2>2. t[j].msg # m0
    BY <1>2, <2>1
  <2>3. ASSUME NEW i \in 1..(k + 1), r[i] = t[j].msg PROVE Len(t) - j <= (k + 1) - i
    <3>1. i \in 1..k
      BY <1>4, <2>2, <2>3
    <3>2. Len(t) - j <= k - i
      BY <1>4, <2>1, <2>3, <3>1
    <3>3. Len(t) \in Nat /\ j \in Nat
      BY DEF Tables
    <3> QED
      BY <3>1, <3>2, <3>3
  <2> QED
    BY <1>6, <2>1, <2>3
<1>9. PICK e : e = [msg |-> m0, session |-> s]
  OBVIOUS
<1>10. PICK c \in Tables : c = copy[s] /\ Faithful(c) /\ \A m : Firm(m) => Holds(c, m)
  <2>1. Rewriting(s)
    BY <1>1 DEF Rewriting
  <2> QED
    BY <2>1 DEF RInv, FaithInv, HeldInv, TInv, ToolsTyped
<1>11. PICK n \in Nat : n = Len(c) /\ DOMAIN c = 1..n
  BY DEF Tables
<1>12. PICK q \in Tables : /\ q = Append(c, e) /\ Len(q) = n + 1 /\ DOMAIN q = 1..(n + 1)
                           /\ q[n + 1] = e /\ \A j \in 1..n : q[j] = c[j]
  <2>1. e \in [msg : Messages, session : Sessions]
    BY <1>2, <1>9
  <2>2. c \in Seq([msg : Messages, session : Sessions])
    BY DEF Tables
  <2>3. Append(c, e) \in Tables
    BY <2>1, <2>2 DEF Tables
  <2>4. PICK p \in Tables : p = Append(c, e)
    BY <2>3
  <2>5. Len(p) = n + 1 /\ DOMAIN p = 1..(n + 1) /\ p[n + 1] = e /\ \A j \in 1..n : p[j] = c[j]
    BY <1>11, <2>1, <2>2, <2>4
  <2> QED
    BY <2>4, <2>5
<1>13. PICK w \in Tables :
         /\ w = Newest(q)
         /\ \A i \in Nat : i < MaxTable /\ i < n + 1 =>
              Len(w) - i \in DOMAIN w /\ w[Len(w) - i] = q[(n + 1) - i]
         /\ \A j \in DOMAIN w : \E i \in 1..(n + 1) : w[j] = q[i] /\ Len(w) - j = (n + 1) - i
  <2>1. q \in Seq([msg : Messages, session : Sessions])
    BY DEF Tables
  <2>2. PICK p : p = Newest(q)
    OBVIOUS
  <2>3. /\ p \in Seq([msg : Messages, session : Sessions])
        /\ \A i \in Nat : i < MaxTable /\ i < Len(q) =>
             Len(p) - i \in DOMAIN p /\ p[Len(p) - i] = q[Len(q) - i]
        /\ \A j \in DOMAIN p : \E i \in DOMAIN q : p[j] = q[i] /\ Len(p) - j = Len(q) - i
    BY <2>1, <2>2, NewestLast
  <2>4. Len(q) = n + 1 /\ DOMAIN q = 1..(n + 1) /\ p \in Tables
    BY <1>12, <2>3 DEF Tables
  <2> QED
    BY <2>2, <2>3, <2>4
<1>14. table' = w \/ (s \in Failing /\ table' = table)
  BY <1>1, <1>2, <1>9, <1>10, <1>12, <1>13 DEF Written
<1>15. ASSUME NEW j \in DOMAIN w
       PROVE  /\ Registered(w[j].msg)' /\ w[j].session = sent[w[j].msg]
              /\ \A i \in 1..(k + 1) : r[i] = w[j].msg => Len(w) - j <= (k + 1) - i
  <2>1. PICK l \in 1..(n + 1) : w[j] = q[l] /\ Len(w) - j = (n + 1) - l
    BY <1>13
  <2>2. CASE l = n + 1
    <3>1. w[j].msg = m0 /\ w[j].session = s /\ Len(w) - j = 0
      BY <1>9, <1>12, <2>1, <2>2
    <3>2. \A i \in 1..(k + 1) : r[i] = m0 => i = k + 1
      BY <1>5
    <3>3. \A i \in 1..(k + 1) : r[i] = m0 => 0 <= (k + 1) - i
      OBVIOUS
    <3> QED
      BY <1>2, <1>6, <3>1, <3>3
  <2>3. CASE l # n + 1
    <3>1. l \in 1..n /\ w[j] = c[l]
      BY <1>12, <2>1, <2>3
    <3>2. /\ Registered(c[l].msg) /\ c[l].session = sent[c[l].msg]
          /\ \A i \in 1..k : registered[i] = c[l].msg => n - l <= k - i
      BY <1>3, <1>10, <1>11, <3>1 DEF Faithful
    <3>3. c[l].msg # m0
      BY <1>2, <3>2
    <3>4. ASSUME NEW i \in 1..(k + 1), r[i] = c[l].msg PROVE (n + 1) - l <= (k + 1) - i
      <4>1. i \in 1..k
        BY <1>4, <3>3, <3>4
      <4>2. n - l <= k - i
        BY <1>4, <3>2, <3>4, <4>1
      <4> QED
        BY <3>1, <4>1, <4>2
    <3> QED
      BY <1>6, <2>1, <3>1, <3>2, <3>4
  <2> QED
    BY <2>2, <2>3
<1>16. Faithful(table)'
  <2>1. CASE table' = w
    BY <1>1, <1>4, <1>15, <2>1 DEF Faithful
  <2>2. CASE table' = table
    <3>1. table \in Tables /\ Faithful(table)
      BY DEF TInv, ToolsTyped, RInv, FaithInv
    <3>2. \A t : Faithful(t)' <=> \A j \in DOMAIN t :
            /\ Registered(t[j].msg)' /\ t[j].session = sent[t[j].msg]
            /\ \A i \in 1..(k + 1) : r[i] = t[j].msg => Len(t) - j <= (k + 1) - i
      BY <1>1, <1>4 DEF Faithful
    <3> QED
      BY <1>1, <1>4, <1>8, <2>2, <3>1, <3>2 DEF Faithful
  <2> QED
    BY <1>14, <2>1, <2>2
<1>17. ASSUME NEW m, Firm(m)' PROVE Holds(table', m)
  <2>1. CASE m = m0
    <3>1. s \notin Failing
      BY <1>2, <1>7, <1>17, <2>1 DEF Live
    <3>2. Len(w) - 0 \in DOMAIN w /\ w[Len(w) - 0] = q[(n + 1) - 0]
      BY <1>7, <1>13, <1>17
    <3>3. (n + 1) - 0 = n + 1
      OBVIOUS
    <3> QED
      BY <1>9, <1>12, <1>14, <2>1, <3>1, <3>2, <3>3 DEF Holds
  <2>2. CASE m # m0
    <3>1. Firm(m)
      BY <1>7, <1>17, <2>2
    <3>2. PICK j \in 1..n : c[j].msg = m
      BY <1>10, <1>11, <3>1 DEF Holds
    <3>3. PICK i \in 1..k : registered[i] = m /\ (k + 1) - i < MaxTable
      BY <1>7, <1>17, <2>2
    <3>4. n - j <= k - i
      BY <1>3, <1>10, <1>11, <3>2, <3>3 DEF Faithful
    <3>5. PICK d \in Nat : d = (n + 1) - j
      BY <3>2
    <3>6. d < MaxTable /\ d < n + 1 /\ (n + 1) - d = j
      BY <3>2, <3>3, <3>4, <3>5, BoundsAssumption
    <3>7. Len(w) - d \in DOMAIN w /\ w[Len(w) - d] = c[j]
      BY <1>12, <1>13, <3>2, <3>6
    <3>8. Holds(table, m)
      BY <3>1 DEF RInv, HeldInv
    <3> QED
      BY <1>14, <3>2, <3>7, <3>8 DEF Holds
  <2> QED
    BY <2>1, <2>2
<1> QED
  BY <1>2, <1>7, <1>8, <1>16, <1>17

\* A registration puts a message in the table that no update answers yet; what it
\* pushes out of the table is too old to be expected.
LEMMA RegisterWriteReplies ==
    ASSUME TInv, RInv, NEW s \in Sessions, RegisterWrite(s)
    PROVE  RInv'
<1>1. /\ task[s] = "register"
      /\ registered' = Append(registered, msg[s])
      /\ risked' = IF \E x \in Sessions \ {s} : Rewriting(x) THEN risked \cup {msg[s]}
                                                            ELSE risked
      /\ copy' = [copy EXCEPT ![s] = <<>>]
      /\ msg' = [msg EXCEPT ![s] = 0]
      /\ task' = [task EXCEPT ![s] = "none"]
      /\ UNCHANGED <<chat, sent, pc, batch, roster, mine, inbox, delivered>>
  BY DEF RegisterWrite, telegram, polling
<1>2. /\ Faithful(table)'
      /\ \A m : Firm(m)' /\ m # msg[s] => Firm(m)
      /\ \A m : Firm(m)' => Holds(table', m)
      /\ \A t \in Tables : Faithful(t) => Faithful(t)'
  BY WrittenReplies
<1>3. pc[s] \in {"loop", "process"}
  BY <1>1 DEF TInv, IInv, TasksInv
<1>4. msg[s] \in DOMAIN sent /\ sent[msg[s]] = s /\ ~Registered(msg[s])
  BY <1>1 DEF RInv, SentInv
<1>5. \A m : Registered(m)' <=> Registered(m) \/ m = msg[s]
  <2>1. PICK k \in Nat : k = Len(registered) /\ DOMAIN registered = 1..k
    BY DEF TInv, ToolsTyped
  <2>2. registered \in Seq(Messages)
    BY DEF TInv, ToolsTyped
  <2>3. PICK r : r = Append(registered, msg[s])
    OBVIOUS
  <2>4. /\ DOMAIN r = 1..(k + 1) /\ r[k + 1] = msg[s] /\ \A i \in 1..k : r[i] = registered[i]
    BY <2>1, <2>2, <2>3
  <2>5. 1..(k + 1) = 1..k \cup {k + 1}
    BY <2>1
  <2>6. \A m : (\E i \in DOMAIN r : r[i] = m) <=> Registered(m) \/ m = msg[s]
    BY <2>1, <2>4, <2>5 DEF Registered
  <2> QED
    BY <1>1, <2>3, <2>6 DEF Registered
<1>6. \A u \in DOMAIN chat : Expected(u)' => Expected(u)
  <2> SUFFICES ASSUME NEW u \in DOMAIN chat, Expected(u)' PROVE Expected(u)
    OBVIOUS
  <2>1. PICK m : m = chat[u].re
    OBVIOUS
  <2>2. chat[u].due /\ Firm(m)'
    BY <1>1, <2>1 DEF Expected
  <2>3. m # msg[s]
    BY <1>4, <2>1, <2>2 DEF RInv, DueInv
  <2> QED
    BY <1>2, <2>1, <2>2, <2>3 DEF Expected
<1>7. \A x \in Sessions : /\ x # s => task'[x] = task[x] /\ msg'[x] = msg[x]
                                      /\ copy'[x] = copy[x]
                          /\ task'[s] = "none" /\ copy'[s] = <<>>
                          /\ Placed(x)' = Placed(x)
  BY <1>1 DEF TInv, IInv, Typed, ToolsTyped, Placed
<1>8. KnownInv'
  BY <1>1, <1>7 DEF RInv, KnownInv
<1>9. SentInv'
  <2>1. \A i \in DOMAIN registered' : registered'[i] \in DOMAIN sent
    <3> SUFFICES ASSUME NEW i \in DOMAIN registered' PROVE registered'[i] \in DOMAIN sent
      OBVIOUS
    <3>1. PICK m : m = registered'[i]
      OBVIOUS
    <3>2. Registered(m)'
      BY <3>1 DEF Registered
    <3>3. Registered(m) \/ m = msg[s]
      BY <1>5, <3>2
    <3> QED
      BY <1>4, <3>1, <3>3, OldMessages
  <2>2. ASSUME NEW x \in Sessions, task'[x] \in {"sent", "register"}
        PROVE  \E m : m = msg'[x] /\ m \in DOMAIN sent /\ sent[m] = x /\ ~Registered(m)'
    <3>0. PICK m : m = msg[x]
      OBVIOUS
    <3>1. x # s /\ msg'[x] = msg[x] /\ task[x] \in {"sent", "register"}
      BY <1>7, <2>2
    <3>2. m \in DOMAIN sent /\ sent[m] = x /\ ~Registered(m)
      BY <3>0, <3>1 DEF RInv, SentInv
    <3>3. m # msg[s]
      BY <1>4, <3>1, <3>2
    <3> QED
      BY <1>5, <3>0, <3>1, <3>2, <3>3
  <2>3. \A m \in DOMAIN sent : pc[sent[m]] \notin {"off", "count", "clean"}
    BY DEF RInv, SentInv
  <2>4. \A x \in Sessions : task'[x] \in {"sent", "register"} =>
          msg'[x] \in DOMAIN sent /\ sent[msg'[x]] = x
          /\ ~\E i \in DOMAIN registered' : registered'[i] = msg'[x]
    BY <2>2 DEF Registered
  <2> QED
    BY <1>1, <2>1, <2>3, <2>4 DEF SentInv, Registered
<1>10. DueInv'
  BY <1>1, <1>5 DEF RInv, DueInv
<1>11. FaithInv'
  <2> SUFFICES ASSUME NEW x \in Sessions PROVE Faithful(copy[x])'
    BY <1>2 DEF FaithInv
  <2>1. PICK c \in Tables : c = copy'[x] /\ Faithful(c)
    <3>1. CASE x = s
      <4>1. <<>> \in Tables /\ Faithful(<<>>)
        BY DEF Tables, Faithful
      <4> QED
        BY <1>7, <3>1, <4>1
    <3>2. CASE x # s
      BY <1>7, <3>2 DEF RInv, FaithInv, TInv, ToolsTyped
    <3> QED
      BY <3>1, <3>2
  <2>2. Faithful(c)'
    BY <1>2, <2>1
  <2> QED
    BY <2>1, <2>2 DEF Faithful
<1>12. HeldInv'
  <2> SUFFICES ASSUME NEW m, Firm(m)', NEW x \in Sessions, Rewriting(x)'
               PROVE  Holds(copy'[x], m)
    BY <1>2 DEF HeldInv, Holds
  <2>1. x # s /\ Rewriting(x)
    BY <1>1, <1>3, <1>7 DEF Rewriting
  <2>2. m # msg[s]
    BY <1>1, <2>1 DEF Firm
  <2> QED
    BY <1>2, <1>7, <2>1, <2>2 DEF RInv, HeldInv
<1>13. CopyInv'
  <2> SUFFICES ASSUME NEW p \in Sessions, NEW u \in batch[p], Expected(u)'
               PROVE  /\ pc[p] \in {"tabled", "rostered", "route"} => Holds(copy'[p], chat[u].re)
                      /\ pc[p] \in {"rostered", "route"} => sent[chat[u].re] \in roster[p]
    BY <1>1 DEF CopyInv, Holds
  <2>1. u \in DOMAIN chat
    BY DEF RInv, KnownInv
  <2>2. pc[p] \in {"tabled", "rostered", "route"} => copy'[p] = copy[p]
    BY <1>3, <1>7
  <2> QED
    BY <1>6, <2>1, <2>2 DEF RInv, CopyInv
<1>14. PlaceInv'
  <2> SUFFICES ASSUME NEW x \in Sessions, NEW u \in Placed(x), Expected(u)'
               PROVE  x = sent[chat[u].re]
    <3>1. UNCHANGED <<chat, sent>> /\ \A x \in Sessions : Placed(x)' = Placed(x)
      BY <1>1, <1>7
    <3> QED
      BY <3>1 DEF PlaceInv
  <2>1. u \in DOMAIN chat
    BY DEF RInv, KnownInv
  <2> QED
    BY <1>6, <2>1 DEF RInv, PlaceInv
<1> QED
  BY <1>8, <1>9, <1>10, <1>11, <1>12, <1>13, <1>14 DEF RInv

\* The same for the steps that leave the table alone.
LEMMA QuietReplies ==
    ASSUME TInv, RInv,
           UNCHANGED <<chat, sent, registered, risked, table>>,
           \A x \in Sessions : Steady(x)
    PROVE  RInv'
<1>1. Faithful(table)'
  BY DEF RInv, FaithInv, Faithful, Registered
<1>2. ASSUME NEW m, Firm(m)' PROVE Holds(table', m)
  <2>1. Recent(m) /\ m \notin risked /\ Live(sent[m])'
    BY <1>2 DEF Firm, Recent, Live
  <2>2. sent[m] \in Sessions
    BY <2>1, SessionsAssumption DEF Recent, RInv, SentInv, TInv, ToolsTyped
  <2>3. Firm(m)
    BY <2>1, <2>2 DEF Firm, Steady
  <2> QED
    BY <2>3 DEF RInv, HeldInv
<1> QED
  BY <1>1, <1>2, SteadyReplies

\* The polling loop, but for the routing itself.
LEMMA PollingReplies ==
    ASSUME TInv, RInv, NEW s \in Sessions, PollingLoop(s)
    PROVE  RInv'
<1> DEFINE Idle == Promote(s) \/ Poll(s) \/ PollFails(s) \/ SaveOffset(s) \/ Denied(s)
                   \/ NoInbox(s) \/ ReadInbox(s) \/ UnlinkInbox(s) \/ UnlinkInboxFails(s)
                   \/ Process(s) \/ ProcessFails(s)
           Looks == ReadTable(s) \/ ReadRoster(s) \/ PickPrimary(s) \/ Routed(s)
<1>1. CASE Route(s)
  BY <1>1, RouteReplies
<1>2. ASSUME Idle \/ Looks
      PROVE  UNCHANGED <<chat, sent, registered, risked, table, task, msg>>
  BY <1>2 DEF Promote, Poll, PollFails, SaveOffset, Denied, NoInbox, ReadInbox, UnlinkInbox,
     UnlinkInboxFails, Process, ProcessFails, ReadTable, ReadRoster, PickPrimary, Routed,
     telegram, files, polling, tools, history
<1>3. ASSUME Idle, NEW x \in Sessions PROVE Steady(x)
  <2>1. UNCHANGED <<copy, roster>>
    BY <1>3 DEF Promote, Poll, PollFails, SaveOffset, Denied, NoInbox, ReadInbox, UnlinkInbox,
       UnlinkInboxFails, Process, ProcessFails, polling
  <2>2. pc[s] \in {"loop", "fetched", "reader", "unlink", "process"}
    BY <1>3 DEF Promote, Poll, PollFails, SaveOffset, Denied, NoInbox, ReadInbox, UnlinkInbox,
       UnlinkInboxFails, Process, ProcessFails
  <2>3. \E to \in {"loop", "fetched", "saved", "reader", "unlink", "process"} :
          pc' = pc \/ pc' = [pc EXCEPT ![s] = to]
    BY <1>3 DEF Promote, Poll, PollFails, SaveOffset, Denied, NoInbox, ReadInbox, UnlinkInbox,
       UnlinkInboxFails, Process, ProcessFails, Goto
  <2>4. /\ x # s => pc'[x] = pc[x]
        /\ pc'[s] \in {"loop", "fetched", "saved", "reader", "unlink", "process"}
    BY <2>2, <2>3 DEF TInv, IInv, Typed
  <2>5. batch'[x] \subseteq DOMAIN chat /\ (x # s => batch'[x] = batch[x])
    <3>1. CASE Poll(s)
      <4>1. PICK n \in Nat : n = Len(chat) /\ DOMAIN chat = 1..n
        BY DEF TInv, DataTyped
      <4>2. PICK low \in Nat : low = confirmed'
        <5>1. confirmed \in Nat /\ Asked(s) \in Int
          BY BoundsAssumption DEF Asked, TInv, DataTyped, Offsets
        <5>2. confirmed' = Larger(confirmed, Asked(s) - 1)
          BY <3>1 DEF Poll
        <5>3. \A a \in Nat, b \in Int : Larger(a, b) \in Nat
          BY DEF Larger
        <5>4. Asked(s) - 1 \in Int
          BY <5>1
        <5> QED
          BY <5>1, <5>2, <5>3, <5>4
      <4>3. PICK last \in Nat : last = Smaller(low + Batch, n) /\ last <= n
        <5>1. low + Batch \in Nat
          BY BoundsAssumption
        <5> QED
          BY <5>1, SmallerIsLess
      <4>4. (low + 1)..last \subseteq 1..n
        BY <4>3
      <4>5. \E B : batch' = [batch EXCEPT ![s] = B] /\ B \subseteq DOMAIN chat
        BY <3>1, <4>1, <4>2, <4>3, <4>4 DEF Poll
      <4> QED
        BY <4>5 DEF TInv, DataTyped, RInv, KnownInv
    <3>2. CASE ~Poll(s)
      <4>1. batch' = batch
        BY <1>3, <3>2 DEF Promote, PollFails, SaveOffset, Denied, NoInbox, ReadInbox,
           UnlinkInbox, UnlinkInboxFails, Process, ProcessFails, polling
      <4> QED
        BY <4>1 DEF RInv, KnownInv
    <3> QED
      BY <3>1, <3>2
  <2>6. Placed(x)' \subseteq Placed(x)
    <3>1. CASE \/ Promote(s) \/ Poll(s) \/ PollFails(s) \/ SaveOffset(s) \/ Denied(s)
               \/ NoInbox(s)
      BY <3>1 DEF Promote, Poll, PollFails, SaveOffset, Denied, NoInbox, files, polling,
         history, Placed
    <3>2. CASE ReadInbox(s)
      BY <3>2 DEF ReadInbox, Placed, TInv, DataTyped, files, history
    <3>3. CASE UnlinkInbox(s) \/ UnlinkInboxFails(s)
      BY <3>3, EmptySet DEF UnlinkInbox, UnlinkInboxFails, Placed, TInv, DataTyped, files,
         polling, history
    <3>4. CASE Process(s) \/ ProcessFails(s)
      <4>1. mine[s] # <<>> /\ mine[s] \in Seq(Updates)
        BY <3>4 DEF Process, ProcessFails, TInv, DataTyped, HandsInv
      <4>2. PICK u \in Updates : u = Head(mine[s]) /\ u \in ToSet(mine[s])
        BY <4>1, TailSet
      <4>3. ToSet(Append(delivered[s], u)) = ToSet(delivered[s]) \cup {u}
        BY AppendSet DEF TInv, DataTyped
      <4>4. /\ delivered' = [delivered EXCEPT ![s] = Append(@, u)] /\ inbox' = inbox
            /\ \E rest : mine' = [mine EXCEPT ![s] = rest] /\ ToSet(rest) \subseteq ToSet(mine[s])
        BY <3>4, <4>1, <4>2, TailSet, EmptySet DEF Process, ProcessFails, files
      <4> QED
        BY <4>2, <4>3, <4>4 DEF Placed, TInv, DataTyped
    <3> QED
      BY <1>3, <3>1, <3>2, <3>3, <3>4
  <2>7. Live(x)' => Live(x)
    BY <2>2, <2>4 DEF Live
  <2> QED
    BY <1>2, <1>3, <2>1, <2>2, <2>4, <2>5, <2>6, <2>7
       DEF Steady, Fresh, Copied, Rewriting
<1>4. ASSUME Looks, NEW x \in Sessions PROVE Steady(x)
  <2>1. /\ UNCHANGED <<batch, mine, inbox, delivered>>
        /\ pc[s] \in {"saved", "tabled", "rostered", "route"}
    BY <1>4 DEF ReadTable, ReadRoster, PickPrimary, Routed, files, polling, history
  <2>2. Placed(x)' = Placed(x) /\ batch'[x] = batch[x] /\ batch[x] \subseteq DOMAIN chat
    BY <2>1 DEF Placed, RInv, KnownInv
  <2>3. CASE x # s
    <3>1. pc'[x] = pc[x] /\ copy'[x] = copy[x] /\ roster'[x] = roster[x]
      BY <1>4, <2>3 DEF ReadTable, ReadRoster, PickPrimary, Routed, Goto, polling,
         TInv, IInv, Typed, ToolsTyped, DataTyped
    <3> QED
      BY <1>2, <1>4, <2>2, <3>1 DEF Steady, Live, Rewriting
  <2>4. CASE x = s
    <3>1. task[s] # "register" /\ task'[s] = task[s]
      BY <1>2, <1>4, <2>1 DEF TInv, IInv, TasksInv
    <3>2. CASE ReadTable(s)
      <4>1. pc'[s] = "tabled" /\ copy'[s] = table
        BY <3>2 DEF ReadTable, Goto, TInv, IInv, Typed, ToolsTyped
      <4> QED
        BY <1>2, <1>4, <2>1, <2>2, <2>4, <3>1, <4>1 DEF Steady, Live, Rewriting, Fresh, Copied
    <3>3. CASE ReadRoster(s)
      <4>1. pc[s] = "tabled" /\ pc'[s] = "rostered" /\ copy'[s] = copy[s]
            /\ roster'[s] = SeatedSessions
        BY <3>3 DEF ReadRoster, Goto, TInv, IInv, Typed, DataTyped
      <4> QED
        BY <1>2, <1>4, <2>1, <2>2, <2>4, <3>1, <4>1 DEF Steady, Live, Rewriting, Fresh, Copied
    <3>4. CASE PickPrimary(s)
      <4>1. pc[s] = "rostered" /\ pc'[s] = "route" /\ copy'[s] = copy[s]
            /\ roster'[s] = roster[s]
        BY <3>4 DEF PickPrimary, Goto, TInv, IInv, Typed
      <4> QED
        BY <1>2, <1>4, <2>1, <2>2, <2>4, <3>1, <4>1 DEF Steady, Live, Rewriting, Fresh, Copied
    <3>5. CASE Routed(s)
      <4>1. pc'[s] \in {"loop", "process"} /\ copy'[s] = <<>>
        BY <3>5 DEF Routed, Goto, TInv, IInv, Typed, ToolsTyped
      <4> QED
        BY <1>2, <1>4, <2>1, <2>2, <2>4, <3>1, <4>1 DEF Steady, Live, Rewriting, Fresh, Copied
    <3> QED
      BY <1>4, <3>2, <3>3, <3>4, <3>5
  <2> QED
    BY <2>3, <2>4
<1> QED
  BY <1>1, <1>2, <1>3, <1>4, QuietReplies DEF PollingLoop

\* Start-up and heartbeat.
LEMMA StartReplies ==
    ASSUME TInv, RInv, NEW s \in Sessions,
           Register(s) \/ Launch(s) \/ GoStale(s) \/ Heartbeat(s)
    PROVE  RInv'
<1>1. UNCHANGED <<chat, sent, registered, risked, table, msg, copy, batch, roster, mine,
                  delivered>>
  BY DEF Register, Launch, SweepVisit, RemoveSeat, RemoveInbox, Start, Started, GoStale,
     Heartbeat, BeatCheck, BeatRead, BeatRecreate, BeatWrite, telegram, files, polling, tools,
     history
<1>2. \A x \in Sessions : pc'[x] = pc[x] \/ (pc[x] \in Fresh /\ pc'[x] \in {"count", "clean", "loop"})
  <2>1. CASE Register(s) \/ Start(s) \/ Started(s)
    BY <2>1 DEF Register, Start, Started, Goto, TInv, IInv, Typed, Fresh
  <2>2. CASE ~(Register(s) \/ Start(s) \/ Started(s))
    <3>1. pc' = pc
      BY <2>2 DEF Launch, SweepVisit, RemoveSeat, RemoveInbox, GoStale, Heartbeat, BeatCheck,
         BeatRead, BeatRecreate, BeatWrite
    <3> QED
      BY <3>1
  <2> QED
    BY <2>1, <2>2
<1>3. \A x \in Sessions : task'[x] = task[x] \/ task'[x] \in {"none", "beat", "beating"}
  <2>1. CASE BeatCheck(s) \/ BeatRead(s) \/ BeatRecreate(s) \/ BeatWrite(s)
    BY <2>1 DEF BeatCheck, BeatRead, BeatRecreate, BeatWrite, TInv, IInv, Typed
  <2>2. CASE ~Heartbeat(s)
    <3>1. task' = task
      BY <2>2 DEF Register, Launch, SweepVisit, RemoveSeat, RemoveInbox, Start, Started,
         GoStale, tools
    <3> QED
      BY <3>1
  <2> QED
    BY <2>1, <2>2 DEF Heartbeat
<1>4. \A x \in Sessions : Placed(x)' \subseteq Placed(x)
  <2>1. \A x \in Sessions : inbox'[x] = inbox[x] \/ inbox'[x] = <<>>
    BY DEF Register, Launch, SweepVisit, RemoveSeat, RemoveInbox, Start, Started, GoStale,
       Heartbeat, BeatCheck, BeatRead, BeatRecreate, BeatWrite, files, TInv, DataTyped
  <2> QED
    BY <1>1, <2>1, EmptySet DEF Placed
<1>5. ASSUME NEW x \in Sessions PROVE Steady(x)
  <2>1. batch'[x] \subseteq DOMAIN chat
    BY <1>1 DEF RInv, KnownInv
  <2> QED
    BY <1>1, <1>2, <1>3, <1>4, <2>1 DEF Steady, Live, Rewriting, Fresh, Copied
<1> QED
  BY <1>1, <1>5, QuietReplies

\* A session that shuts down takes only its own entries out of the table, and it is
\* not live any more when it has; a crash leaves the table.
LEMMA EndReplies ==
    ASSUME TInv, RInv, NEW s \in Sessions, Stop(s) \/ Shutdown(s) \/ Crash(s)
    PROVE  RInv'
<1>1. UNCHANGED <<chat, sent, registered, risked, delivered>>
  BY DEF Stop, Shutdown, StopRelease, StopDiscard, StopReadTable, StopWriteTable, Unregister,
     Crash, telegram, history
<1>2. \A x \in Sessions \ {s} :
        /\ pc'[x] = pc[x] /\ task'[x] = task[x] /\ msg'[x] = msg[x] /\ copy'[x] = copy[x]
        /\ batch'[x] = batch[x] /\ roster'[x] = roster[x]
  <2>1. \E to \in Labels : pc' = [pc EXCEPT ![s] = to]
    BY DEF Stop, Shutdown, StopRelease, StopDiscard, StopReadTable, StopWriteTable, Unregister,
       Crash, Goto, Labels
  <2>2. /\ msg' = msg \/ msg' = [msg EXCEPT ![s] = 0]
        /\ task' = task \/ task' = [task EXCEPT ![s] = "none"]
        /\ \E c : copy' = copy \/ copy' = [copy EXCEPT ![s] = c]
    BY DEF Stop, Shutdown, StopRelease, StopDiscard, StopReadTable, StopWriteTable, Unregister,
       Crash, tools
  <2>3. /\ batch' = batch \/ batch' = [batch EXCEPT ![s] = {}]
        /\ roster' = roster \/ roster' = [roster EXCEPT ![s] = {}]
    BY DEF Stop, Shutdown, StopRelease, StopDiscard, StopReadTable, StopWriteTable, Unregister,
       Crash, polling
  <2> QED
    BY <2>1, <2>2, <2>3 DEF TInv, IInv, Typed, DataTyped, ToolsTyped
<1>3. /\ pc'[s] \in {"release", "discard", "forget", "rewrite", "unregister", "gone"}
      /\ pc[s] = "unregister" => pc'[s] = "gone"
      /\ pc[s] # "gone"
      /\ pc'[s] = "rewrite" => copy'[s] = table
      /\ copy'[s] \in {copy[s], table, <<>>}
      /\ batch'[s] \subseteq batch[s]
    BY DEF Stop, Shutdown, StopRelease, StopDiscard, StopReadTable, StopWriteTable, Unregister,
       Crash, Goto, AtAwait, Alive, polling, TInv, IInv, Typed, DataTyped, ToolsTyped
<1>4. task'[s] \notin {"sent", "register"}
  <2>1. CASE Stop(s) \/ Crash(s)
    BY <2>1 DEF Stop, Crash, TInv, IInv, Typed
  <2>2. CASE Shutdown(s)
    <3>1. task' = task /\ ~Running(s)
      BY <2>2 DEF Shutdown, StopRelease, StopDiscard, StopReadTable, StopWriteTable, Unregister,
         Running, tools
    <3> QED
      BY <3>1 DEF TInv, IInv, TasksInv
  <2> QED
    BY <2>1, <2>2
<1>5. \A x \in Sessions : Placed(x)' \subseteq Placed(x)
  <2>1. \A x \in Sessions : /\ mine'[x] = mine[x] \/ mine'[x] = <<>>
                            /\ inbox'[x] = inbox[x] \/ inbox'[x] = <<>>
    BY DEF Stop, Shutdown, StopRelease, StopDiscard, StopReadTable, StopWriteTable, Unregister,
       Crash, files, polling, TInv, DataTyped
  <2> QED
    BY <1>1, <2>1, EmptySet DEF Placed
<1>6. ASSUME NEW x \in Sessions PROVE Steady(x)
  <2>1. batch'[x] \subseteq DOMAIN chat
    BY <1>2, <1>3 DEF RInv, KnownInv
  <2>2. CASE x # s
    <3>1. Live(x)' = Live(x) /\ Rewriting(x)' = Rewriting(x)
      BY <1>2, <2>2 DEF Live, Rewriting
    <3> QED
      BY <1>2, <1>5, <2>1, <2>2, <3>1 DEF Steady
  <2>3. CASE x = s
    <3>1. Live(s)' => Live(s)
      BY <1>3 DEF Live
    <3>2. Rewriting(s)' => copy'[s] = table
      BY <1>3, <1>4 DEF Rewriting
    <3> QED
      BY <1>3, <1>4, <1>5, <2>1, <2>3, <3>1, <3>2 DEF Steady, Fresh, Copied
  <2> QED
    BY <2>2, <2>3
<1>7. CASE ~StopWriteTable(s)
  <2>1. table' = table
    BY <1>7 DEF Stop, Shutdown, StopRelease, StopDiscard, StopReadTable, Unregister, Crash, files
  <2> QED
    BY <1>1, <1>6, <2>1, QuietReplies
<1>8. CASE StopWriteTable(s) /\ table' # table
  <2>1. pc[s] = "rewrite" /\ pc'[s] = "unregister" /\ table' = Without(copy[s], s)
    BY <1>8 DEF StopWriteTable, Written, Goto, TInv, IInv, Typed
  <2>2. PICK c \in Seq([msg : Messages, session : Sessions]) :
          c = copy[s] /\ Faithful(c) /\ \A m : Firm(m) => Holds(c, m)
    <3>1. Rewriting(s)
      BY <2>1 DEF Rewriting
    <3> QED
      BY <3>1 DEF RInv, FaithInv, HeldInv, TInv, ToolsTyped, Tables
  <2>3. PICK w \in Seq([msg : Messages, session : Sessions]) :
          /\ w = table'
          /\ \A j \in DOMAIN w : \E i \in DOMAIN c :
               w[j] = c[i] /\ c[i].session # s /\ Len(w) - j <= Len(c) - i
          /\ \A i \in DOMAIN c : c[i].session # s => \E j \in DOMAIN w : w[j] = c[i]
    <3>1. PICK w : w = Without(c, s)
      OBVIOUS
    <3>2. /\ w \in Seq([msg : Messages, session : Sessions])
          /\ \A j \in DOMAIN w : \E i \in DOMAIN c :
               w[j] = c[i] /\ c[i].session # s /\ Len(w) - j <= Len(c) - i
          /\ \A i \in DOMAIN c : c[i].session # s => \E j \in DOMAIN w : w[j] = c[i]
      BY <3>1, WithoutKeeps
    <3> QED
      BY <2>1, <2>2, <3>1, <3>2
  <2>4. Faithful(table)'
    <3> SUFFICES ASSUME NEW j \in DOMAIN w
                 PROVE  /\ Registered(w[j].msg) /\ w[j].session = sent[w[j].msg]
                        /\ \A i \in DOMAIN registered :
                             registered[i] = w[j].msg => Len(w) - j <= Len(registered) - i
      BY <1>1, <2>3 DEF Faithful, Registered
    <3>1. PICK l \in DOMAIN c : w[j] = c[l] /\ Len(w) - j <= Len(c) - l
      BY <2>3
    <3>2. /\ Registered(c[l].msg) /\ c[l].session = sent[c[l].msg]
          /\ \A i \in DOMAIN registered :
               registered[i] = c[l].msg => Len(c) - l <= Len(registered) - i
      BY <2>2 DEF Faithful
    <3>3. ASSUME NEW i \in DOMAIN registered, registered[i] = c[l].msg
          PROVE  Len(w) - j <= Len(registered) - i
      <4>1. Len(c) - l <= Len(registered) - i
        BY <3>2, <3>3
      <4>2. /\ Len(w) \in Int /\ j \in Int /\ Len(c) \in Int /\ l \in Int
            /\ Len(registered) \in Int /\ i \in Int
        BY DEF TInv, ToolsTyped
      <4> QED
        BY <3>1, <4>1, <4>2
    <3> QED
      BY <3>1, <3>2, <3>3
  <2>5. ASSUME NEW m, Firm(m)' PROVE Holds(table', m)
    <3>1. Recent(m) /\ m \notin risked /\ Live(sent[m])'
      BY <1>1, <2>5 DEF Firm, Recent, Live
    <3>2. sent[m] \in Sessions
      BY <3>1, SessionsAssumption DEF Recent, RInv, SentInv, TInv, ToolsTyped
    <3>3. Firm(m) /\ sent[m] # s
      <4>1. PICK b \in Sessions : b = sent[m]
        BY <3>2
      <4>2. Live(b)'
        BY <1>1, <3>1, <4>1 DEF Live
      <4>3. Live(b) /\ b # s
        BY <1>6, <2>1, <4>2 DEF Steady, Live
      <4> QED
        BY <3>1, <4>1, <4>3 DEF Firm
    <3>4. PICK i \in DOMAIN c : c[i].msg = m
      BY <2>2, <3>3 DEF Holds
    <3>5. c[i].session = sent[m]
      BY <2>2, <3>4 DEF Faithful
    <3> QED
      BY <2>3, <3>3, <3>4, <3>5 DEF Holds
  <2> QED
    BY <1>1, <1>6, <2>4, <2>5, SteadyReplies
<1>9. CASE table' = table
  BY <1>1, <1>6, <1>9, QuietReplies
<1> QED
  BY <1>7, <1>8, <1>9

\* Every step of the router keeps the way of the replies.
LEMMA RInvStep == TInv /\ RInv /\ [Next]_vars => RInv'
<1> SUFFICES ASSUME TInv, RInv, [Next]_vars PROVE RInv'
  OBVIOUS
<1>1. CASE UNCHANGED vars
  <2>1. UNCHANGED <<chat, sent, registered, risked, table, msg, copy, pc, task, batch, roster,
                    mine, inbox, delivered>>
    BY <1>1 DEF vars, telegram, files, polling, tools, history
  <2>2. \A x \in Sessions : Steady(x)
    BY <2>1 DEF Steady, Placed, Live, Rewriting, RInv, KnownInv
  <2> QED
    BY <2>1, <2>2, QuietReplies
<1>2. CASE (\E m \in {NoReply} \cup Messages : UserWrites(m)) \/ StrangerWrites
  BY <1>2, ChatReplies
<1>3. ASSUME NEW s \in Sessions,
             \/ Register(s) \/ Launch(s) \/ PollingLoop(s)
             \/ Send(s) \/ RegisterMessage(s)
             \/ GoStale(s) \/ Heartbeat(s)
             \/ Stop(s) \/ Shutdown(s) \/ Crash(s)
      PROVE  RInv'
  <2>1. CASE RegisterRead(s)
    <3>1. /\ pc[s] \in {"loop", "process"} /\ task[s] = "sent"
          /\ copy' = [copy EXCEPT ![s] = table]
          /\ task' = [task EXCEPT ![s] = "register"]
          /\ UNCHANGED <<chat, sent, registered, risked, table, msg, pc, batch, roster, mine,
                         inbox, delivered>>
      BY <2>1 DEF RegisterRead, AtAwait, telegram, files, polling, history
    <3>2. ASSUME NEW x \in Sessions PROVE Steady(x)
      <4>1. /\ Placed(x)' = Placed(x) /\ batch[x] \subseteq DOMAIN chat
            /\ x # s => copy'[x] = copy[x] /\ task'[x] = task[x]
            /\ copy'[s] = table /\ task'[s] = "register"
        BY <3>1 DEF Placed, RInv, KnownInv, TInv, IInv, Typed, ToolsTyped
      <4> QED
        BY <3>1, <4>1 DEF Steady, Live, Rewriting, Fresh, Copied
    <3> QED
      BY <3>1, <3>2, QuietReplies
  <2> QED
    BY <1>3, <2>1, StartReplies, PollingReplies, SendReplies, RegisterWriteReplies, EndReplies
       DEF RegisterMessage
<1> QED
  BY <1>1, <1>2, <1>3 DEF Next

\* The types and the way of the replies hold at all times.
LEMMA RepliesInvariant == Spec => [](TInv /\ RInv)
<1>1. TInv /\ RInv /\ [Next]_vars => (TInv /\ RInv)'
  BY TInvStep, RInvStep
<1> QED
  BY <1>1, InitTInv, InitRInv, PTL DEF Spec

-----------------------------------------------------------------------------
\* Every variable of the router keeps its type, whatever fails: offsets stay in
\* range of the chat, inboxes hold updates that were written, and the routing
\* table, through every rewrite, messages that were sent.
THEOREM TypeCorrect == Spec => []TypeOK
<1>1. TInv => TypeOK
  BY DEF TInv, IInv, Typed, DataTyped, ToolsTyped, TypeOK, Entries
<1> QED
  BY <1>1, InitTInv, TInvStep, PTL DEF Spec

\* poll.lock elects one poller: whoever routes a batch holds it, and a session
\* that is gone or no longer polls does not keep it (_try_acquire_lock,
\* _release_lock).
THEOREM OnePollerElected == Spec => []OnePoller
<1>1. IInv => OnePoller
  BY DEF IInv
<1> QED
  BY <1>1, Invariant, PTL

\* No sweep takes the session file of a running session that sends its
\* heartbeats in time (count_active_sessions, _cleanup_stale_sessions).
THEOREM RunningKeepsFile == Spec => []RunningSeated
<1>1. IInv => RunningSeated
  BY DEF IInv, AliveSeated, RunningSeated, Running, Alive
<1> QED
  BY <1>1, Invariant, PTL

\* A heartbeat never brings back the file of a session that shut down
\* (_update_heartbeat, unregister_session).
THEOREM NoFileComesBack == Spec => []NoGhostFile
<1>1. IInv => NoGhostFile
  BY DEF IInv
<1> QED
  BY <1>1, Invariant, PTL

\* An update of the authorized chat is processed by one session at most, once, and
\* in the order of the chat, unless the write of offset.json failed when it was
\* routed: the sessions implement UpdateDelivery whatever they do to each other's
\* files, wherever one of them stops or dies, and however many writes of
\* offset.json fail (_poll_and_route, _read_inbox).
THEOREM UpdatesDeliveredOnce == Spec => DeliveredOnceInOrder
<1>1. IInv /\ DInv /\ [Next]_vars => [Delivery!Next]_(Delivery!vars)
  BY DeliveryStep
<1> QED
  BY <1>1, DeliveryStarts, DeliveryInvariant, PTL
     DEF Spec, DeliveredOnceInOrder, Delivery!Spec

\* A reply to a message that was registered when the user answered, and that the
\* table keeps room for, is processed by nobody but the session that sent the
\* message, as long as that session runs and neither oversleeps nor fails to
\* write (register_message, _route_update).  Any number of sessions send, poll,
\* route, shut down and crash; only a message that was registered while another
\* session had the table open for a rewrite is exempt.
THEOREM RepliesReachTheAsker == Spec => []RepliesReachAsker
<1>1. TInv /\ RInv => RepliesReachAsker
  <2> SUFFICES ASSUME RInv,
                      NEW s \in Sessions, NEW u \in ToSet(delivered[s]), chat[u].due,
                      chat[u].re \notin risked, Recent(chat[u].re),
                      Running(sent[chat[u].re]), sent[chat[u].re] \notin Stalling \cup Failing
               PROVE  sent[chat[u].re] = s
    BY DEF RepliesReachAsker, RepliesReach, Recent
  <2>1. Live(sent[chat[u].re])
    BY DEF Live, Running
  <2>2. Expected(u) /\ u \in Placed(s)
    BY <2>1 DEF Expected, Firm, Placed
  <2> QED
    BY <2>2 DEF RInv, PlaceInv
<1> QED
  BY <1>1, RepliesInvariant, PTL
=============================================================================
