----------------------- MODULE HandoffEmissionProofs -----------------------
(* Theorems about HandoffEmission, for every value of its constants. *)
EXTENDS HandoffEmission, SequenceTheorems, FiniteSetTheorems, TLAPS

PCs == {"idle", "claim", "append", "skip", "unclaim", "done", "killed"}
Emitting == {"claim", "append", "skip", "unclaim"}

\* append_event runs only where the hook calls it.
Busy == \A f \in Fires : appending[f] # "no" => pc[f] \in {"append", "skip"}

\* Who writes holds the lock.
Locked ==
    \A f \in Fires :
        appending[f] \in {"locked", "rest", "written", "broken"} => flock = f

\* The rest of an entry goes where its head is the last piece of the file.
HeadPending ==
    \A f \in Fires : appending[f] = "rest" =>
        /\ Len(journal) > 0
        /\ journal[Len(journal)] = [entry |-> Entry(f), part |-> "head"]

\* append_event returns True for an event that is in the journal.
Acknowledged ==
    \A f \in Fires : pc[f] = "append" /\ appending[f] = "ok" => Event(f) \in acked

\* The inductive invariant.
IInv == TypeOK /\ Busy /\ Locked /\ HeadPending /\ Acknowledged
        /\ PiecesTogether /\ MarkerBacked

-----------------------------------------------------------------------------
(* Sequences of keys, and typing of what the actions share *)

LEMMA HeadTail ==
    ASSUME NEW S, NEW s \in Seq(S), s # <<>>
    PROVE  /\ Head(s) \in S
           /\ Tail(s) \in Seq(S)
           /\ Len(s) # 1 => Tail(s) # <<>>
<1>1. Len(s) \in Nat \ {0}
  BY EmptySeq
<1>2. Len(Tail(s)) = Len(s) - 1
  BY HeadTailProperties
<1>3. Len(<<>>) = 0
  BY EmptySeq
<1>4. ASSUME Tail(s) = <<>>
      PROVE  Len(s) = 1
  <2>1. Len(Tail(s)) = 0
    BY <1>3, <1>4, Zenon
  <2>2. Len(s) - 1 = 0
    BY <1>2, <2>1, Zenon
  <2> DEFINE n == Len(s)
  <2>3. n \in Nat /\ n - 1 = 0
    BY <1>1, <2>2
  <2> HIDE DEF n
  <2>4. n = 1
    BY <2>3
  <2> QED
    BY <2>4 DEF n
<1> QED
  BY <1>4, HeadTailProperties

LEMMA KeyType ==
    ASSUME TypeOK, NEW f \in Fires, pc[f] \in Emitting
    PROVE  /\ Key(f) \in Keys
           /\ Event(f) \in Entries
           /\ Skip(f) \in Entries
           /\ Entry(f) \in Entries
<1>1. Key(f) \in Keys
  BY HeadTail DEF TypeOK, Emitting, Key
<1>2. Event(f) \in Entries /\ Skip(f) \in Entries
  BY <1>1, EntriesAssumption DEF Event, Skip
<1> QED
  BY <1>1, <1>2 DEF Entry

\* TypeOK without the journal's part.
EmissionTypeOK ==
    /\ pc \in [Fires -> PCs]
    /\ todo \in [Fires -> Seq(Keys)]
    /\ \A f \in Fires : pc[f] \in Emitting => todo[f] # <<>>
    /\ marker \in [Keys -> Fires \cup {NoMarker}]
    /\ openClaims \in [Keys -> Nat]
    /\ stranded \subseteq Keys

LEMMA TypeSplit == TypeOK <=> JournalTypeOK /\ EmissionTypeOK
BY DEF TypeOK, EmissionTypeOK, PCs, Emitting

LEMMA LeaveType ==
    ASSUME TypeOK, NEW f \in Fires, pc[f] \in Emitting, Leave(f),
           marker' \in [Keys -> Fires \cup {NoMarker}],
           openClaims' = openClaims, stranded' \subseteq Keys
    PROVE  EmissionTypeOK'
<1>1. Tail(todo[f]) \in Seq(Keys) /\ (Len(todo[f]) # 1 => Tail(todo[f]) # <<>>)
  BY HeadTail DEF TypeOK, Emitting
<1>2. todo' \in [Fires -> Seq(Keys)]
  BY <1>1 DEF TypeOK, Leave
<1>3. pc' \in [Fires -> PCs]
  BY DEF TypeOK, Leave, Goto, PCs
<1>4. \A g \in Fires : pc'[g] \in Emitting => todo'[g] # <<>>
  BY <1>1 DEF TypeOK, Leave, Goto, Emitting
<1> QED
  BY <1>2, <1>3, <1>4 DEF EmissionTypeOK, TypeOK

\* Moving on within an emission.
LEMMA GotoType ==
    ASSUME TypeOK, NEW f \in Fires, NEW l \in PCs, Goto(f, l), todo' = todo,
           l \in Emitting => todo[f] # <<>>
    PROVE  /\ pc' \in [Fires -> PCs]
           /\ todo' \in [Fires -> Seq(Keys)]
           /\ \A g \in Fires : pc'[g] \in Emitting => todo'[g] # <<>>
BY DEF TypeOK, Goto, PCs, Emitting

LEMMA AtType ==
    ASSUME JournalTypeOK, NEW f \in Fires, NEW l \in Appending, At(f, l)
    PROVE  appending' \in [Writers -> Appending]
BY FiresAssumption DEF JournalTypeOK, At

LEMMA PutType ==
    ASSUME JournalTypeOK, NEW e \in Entries, NEW part \in {"all", "head", "tail"},
           Put(e, part)
    PROVE  /\ journal' \in Seq(Pieces)
           /\ Len(journal') = Len(journal) + 1
           /\ journal'[Len(journal')] = [entry |-> e, part |-> part]
           /\ \A i \in DOMAIN journal : journal'[i] = journal[i]
<1>1. [entry |-> e, part |-> part] \in Pieces
  BY DEF Pieces
<1> QED
  BY <1>1 DEF Put, JournalTypeOK

LEMMA AppendStepType ==
    ASSUME TypeOK, NEW f \in Fires, AppendStep(f)
    PROVE  JournalTypeOK'
<1> DEFINE e == Entry(f)
<1>0. JournalTypeOK /\ e \in Entries /\ f \in Writers
  BY KeyType, FiresAssumption DEF TypeOK, AppendStep, Emitting
<1> HIDE DEF e
<1>1. CASE AppendOpen(f)
  BY <1>0, <1>1, AtType DEF AppendOpen, JournalTypeOK, Appending
<1>2. CASE AppendRefused(f)
  BY <1>0, <1>2, AtType DEF AppendRefused, JournalTypeOK, Appending
<1>3. CASE AppendLock(f)
  BY <1>0, <1>3, AtType DEF AppendLock, JournalTypeOK, Appending
<1>4. CASE AppendAll(f, e)
  BY <1>0, <1>4, AtType, PutType DEF AppendAll, JournalTypeOK, Appending
<1>5. CASE AppendHead(f, e)
  BY <1>0, <1>5, AtType, PutType DEF AppendHead, JournalTypeOK, Appending
<1>6. CASE AppendTail(f, e)
  BY <1>0, <1>6, AtType, PutType DEF AppendTail, JournalTypeOK, Appending
<1>7. CASE AppendBreaks(f)
  BY <1>0, <1>7, AtType DEF AppendBreaks, JournalTypeOK, Appending
<1>8. CASE AppendUnlock(f, e)
  <2>1. appending' \in [Writers -> Appending]
    BY <1>0, <1>8, AtType DEF AppendUnlock, Appending
  <2> QED
    BY <1>0, <1>8, <2>1 DEF AppendUnlock, JournalTypeOK
<1> QED
  BY <1>1, <1>2, <1>3, <1>4, <1>5, <1>6, <1>7, <1>8 DEF AppendStep, e

LEMMA ReturnedType ==
    ASSUME JournalTypeOK, NEW f \in Fires, NEW result, Returned(f, result)
    PROVE  JournalTypeOK'
BY AtType DEF Returned, JournalTypeOK, Appending

LEMMA JournalUnchanged ==
    ASSUME JournalTypeOK, UNCHANGED journalVars
    PROVE  JournalTypeOK'
BY DEF JournalTypeOK, journalVars

-----------------------------------------------------------------------------
LEMMA TypeInit == Init => TypeOK
<1> SUFFICES ASSUME Init PROVE TypeOK
  OBVIOUS
<1>1. JournalTypeOK
  BY DEF Init, JournalInit, JournalTypeOK, Appending
<1>2. EmissionTypeOK
  BY FiresAssumption DEF Init, EmissionTypeOK, PCs, Emitting
<1> QED
  BY <1>1, <1>2, TypeSplit

LEMMA TypeStep == TypeOK /\ [Next]_vars => TypeOK'
<1> SUFFICES ASSUME TypeOK, [Next]_vars PROVE JournalTypeOK' /\ EmissionTypeOK'
  BY TypeSplit DEF TypeOK, EmissionTypeOK, PCs, Emitting
<1>0. JournalTypeOK /\ EmissionTypeOK
  BY TypeSplit
<1>a. SUFFICES ASSUME NEW f \in Fires, Fire(f) \/ Gated(f) \/ Step(f) \/ Kill(f)
               PROVE  JournalTypeOK' /\ EmissionTypeOK'
  <2>1. CASE UNCHANGED vars
    BY <1>0, <2>1 DEF vars, journalVars, JournalTypeOK, EmissionTypeOK
  <2> QED
    BY <2>1 DEF Next
<1>1. CASE Fire(f)
  <2>1. EmissionTypeOK'
    BY <1>0, <1>1, GotoType DEF Fire, history, EmissionTypeOK, PCs
  <2> QED
    BY <1>0, <1>1, <2>1, JournalUnchanged DEF Fire
<1>2. CASE Gated(f)
  <2>1. EmissionTypeOK'
    BY <1>0, <1>2, GotoType DEF Gated, history, EmissionTypeOK, PCs, Emitting
  <2> QED
    BY <1>0, <1>2, <2>1, JournalUnchanged DEF Gated
<1>3. CASE Claim(f)
  <2>1. marker' \in [Keys -> Fires \cup {NoMarker}]
    BY <1>3 DEF Claim, TypeOK
  <2>2. EmissionTypeOK'
    BY <1>0, <1>3, <2>1, GotoType DEF Claim, history, EmissionTypeOK, PCs, Emitting
  <2> QED
    BY <1>0, <1>3, <2>2, JournalUnchanged DEF Claim
<1>4. CASE Suppressed(f)
  BY <1>0, <1>4, LeaveType, JournalUnchanged
     DEF Suppressed, history, EmissionTypeOK, Emitting
<1>5. CASE ClaimFailsOpen(f)
  <2>1. openClaims' \in [Keys -> Nat]
    <3>1. openClaims \in [Keys -> Nat]
      BY DEF TypeOK
    <3> DEFINE k == Key(f)
    <3>2. openClaims' = [openClaims EXCEPT ![k] = openClaims[k] + 1]
      BY <1>5 DEF ClaimFailsOpen
    <3>3. k \in Keys => openClaims[k] + 1 \in Nat
      BY <3>1
    <3> HIDE DEF k
    <3> QED
      BY <3>1, <3>2, <3>3
  <2>2. EmissionTypeOK'
    BY <1>0, <1>5, <2>1, GotoType DEF ClaimFailsOpen, EmissionTypeOK, PCs, Emitting
  <2> QED
    BY <1>0, <1>5, <2>2, JournalUnchanged DEF ClaimFailsOpen
<1>6. CASE AppendStep(f)
  BY <1>0, <1>6, AppendStepType DEF AppendStep, history, EmissionTypeOK
<1>7. CASE Appended(f)
  <2>1. EmissionTypeOK'
    BY <1>0, <1>7, LeaveType DEF Appended, history, EmissionTypeOK, Emitting
  <2> QED
    BY <1>0, <1>7, <2>1, ReturnedType DEF Appended
<1>8. CASE AppendFailed(f)
  <2>1. EmissionTypeOK'
    BY <1>0, <1>8, GotoType DEF AppendFailed, history, EmissionTypeOK, PCs, Emitting
  <2> QED
    BY <1>0, <1>8, <2>1, ReturnedType DEF AppendFailed
<1>9. CASE SkipRecorded(f)
  <2>1. EmissionTypeOK'
    BY <1>0, <1>9, GotoType DEF SkipRecorded, history, EmissionTypeOK, PCs, Emitting
  <2> QED
    BY <1>0, <1>9, <2>1, ReturnedType DEF SkipRecorded
<1>10. CASE Unclaim(f)
  <2>1. marker' \in [Keys -> Fires \cup {NoMarker}]
    BY <1>10 DEF Unclaim, TypeOK
  <2> QED
    BY <1>0, <1>10, <2>1, LeaveType, JournalUnchanged
       DEF Unclaim, history, EmissionTypeOK, Emitting
<1>11. CASE UnclaimFails(f)
  <2>1. stranded' \subseteq Keys
    BY <1>0, <1>11, KeyType DEF UnclaimFails, EmissionTypeOK, Emitting
  <2> QED
    BY <1>0, <1>11, <2>1, LeaveType, JournalUnchanged
       DEF UnclaimFails, EmissionTypeOK, Emitting
<1>12. CASE Kill(f)
  <2>1. pc[f] \in Emitting
    BY <1>0, <1>12 DEF Kill, EmissionTypeOK, PCs, Emitting
  <2>2. stranded' \subseteq Keys
    BY <1>0, <1>12, <2>1, KeyType DEF Kill, EmissionTypeOK
  <2>3. EmissionTypeOK'
    BY <1>0, <1>12, <2>2, GotoType DEF Kill, EmissionTypeOK, PCs, Emitting
  <2>4. JournalTypeOK'
    BY <1>0, <1>12, AtType DEF Kill, JournalKill, JournalTypeOK, Appending
  <2> QED
    BY <2>3, <2>4
<1> QED
  BY <1>a, <1>1, <1>2, <1>3, <1>4, <1>5, <1>6, <1>7, <1>8, <1>9, <1>10, <1>11, <1>12
     DEF Step

-----------------------------------------------------------------------------
(* The strengthening.  Only the steps of f change what is said of f; the *)
(* other processes keep their place.                                     *)

Alone(f) ==
    \A g \in Fires \ {f} :
        pc'[g] = pc[g] /\ appending'[g] = appending[g] /\ todo'[g] = todo[g]

LEMMA AloneStep ==
    ASSUME TypeOK, NEW f \in Fires, Fire(f) \/ Gated(f) \/ Step(f) \/ Kill(f)
    PROVE  Alone(f)
<1>0. /\ pc \in [Fires -> PCs] /\ todo \in [Fires -> Seq(Keys)]
      /\ appending \in [Fires -> Appending]
  BY FiresAssumption DEF TypeOK, JournalTypeOK, PCs
<1>1. CASE AppendStep(f)
  BY <1>0, <1>1 DEF Alone, AppendStep, AppendOpen, AppendRefused, AppendLock,
     AppendAll, AppendHead, AppendTail, AppendBreaks, AppendUnlock, At
<1>2. CASE Fire(f) \/ Gated(f) \/ Claim(f) \/ Suppressed(f) \/ ClaimFailsOpen(f)
           \/ Unclaim(f) \/ UnclaimFails(f)
  BY <1>0, <1>2 DEF Alone, Fire, Gated, Claim, Suppressed, ClaimFailsOpen, Unclaim,
     UnclaimFails, Goto, Leave, journalVars
<1>3. CASE Appended(f) \/ AppendFailed(f) \/ SkipRecorded(f) \/ Kill(f)
  BY <1>0, <1>3 DEF Alone, Appended, AppendFailed, SkipRecorded, Kill, JournalKill,
     Returned, Goto, Leave, At
<1> QED
  BY <1>1, <1>2, <1>3 DEF Step

\* Outside append_event and its return nothing of the journal changes.
Outside(f) == Fire(f) \/ Gated(f) \/ Claim(f) \/ Suppressed(f) \/ ClaimFailsOpen(f)
              \/ Unclaim(f) \/ UnclaimFails(f)
Return(f) == Appended(f) \/ AppendFailed(f) \/ SkipRecorded(f)

LEMMA StepCases ==
    ASSUME NEW f \in Fires, Fire(f) \/ Gated(f) \/ Step(f) \/ Kill(f)
    PROVE  Outside(f) \/ AppendStep(f) \/ Return(f) \/ Kill(f)
BY DEF Step, Outside, Return

LEMMA OutsideJournal ==
    ASSUME NEW f \in Fires, Outside(f)
    PROVE  /\ pc[f] \in {"idle", "claim", "unclaim"}
           /\ UNCHANGED <<journal, flock, appending, acked>>
BY DEF Outside, Fire, Gated, Claim, Suppressed, ClaimFailsOpen, Unclaim,
   UnclaimFails, journalVars

LEMMA ReturnJournal ==
    ASSUME TypeOK, NEW f \in Fires, Return(f)
    PROVE  /\ appending[f] \in {"ok", "failed"}
           /\ appending'[f] = "no"
           /\ UNCHANGED <<journal, flock, acked>>
BY FiresAssumption
   DEF Return, Appended, AppendFailed, SkipRecorded, Returned, At, TypeOK, JournalTypeOK

LEMMA KillJournal ==
    ASSUME TypeOK, NEW f \in Fires, Kill(f)
    PROVE  /\ appending'[f] = "no"
           /\ flock' = IF flock = f THEN Unlocked ELSE flock
           /\ UNCHANGED <<journal, acked>>
BY FiresAssumption DEF Kill, JournalKill, At, TypeOK, JournalTypeOK

\* What a step of append_event does to the process that takes it.
LEMMA AppendStepEffect ==
    ASSUME TypeOK, NEW f \in Fires, AppendStep(f)
    PROVE  /\ pc' = pc /\ todo' = todo /\ marker' = marker /\ stranded' = stranded
           /\ pc[f] \in {"append", "skip"}
           /\ \/ /\ appending'[f] \in {"open", "failed"}
                 /\ appending[f] = "no"
                 /\ UNCHANGED <<journal, flock, acked>>
              \/ /\ appending'[f] = "locked" /\ appending[f] = "open"
                 /\ flock = Unlocked /\ flock' = f
                 /\ UNCHANGED <<journal, acked>>
              \/ /\ appending'[f] = "written" /\ appending[f] = "locked"
                 /\ Put(Entry(f), "all")
                 /\ UNCHANGED <<flock, acked>>
              \/ /\ appending'[f] = "rest" /\ appending[f] = "locked"
                 /\ Put(Entry(f), "head")
                 /\ UNCHANGED <<flock, acked>>
              \/ /\ appending'[f] = "written" /\ appending[f] = "rest"
                 /\ Put(Entry(f), "tail")
                 /\ UNCHANGED <<flock, acked>>
              \/ /\ appending'[f] = "broken" /\ appending[f] \in {"locked", "rest"}
                 /\ UNCHANGED <<journal, flock, acked>>
              \/ /\ appending[f] \in {"written", "broken"} /\ flock' = Unlocked
                 /\ \/ appending'[f] = "ok" /\ acked' = acked \cup {Entry(f)}
                    \/ appending'[f] = "failed" /\ acked' = acked
                 /\ UNCHANGED journal
<1>0. appending \in [Fires -> Appending]
  BY FiresAssumption DEF TypeOK, JournalTypeOK
<1> QED
  BY <1>0 DEF AppendStep, AppendOpen, AppendRefused, AppendLock, AppendAll, AppendHead,
     AppendTail, AppendBreaks, AppendUnlock, At, history

LEMMA BusyStep ==
    ASSUME TypeOK, Busy, NEW f \in Fires, Fire(f) \/ Gated(f) \/ Step(f) \/ Kill(f)
    PROVE  Busy'
<1>1. Alone(f)
  BY AloneStep
<1>2. appending'[f] # "no" => pc'[f] \in {"append", "skip"}
  BY StepCases, OutsideJournal, ReturnJournal, KillJournal, AppendStepEffect DEF Busy
<1> QED
  BY <1>1, <1>2 DEF Busy, Alone

LEMMA LockedStep ==
    ASSUME TypeOK, Locked, NEW f \in Fires, Fire(f) \/ Gated(f) \/ Step(f) \/ Kill(f)
    PROVE  Locked'
<1> DEFINE Writing == {"locked", "rest", "written", "broken"}
<1>0. Unlocked \notin Fires
  BY UnlockedAssumption, FiresAssumption
<1>1. appending'[f] \in Writing => flock' = f
  BY StepCases, OutsideJournal, ReturnJournal, KillJournal, AppendStepEffect DEF Locked
<1>2. ASSUME NEW g \in Fires \ {f}, appending'[g] \in Writing
      PROVE  flock' = g
  <2>1. appending[g] \in Writing
    BY <1>2, AloneStep DEF Alone
  <2>2. flock = g
    BY <2>1 DEF Locked
  <2>3. appending[f] \notin Writing
    BY <2>2 DEF Locked
  <2> QED
    BY <1>0, <2>2, <2>3, StepCases, OutsideJournal, ReturnJournal, KillJournal,
       AppendStepEffect
<1> QED
  BY <1>1, <1>2 DEF Locked

\* The entry of an append is fixed while it runs.
LEMMA EntryFixed ==
    ASSUME TypeOK, Busy, NEW f \in Fires,
           Fire(f) \/ Gated(f) \/ Step(f) \/ Kill(f), NEW g \in Fires,
           appending'[g] # "no"
    PROVE  /\ pc'[g] = pc[g]
           /\ Entry(g)' = Entry(g) /\ Event(g)' = Event(g)
<1>1. pc'[g] = pc[g] /\ todo'[g] = todo[g]
  BY AloneStep, StepCases, OutsideJournal, ReturnJournal, KillJournal, AppendStepEffect
     DEF Alone, Busy
<1> QED
  BY <1>1 DEF Entry, Event, Skip, Key

LEMMA HeadPendingStep ==
    ASSUME TypeOK, Busy, Locked, HeadPending, NEW f \in Fires,
           Fire(f) \/ Gated(f) \/ Step(f) \/ Kill(f)
    PROVE  HeadPending'
<1> SUFFICES ASSUME NEW g \in Fires, appending'[g] = "rest"
             PROVE  /\ Len(journal') > 0
                    /\ journal'[Len(journal')] = [entry |-> Entry(g), part |-> "head"]
  BY EntryFixed DEF HeadPending
<1>1. CASE appending[g] = "rest"
  <2>1. flock = g
    BY <1>1 DEF Locked
  <2>2. journal' = journal
    <3>1. CASE g = f
      BY <1>1, <3>1, StepCases, OutsideJournal, ReturnJournal, KillJournal, AppendStepEffect
    <3>2. CASE g # f
      <4>1. appending[f] \notin {"locked", "rest"}
        BY <2>1, <3>2 DEF Locked
      <4> QED
        BY <4>1, StepCases, OutsideJournal, ReturnJournal, KillJournal, AppendStepEffect
    <3> QED
      BY <3>1, <3>2
  <2> QED
    BY <1>1, <2>2 DEF HeadPending
<1>2. CASE appending[g] # "rest"
  <2>1. g = f
    BY <1>2, AloneStep DEF Alone
  <2>2. AppendStep(f) /\ Put(Entry(f), "head")
    BY <1>2, <2>1, StepCases, OutsideJournal, ReturnJournal, KillJournal, AppendStepEffect
  <2>3. Entry(f) \in Entries /\ JournalTypeOK
    BY <2>2, KeyType DEF AppendStep, Emitting, TypeOK
  <2>4. /\ Len(journal') = Len(journal) + 1
        /\ journal'[Len(journal')] = [entry |-> Entry(f), part |-> "head"]
    BY <2>2, <2>3, PutType
  <2>5. Len(journal) \in Nat
    BY <2>3 DEF JournalTypeOK
  <2>6. Len(journal') > 0
    BY <2>4, <2>5
  <2> QED
    BY <2>1, <2>4, <2>6
<1> QED
  BY <1>1, <1>2

LEMMA AckedGrows ==
    ASSUME TypeOK, NEW f \in Fires, Fire(f) \/ Gated(f) \/ Step(f) \/ Kill(f)
    PROVE  acked \subseteq acked'
BY StepCases, OutsideJournal, ReturnJournal, KillJournal, AppendStepEffect

LEMMA AcknowledgedStep ==
    ASSUME TypeOK, Busy, Acknowledged, NEW f \in Fires,
           Fire(f) \/ Gated(f) \/ Step(f) \/ Kill(f)
    PROVE  Acknowledged'
<1> SUFFICES ASSUME NEW g \in Fires, pc'[g] = "append", appending'[g] = "ok"
             PROVE  Event(g) \in acked'
  BY EntryFixed DEF Acknowledged
<1>0. pc[g] = "append"
  BY EntryFixed
<1>1. CASE appending[g] = "ok"
  BY <1>0, <1>1, AckedGrows DEF Acknowledged
<1>2. CASE appending[g] # "ok"
  <2>1. g = f
    BY <1>2, AloneStep DEF Alone
  <2>2. acked' = acked \cup {Entry(f)}
    BY <1>2, <2>1, StepCases, OutsideJournal, ReturnJournal, KillJournal, AppendStepEffect
  <2> QED
    BY <1>0, <2>1, <2>2 DEF Entry
<1> QED
  BY <1>1, <1>2

LEMMA PiecesTogetherStep ==
    ASSUME TypeOK, HeadPending, PiecesTogether, NEW f \in Fires,
           Fire(f) \/ Gated(f) \/ Step(f) \/ Kill(f)
    PROVE  PiecesTogether'
<1>0. JournalTypeOK /\ journal \in Seq(Pieces)
  BY DEF TypeOK, JournalTypeOK
<1>1. CASE journal' = journal
  BY <1>1 DEF PiecesTogether
<1>2. CASE journal' # journal
  <2>1. AppendStep(f)
    BY <1>2, StepCases, OutsideJournal, ReturnJournal, KillJournal
  <2>2. Entry(f) \in Entries
    BY <2>1, KeyType DEF AppendStep, Emitting
  <2>3. PICK part \in {"all", "head", "tail"} :
          Put(Entry(f), part) /\ (part = "tail" => appending[f] = "rest")
    BY <1>2, <2>1, AppendStepEffect
  <2>4. /\ journal' \in Seq(Pieces)
        /\ Len(journal') = Len(journal) + 1
        /\ journal'[Len(journal')] = [entry |-> Entry(f), part |-> part]
        /\ \A i \in DOMAIN journal : journal'[i] = journal[i]
    BY <1>0, <2>2, <2>3, PutType
  <2>5. /\ Len(journal) \in Nat /\ DOMAIN journal = 1..Len(journal)
        /\ DOMAIN journal' = 1..Len(journal')
    BY <1>0, <2>4
  <2>6. ASSUME NEW i \in DOMAIN journal, journal'[i].part = "tail"
        PROVE  i > 1 /\ journal'[i - 1] = [entry |-> journal'[i].entry, part |-> "head"]
    <3>1. i > 1 /\ journal[i - 1] = [entry |-> journal[i].entry, part |-> "head"]
      BY <2>4, <2>6 DEF PiecesTogether
    <3>2. i - 1 \in DOMAIN journal
      BY <2>5, <3>1
    <3> QED
      BY <2>4, <3>1, <3>2
  <2>7. ASSUME part = "tail"
        PROVE  /\ Len(journal') > 1
               /\ journal'[Len(journal') - 1] = [entry |-> Entry(f), part |-> "head"]
    <3>1. Len(journal) > 0 /\ journal[Len(journal)] = [entry |-> Entry(f), part |-> "head"]
      BY <2>3, <2>7 DEF HeadPending
    <3> QED
      BY <2>4, <2>5, <3>1
  <2>8. SUFFICES ASSUME NEW i \in DOMAIN journal', journal'[i].part = "tail"
                 PROVE  /\ i > 1
                        /\ journal'[i - 1] = [entry |-> journal'[i].entry, part |-> "head"]
    BY DEF PiecesTogether
  <2>9. CASE i \in DOMAIN journal
    BY <2>6, <2>8, <2>9
  <2>10. CASE i = Len(journal')
    <3>1. part = "tail" /\ journal'[i].entry = Entry(f)
      BY <2>4, <2>8, <2>10
    <3> QED
      BY <2>7, <2>10, <3>1
  <2> QED
    BY <2>4, <2>5, <2>8, <2>9, <2>10
<1> QED
  BY <1>1, <1>2

-----------------------------------------------------------------------------
(* Markers *)

\* The event of k is in the journal.
Emitted(k) == \E g \in Fires : [fire |-> g, key |-> k, kind |-> "event"] \in acked

Owned(k) == /\ pc[marker[k]] \in {"append", "skip", "unclaim"}
            /\ Key(marker[k]) = k

LEMMA MarkerBackedStep ==
    ASSUME TypeOK, Acknowledged, MarkerBacked, NEW f \in Fires,
           Fire(f) \/ Gated(f) \/ Step(f) \/ Kill(f)
    PROVE  MarkerBacked'
<1> SUFFICES ASSUME NEW k \in Keys, marker'[k] # NoMarker
             PROVE  Emitted(k)' \/ Owned(k)' \/ k \in stranded'
  BY DEF MarkerBacked, Emitted, Owned
<1>0. /\ pc \in [Fires -> PCs] /\ marker \in [Keys -> Fires \cup {NoMarker}]
      /\ todo \in [Fires -> Seq(Keys)]
  BY DEF TypeOK, PCs
<1>1. marker[k] # NoMarker => Emitted(k) \/ Owned(k) \/ k \in stranded
  BY DEF MarkerBacked, Emitted, Owned
<1>2. Emitted(k) => Emitted(k)'
  BY AckedGrows DEF Emitted
<1>3. k \in stranded => k \in stranded'
  BY StepCases, AppendStepEffect DEF Outside, Return, Kill, Fire, Gated, Claim, Suppressed,
     ClaimFailsOpen, Appended, AppendFailed, SkipRecorded, Unclaim, UnclaimFails, history
\* Another process keeps backing the marker it created.
<1>4. ASSUME marker'[k] = marker[k], Owned(k), marker[k] # f
      PROVE  Owned(k)'
  <2>1. marker[k] \in Fires \ {f}
    BY <1>0, <1>4 DEF Owned
  <2> QED
    BY <1>4, <2>1, AloneStep DEF Alone, Owned, Key
\* So only the fate of f's own marker is left.
<1>5. CASE marker'[k] = marker[k] /\ marker[k] = f /\ Owned(k)
  <2>1. pc[f] \in {"append", "skip", "unclaim"} /\ Key(f) = k
    BY <1>5 DEF Owned
  <2>2. CASE AppendStep(f)
    BY <1>5, <2>2, AppendStepEffect DEF Owned, Key
  <2>3. CASE Appended(f)
    <3>1. Event(f) \in acked
      BY <2>3 DEF Appended, Returned, Acknowledged
    <3>2. Emitted(k)
      BY <2>1, <3>1 DEF Emitted, Event
    <3> QED
      BY <1>2, <3>2
  <2>4. CASE AppendFailed(f) \/ SkipRecorded(f)
    BY <1>0, <1>5, <2>1, <2>4 DEF AppendFailed, SkipRecorded, Goto, Owned, Key
  <2>5. CASE UnclaimFails(f) \/ Kill(f)
    BY <2>1, <2>5 DEF UnclaimFails, Kill
  <2>6. CASE Unclaim(f)
    BY <1>0, <2>1, <2>6 DEF Unclaim
  <2> QED
    BY <2>1, <2>2, <2>3, <2>4, <2>5, <2>6
       DEF Step, Fire, Gated, Claim, Suppressed, ClaimFailsOpen
<1>6. CASE marker'[k] # marker[k]
  <2>1. marker' # marker
    BY <1>6
  <2>2. CASE Claim(f)
    <3>1. Key(f) = k /\ marker'[k] = f
      BY <1>0, <1>6, <2>2 DEF Claim
    <3>2. pc'[f] = "append" /\ todo' = todo
      BY <1>0, <2>2 DEF Claim, Goto
    <3> QED
      BY <3>1, <3>2 DEF Owned, Key
  <2>3. CASE Unclaim(f)
    BY <1>0, <1>6, <2>3 DEF Unclaim
  <2> QED
    BY <2>1, <2>2, <2>3, StepCases, AppendStepEffect DEF Outside, Return, Kill, Fire, Gated,
       Suppressed, ClaimFailsOpen, Appended, AppendFailed, SkipRecorded, UnclaimFails, history
<1> QED
  BY <1>1, <1>2, <1>3, <1>4, <1>5, <1>6

-----------------------------------------------------------------------------
LEMMA IInvInit == Init => IInv
<1> SUFFICES ASSUME Init PROVE IInv
  OBVIOUS
<1>1. TypeOK
  BY TypeInit
<1>2. Busy /\ Locked /\ HeadPending /\ Acknowledged
  BY FiresAssumption
     DEF Init, JournalInit, Busy, Locked, HeadPending, Acknowledged
<1>3. PiecesTogether
  BY DEF Init, JournalInit, PiecesTogether
<1>4. MarkerBacked
  BY DEF Init, MarkerBacked
<1> QED
  BY <1>1, <1>2, <1>3, <1>4 DEF IInv

LEMMA IInvStep == IInv /\ [Next]_vars => IInv'
<1> SUFFICES ASSUME IInv, [Next]_vars PROVE IInv'
  OBVIOUS
<1>1. TypeOK'
  BY TypeStep DEF IInv
<1>2. CASE UNCHANGED vars
  BY <1>1, <1>2 DEF vars, journalVars, IInv, Busy, Locked, HeadPending, Acknowledged,
     PiecesTogether, MarkerBacked, Entry, Event, Skip, Key
<1>3. ASSUME NEW f \in Fires, Fire(f) \/ Gated(f) \/ Step(f) \/ Kill(f)
      PROVE  IInv'
  BY <1>1, <1>3, BusyStep, LockedStep, HeadPendingStep, AcknowledgedStep,
     PiecesTogetherStep, MarkerBackedStep DEF IInv
<1> QED
  BY <1>2, <1>3 DEF Next

LEMMA Invariant == Spec => []IInv
BY IInvInit, IInvStep, PTL DEF Spec

-----------------------------------------------------------------------------
(* Duplicates: every event that is, or may still come, in the journal is paid  *)
(* for by a marker or by a claim that failed open.                             *)

AtWork(f) == (pc[f] = "append" /\ appending[f] # "ok") \/ pc[f] \in {"skip", "unclaim"}

\* The fires that may still append the event of k, or roll its claim back.
Pending(k) == {f \in Fires : AtWork(f) /\ Key(f) = k}

Claims(k) == IF marker[k] = NoMarker THEN 0 ELSE 1

PaidFor(k) ==
    /\ IsFiniteSet(Copies(k)) /\ IsFiniteSet(Pending(k))
    /\ Cardinality(Copies(k)) + Cardinality(Pending(k)) <= openClaims[k] + Claims(k)

DupInv == \A k \in Keys : PaidFor(k)

\* Adding one element to a finite set, or taking one out.
LEMMA OneMore ==
    ASSUME NEW S, NEW x, IsFiniteSet(S)
    PROVE  /\ IsFiniteSet(S \cup {x}) /\ Cardinality(S) \in Nat
           /\ Cardinality(S \cup {x}) \in Nat /\ Cardinality(S \cup {x}) <= Cardinality(S) + 1
<1>1. IsFiniteSet(S \cup {x}) /\ Cardinality(S) \in Nat /\ Cardinality(S \cup {x}) \in Nat
  BY FS_AddElement, FS_CardinalityType
<1>2. Cardinality(S \cup {x}) = Cardinality(S) \/ Cardinality(S \cup {x}) = Cardinality(S) + 1
  BY FS_AddElement
<1>3. PICK n \in Nat : n = Cardinality(S)
  BY <1>1
<1>4. Cardinality(S \cup {x}) = n \/ Cardinality(S \cup {x}) = n + 1
  BY <1>2, <1>3
<1>5. Cardinality(S \cup {x}) <= n + 1
  BY <1>4
<1> QED
  BY <1>1, <1>3, <1>5

LEMMA OneLess ==
    ASSUME NEW S, NEW x, IsFiniteSet(S)
    PROVE  /\ IsFiniteSet(S \ {x}) /\ Cardinality(S) \in Nat
           /\ Cardinality(S \ {x}) \in Nat /\ Cardinality(S \ {x}) <= Cardinality(S)
           /\ x \in S => Cardinality(S \ {x}) + 1 = Cardinality(S)
<1>1. IsFiniteSet(S \ {x}) /\ Cardinality(S) \in Nat /\ Cardinality(S \ {x}) \in Nat
  BY FS_RemoveElement, FS_CardinalityType
<1>2. PICK n \in Nat : n = Cardinality(S)
  BY <1>1
<1>3. PICK d \in Nat : d = Cardinality(S \ {x})
  BY <1>1
<1>4. d = IF x \in S THEN n - 1 ELSE n
  BY <1>2, <1>3, FS_RemoveElement
<1>5. d <= n /\ (x \in S => d + 1 = n)
  BY <1>4
<1> QED
  BY <1>1, <1>2, <1>3, <1>5

\* Only f enters or leaves the pending ones.
LEMMA PendingStep ==
    ASSUME TypeOK, NEW f \in Fires, Alone(f), NEW k
    PROVE  Pending(k)' = IF AtWork(f)' /\ Key(f)' = k THEN Pending(k) \cup {f}
                                                      ELSE Pending(k) \ {f}
<1>1. \A g \in Fires \ {f} : AtWork(g)' = AtWork(g) /\ Key(g)' = Key(g)
  BY DEF Alone, AtWork, Key
<1> QED
  BY <1>1 DEF Pending

\* The bookkeeping: what a step may do to the account of k.
LEMMA AccountStep ==
    ASSUME NEW f, NEW k \in Keys, PaidFor(k),
           openClaims[k] \in Nat, openClaims'[k] \in Nat,
           \/ /\ Pending(k)' = Pending(k) /\ Copies(k)' = Copies(k)
              /\ openClaims'[k] = openClaims[k] /\ Claims(k)' = Claims(k)
           \/ /\ Pending(k)' = Pending(k) \cup {f} /\ Copies(k)' = Copies(k)
              /\ openClaims'[k] + Claims(k)' = openClaims[k] + Claims(k) + 1
           \/ /\ f \in Pending(k) /\ Pending(k)' = Pending(k) \ {f}
              /\ \E e : Copies(k)' = Copies(k) \cup {e}
              /\ openClaims'[k] = openClaims[k] /\ Claims(k)' = Claims(k)
           \/ /\ f \in Pending(k) /\ Pending(k)' = Pending(k) \ {f}
              /\ Copies(k)' = Copies(k)
              /\ openClaims'[k] = openClaims[k] /\ Claims(k)' \in {0, Claims(k)}
           \/ /\ Pending(k)' = Pending(k) \ {f} /\ Copies(k)' = Copies(k)
              /\ openClaims'[k] = openClaims[k] /\ Claims(k)' = Claims(k)
    PROVE  PaidFor(k)'
<1>1. /\ IsFiniteSet(Copies(k)) /\ IsFiniteSet(Pending(k))
      /\ Cardinality(Copies(k)) + Cardinality(Pending(k)) <= openClaims[k] + Claims(k)
  BY DEF PaidFor
<1>2. PICK c \in Nat, p \in Nat, o \in Nat, m \in {0, 1} :
        /\ c = Cardinality(Copies(k)) /\ p = Cardinality(Pending(k))
        /\ o = openClaims[k] /\ m = Claims(k) /\ c + p <= o + m
  BY <1>1, FS_CardinalityType DEF Claims
<1>3. PICK o1 \in Nat, m1 \in {0, 1} : o1 = openClaims'[k] /\ m1 = Claims(k)'
  BY DEF Claims
<1>4. CASE /\ Pending(k)' = Pending(k) /\ Copies(k)' = Copies(k) /\ o1 = o /\ m1 = m
  BY <1>1, <1>2, <1>3, <1>4 DEF PaidFor
<1>5. CASE /\ Pending(k)' = Pending(k) \cup {f} /\ Copies(k)' = Copies(k) /\ o1 + m1 = o + m + 1
  <2>1. PICK p1 \in Nat : p1 = Cardinality(Pending(k) \cup {f}) /\ p1 <= p + 1
    BY <1>1, <1>2, OneMore
  <2>2. IsFiniteSet(Pending(k) \cup {f})
    BY <1>1, OneMore
  <2>3. c + p1 <= o1 + m1
    BY <1>2, <1>5, <2>1
  <2> QED
    BY <1>1, <1>2, <1>3, <1>5, <2>1, <2>2, <2>3 DEF PaidFor
<1>6. CASE /\ f \in Pending(k) /\ Pending(k)' = Pending(k) \ {f}
           /\ \E e : Copies(k)' = Copies(k) \cup {e} /\ o1 = o /\ m1 = m
  <2>1. PICK e : Copies(k)' = Copies(k) \cup {e}
    BY <1>6
  <2>2. PICK p1 \in Nat : p1 = Cardinality(Pending(k) \ {f}) /\ p1 + 1 = p
    BY <1>1, <1>2, <1>6, OneLess
  <2>3. PICK c1 \in Nat : c1 = Cardinality(Copies(k) \cup {e}) /\ c1 <= c + 1
    BY <1>1, <1>2, OneMore
  <2>4. IsFiniteSet(Pending(k) \ {f}) /\ IsFiniteSet(Copies(k) \cup {e})
    BY <1>1, OneLess, OneMore
  <2>5. c1 + p1 <= o1 + m1
    BY <1>2, <1>6, <2>2, <2>3
  <2> QED
    BY <1>3, <1>6, <2>1, <2>2, <2>3, <2>4, <2>5 DEF PaidFor
<1>7. CASE /\ f \in Pending(k) /\ Pending(k)' = Pending(k) \ {f} /\ Copies(k)' = Copies(k)
           /\ o1 = o /\ m1 \in {0, m}
  <2>1. PICK p1 \in Nat : p1 = Cardinality(Pending(k) \ {f}) /\ p1 + 1 = p
    BY <1>1, <1>2, <1>7, OneLess
  <2>2. IsFiniteSet(Pending(k) \ {f})
    BY <1>1, OneLess
  <2>3. c + p1 <= o1 + m1
    BY <1>2, <1>3, <1>7, <2>1
  <2> QED
    BY <1>1, <1>2, <1>3, <1>7, <2>1, <2>2, <2>3 DEF PaidFor
<1>8. CASE /\ Pending(k)' = Pending(k) \ {f} /\ Copies(k)' = Copies(k) /\ o1 = o /\ m1 = m
  <2>1. PICK p1 \in Nat : p1 = Cardinality(Pending(k) \ {f}) /\ p1 <= p
    BY <1>1, <1>2, OneLess
  <2>2. IsFiniteSet(Pending(k) \ {f})
    BY <1>1, OneLess
  <2>3. c + p1 <= o1 + m1
    BY <1>2, <1>8, <2>1
  <2> QED
    BY <1>1, <1>2, <1>3, <1>8, <2>1, <2>2, <2>3 DEF PaidFor
<1> QED
  BY <1>2, <1>3, <1>4, <1>5, <1>6, <1>7, <1>8

LEMMA DupStep ==
    ASSUME IInv, DupInv, NEW f \in Fires, Fire(f) \/ Gated(f) \/ Step(f) \/ Kill(f)
    PROVE  DupInv'
<1> SUFFICES ASSUME NEW k \in Keys PROVE PaidFor(k)'
  BY DEF DupInv
<1>0. /\ TypeOK /\ Busy /\ TypeOK' /\ PaidFor(k) /\ Alone(f)
      /\ pc \in [Fires -> PCs] /\ marker \in [Keys -> Fires \cup {NoMarker}]
      /\ openClaims \in [Keys -> Nat] /\ todo \in [Fires -> Seq(Keys)]
  <2>1. [Next]_vars
    BY DEF Next
  <2> QED
    BY <2>1, TypeStep, AloneStep DEF IInv, DupInv, TypeOK, PCs
<1>1. openClaims[k] \in Nat /\ openClaims'[k] \in Nat
  BY <1>0 DEF TypeOK
<1>2. Pending(k)' = IF AtWork(f)' /\ Key(f)' = k THEN Pending(k) \cup {f} ELSE Pending(k) \ {f}
  BY <1>0, PendingStep
<1>3. f \in Pending(k) <=> AtWork(f) /\ Key(f) = k
  BY DEF Pending
<1>4. acked' = acked => Copies(k)' = Copies(k)
  BY DEF Copies
<1>5. CASE Fire(f) \/ Gated(f) \/ Suppressed(f)
  <2>1. /\ pc[f] \in {"idle", "claim"} /\ pc'[f] \in {"claim", "done"}
        /\ UNCHANGED <<marker, openClaims, acked>>
    BY <1>0, <1>5 DEF Fire, Gated, Suppressed, Goto, Leave, journalVars, history
  <2>2. Pending(k)' = Pending(k)
    BY <1>2, <1>3, <2>1 DEF AtWork
  <2> QED
    BY <1>0, <1>1, <1>4, <2>1, <2>2, AccountStep DEF Claims
<1>6. CASE Claim(f) \/ ClaimFailsOpen(f)
  <2>1. /\ pc[f] = "claim" /\ pc'[f] = "append" /\ Key(f)' = Key(f)
        /\ appending'[f] = appending[f] /\ acked' = acked
    BY <1>0, <1>6 DEF Claim, ClaimFailsOpen, Goto, Key, journalVars
  <2>2. AtWork(f)' /\ ~AtWork(f)
    BY <2>1, <1>0 DEF AtWork, Busy
  <2>3. CASE Key(f) = k
    <3>1. Pending(k)' = Pending(k) \cup {f}
      BY <1>2, <2>1, <2>2, <2>3
    <3>2. openClaims'[k] + Claims(k)' = openClaims[k] + Claims(k) + 1
      <4>1. CASE Claim(f)
        <5>1. marker[k] = NoMarker /\ marker'[k] = f /\ openClaims' = openClaims
          BY <1>0, <2>3, <4>1 DEF Claim, history
        <5>2. Claims(k) = 0 /\ Claims(k)' = 1
          BY <5>1, FiresAssumption DEF Claims
        <5> QED
          BY <1>1, <5>1, <5>2
      <4>2. CASE ClaimFailsOpen(f)
        <5>1. marker' = marker /\ openClaims'[k] = openClaims[k] + 1
          BY <1>0, <2>3, <4>2 DEF ClaimFailsOpen
        <5>2. Claims(k)' = Claims(k) /\ Claims(k) \in {0, 1}
          BY <5>1 DEF Claims
        <5> QED
          BY <1>1, <5>1, <5>2
      <4> QED
        BY <1>6, <4>1, <4>2
    <3> QED
      BY <1>0, <1>1, <1>4, <2>1, <3>1, <3>2, AccountStep
  <2>4. CASE Key(f) # k
    <3>1. Pending(k)' = Pending(k)
      BY <1>2, <1>3, <2>1, <2>4
    <3>2. marker'[k] = marker[k] /\ openClaims'[k] = openClaims[k]
      BY <1>0, <1>6, <2>4 DEF Claim, ClaimFailsOpen, history
    <3> QED
      BY <1>0, <1>1, <1>4, <2>1, <3>1, <3>2, AccountStep DEF Claims
  <2> QED
    BY <2>3, <2>4
<1>7. CASE AppendStep(f)
  <2>1. /\ pc' = pc /\ todo' = todo /\ marker' = marker /\ openClaims' = openClaims
        /\ pc[f] \in {"append", "skip"} /\ Key(f)' = Key(f)
    BY <1>7 DEF AppendStep, history, Key
  <2>2. CASE appending'[f] # "ok"
    <3>1. acked' = acked /\ appending[f] # "ok"
      BY <1>0, <1>7, <2>2, AppendStepEffect
    <3>2. AtWork(f)' = AtWork(f)
      BY <2>1, <2>2, <3>1 DEF AtWork
    <3>3. Pending(k)' = Pending(k)
      BY <1>2, <1>3, <2>1, <3>2
    <3> QED
      BY <1>0, <1>1, <1>4, <2>1, <3>1, <3>3, AccountStep DEF Claims
  <2>3. CASE appending'[f] = "ok"
    <3>1. acked' = acked \cup {Entry(f)} /\ appending[f] # "ok"
      BY <1>0, <1>7, <2>3, AppendStepEffect
    <3>2. CASE pc[f] = "append" /\ Key(f) = k
      <4>1. AtWork(f) /\ ~AtWork(f)'
        BY <2>1, <2>3, <3>1, <3>2 DEF AtWork
      <4>2. Copies(k)' = Copies(k) \cup {Event(f)}
        BY <3>1, <3>2 DEF Copies, Entry, Event
      <4> QED
        BY <1>0, <1>1, <1>2, <1>3, <2>1, <3>2, <4>1, <4>2, AccountStep DEF Claims
    <3>3. CASE ~(pc[f] = "append" /\ Key(f) = k)
      <4>1. Copies(k)' = Copies(k)
        BY <2>1, <3>1, <3>3 DEF Copies, Entry, Event, Skip
      <4>2. Key(f) = k => AtWork(f) /\ AtWork(f)'
        BY <2>1, <3>3 DEF AtWork
      <4>3. Pending(k)' = Pending(k)
        BY <1>2, <1>3, <2>1, <4>2
      <4> QED
        BY <1>0, <1>1, <2>1, <4>1, <4>3, AccountStep DEF Claims
    <3> QED
      BY <3>2, <3>3
  <2> QED
    BY <2>2, <2>3
<1>8. CASE Appended(f)
  <2>1. /\ pc[f] = "append" /\ appending[f] = "ok" /\ pc'[f] \in {"claim", "done"}
        /\ UNCHANGED <<marker, openClaims, acked>>
    BY <1>0, <1>8 DEF Appended, Returned, Leave, Goto, history
  <2>2. Pending(k)' = Pending(k)
    BY <1>2, <1>3, <2>1 DEF AtWork
  <2> QED
    BY <1>0, <1>1, <1>4, <2>1, <2>2, AccountStep DEF Claims
<1>9. CASE AppendFailed(f) \/ SkipRecorded(f)
  <2>1. /\ (pc[f] = "append" /\ appending[f] = "failed") \/ pc[f] = "skip"
        /\ pc'[f] \in {"skip", "unclaim"} /\ Key(f)' = Key(f)
        /\ UNCHANGED <<marker, openClaims, acked>>
    BY <1>0, <1>9 DEF AppendFailed, SkipRecorded, Returned, Goto, history, Key
  <2>2. AtWork(f) /\ AtWork(f)'
    BY <2>1 DEF AtWork
  <2>3. Pending(k)' = Pending(k)
    BY <1>2, <1>3, <2>1, <2>2
  <2> QED
    BY <1>0, <1>1, <1>4, <2>1, <2>3, AccountStep DEF Claims
<1>10. CASE Unclaim(f) \/ UnclaimFails(f) \/ Kill(f)
  <2>1. /\ pc'[f] \in {"claim", "done", "killed"} /\ UNCHANGED <<openClaims, acked>>
        /\ marker' = marker \/ (pc[f] = "unclaim" /\ marker' = [marker EXCEPT ![Key(f)] = NoMarker])
    BY <1>0, <1>10 DEF Unclaim, UnclaimFails, Kill, JournalKill, Goto, Leave, journalVars,
       history
  <2>2. Pending(k)' = Pending(k) \ {f}
    BY <1>2, <2>1 DEF AtWork
  <2>3. CASE marker'[k] = marker[k]
    BY <1>0, <1>1, <1>4, <2>1, <2>2, <2>3, AccountStep DEF Claims
  <2>4. CASE marker'[k] # marker[k]
    <3>1. pc[f] = "unclaim" /\ Key(f) = k /\ marker'[k] = NoMarker
      BY <1>0, <2>1, <2>4
    <3>2. f \in Pending(k) /\ Claims(k)' = 0
      BY <1>3, <3>1 DEF AtWork, Claims
    <3> QED
      BY <1>0, <1>1, <1>4, <2>1, <2>2, <3>2, AccountStep
  <2> QED
    BY <2>3, <2>4
<1> QED
  BY <1>5, <1>6, <1>7, <1>8, <1>9, <1>10 DEF Step

LEMMA DupInit == Init => DupInv
<1> SUFFICES ASSUME Init, NEW k \in Keys PROVE PaidFor(k)
  BY DEF DupInv
<1>1. Copies(k) = {} /\ Pending(k) = {}
  BY DEF Init, JournalInit, Copies, Pending, AtWork
<1>2. openClaims[k] = 0 /\ Claims(k) = 0
  BY DEF Init, Claims
<1> QED
  BY <1>1, <1>2, FS_EmptySet DEF PaidFor

LEMMA DupInvariant == Spec => [](IInv /\ DupInv)
<1>1. IInv /\ DupInv /\ [Next]_vars => (IInv /\ DupInv)'
  <2> SUFFICES ASSUME IInv, DupInv, [Next]_vars PROVE DupInv'
    BY IInvStep
  <2>1. CASE UNCHANGED vars
    BY <2>1 DEF vars, journalVars, history, DupInv, PaidFor, Copies, Pending, AtWork, Key, Claims
  <2> QED
    BY <2>1, DupStep DEF Next
<1> QED
  BY <1>1, IInvInit, DupInit, PTL DEF Spec

-----------------------------------------------------------------------------
\* Every variable keeps its type, and a fire that is emitting has an emission to
\* work on (agent_handoff_emitter, task_lifecycle_gate).
THEOREM TypeCorrect == Spec => []TypeOK
<1>1. IInv => TypeOK
  BY DEF IInv
<1> QED
  BY <1>1, Invariant, PTL

\* However many processes append, fail or are killed, the pieces of an entry are
\* never separated in the file (_atomic_write).
THEOREM EntriesWhole == Spec => []PiecesTogether
<1>1. IInv => PiecesTogether
  BY DEF IInv
<1> QED
  BY <1>1, Invariant, PTL

\* A marker that suppresses an emission stands for an event in the journal, for
\* a fire still at work, or for a claim that a kill or a failing unclaim left
\* behind (already_emitted, unclaim).
THEOREM MarkersBacked == Spec => []MarkerBacked
<1>1. IInv => MarkerBacked
  BY DEF IInv
<1> QED
  BY <1>1, Invariant, PTL

\* An event is in the journal at most once more than claims of its key failed
\* open, also when a fire that failed open rolls back the marker of another one
\* (already_emitted, unclaim).
THEOREM DuplicatesAreBounded == Spec => []DuplicatesBounded
<1>1. ASSUME IInv, DupInv PROVE DuplicatesBounded
  <2> SUFFICES ASSUME NEW k \in Keys PROVE Cardinality(Copies(k)) <= 1 + openClaims[k]
    BY DEF DuplicatesBounded
  <2>1. /\ IsFiniteSet(Copies(k)) /\ IsFiniteSet(Pending(k))
        /\ Cardinality(Copies(k)) + Cardinality(Pending(k)) <= openClaims[k] + Claims(k)
    BY <1>1 DEF DupInv, PaidFor
  <2>2. PICK c \in Nat, p \in Nat, o \in Nat, m \in {0, 1} :
          /\ c = Cardinality(Copies(k)) /\ p = Cardinality(Pending(k))
          /\ o = openClaims[k] /\ m = Claims(k) /\ c + p <= o + m
    BY <1>1, <2>1, FS_CardinalityType DEF Claims, IInv, TypeOK
  <2>3. c <= 1 + o
    BY <2>2
  <2> QED
    BY <2>2, <2>3
<1> QED
  BY <1>1, DupInvariant, PTL
=============================================================================
