-------------------------- MODULE HandoffEmission --------------------------
(***************************************************************************)
(* Emission of journal events by hook processes that may fire more than    *)
(* once, at the same time, for the same content: the TaskCompleted hook    *)
(* (agent_handoff_emitter), the lead's PostToolUse hook                    *)
(* (task_lifecycle_gate) and the metadata snapshot and dispatch-site       *)
(* events that the two also write.                                         *)
(*                                                                         *)
(* An emission has a key (team, task, and a hash of what it says).  A fire *)
(* claims the key by creating a marker file with O_EXCL, appends the event *)
(* to the journal, and removes the marker again if the append failed.      *)
(* Plan[f] is the sequence of keys that fire f emits.                      *)
(*                                                                         *)
(* A marker holds the fire that created it, which the code does not know:  *)
(* guards only read whether it exists.                                     *)
(***************************************************************************)
EXTENDS SessionJournal, FiniteSets

CONSTANTS
    Fires,       \* hook processes
    Keys,        \* emission keys
    Plan,        \* Plan[f]: the keys of fire f, in order
    Checked,     \* keys emitted with append_event_checked
    NoMarker,    \* no marker file
    ClaimFails,  \* fires whose marker creation may fail (other than EEXIST)
    WriteFails,  \* fires whose append may fail
    Killed       \* fires that may be killed

ASSUME FiresAssumption ==
    /\ Fires = Writers
    /\ NoMarker \notin Fires
    /\ Plan \in [Fires -> Seq(Keys)]
    /\ Checked \subseteq Keys
ASSUME EntriesAssumption ==
    Entries = [fire : Fires, key : Keys, kind : {"event", "skip"}]

VARIABLES
    pc,          \* of each fire
    todo,        \* todo[f]: the keys still to emit, the current one first
    marker,      \* marker[k]: the fire whose marker file exists, or NoMarker
    openClaims,  \* history: openClaims[k]: claims of k that failed open
    stranded     \* history: keys whose unclaim failed, or whose owner died

vars == <<journalVars, pc, todo, marker, openClaims, stranded>>
history == <<openClaims, stranded>>

Key(f) == Head(todo[f])
Event(f) == [fire |-> f, key |-> Key(f), kind |-> "event"]
Skip(f) == [fire |-> f, key |-> Key(f), kind |-> "skip"]

Init ==
    /\ JournalInit
    /\ pc = [f \in Fires |-> "idle"]
    /\ todo = Plan
    /\ marker = [k \in Keys |-> NoMarker]
    /\ openClaims = [k \in Keys |-> 0]
    /\ stranded = {}

Goto(f, label) == pc' = [pc EXCEPT ![f] = label]

\* The emission is over: on to the next one, or the hook exits.
Leave(f) ==
    /\ todo' = [todo EXCEPT ![f] = Tail(@)]
    /\ Goto(f, IF Len(todo[f]) = 1 THEN "done" ELSE "claim")

-----------------------------------------------------------------------------
\* The hook fires with something to emit.
Fire(f) ==
    /\ pc[f] = "idle"
    /\ todo[f] # <<>>
    /\ Goto(f, "claim")
    /\ UNCHANGED <<journalVars, todo, marker, history>>

\* Nothing is eligible, or get_journal_path is empty: no key is claimed.
Gated(f) ==
    /\ pc[f] = "idle"
    /\ Goto(f, "done")
    /\ UNCHANGED <<journalVars, todo, marker, history>>

\* Mutant: the marker is created without O_EXCL.
ClaimAnyway(f) ==
    /\ pc[f] = "claim"
    /\ marker' = [marker EXCEPT ![Key(f)] = f]
    /\ Goto(f, "append")
    /\ UNCHANGED <<journalVars, todo, history>>

\* already_emitted creates the marker.
Claim(f) ==
    /\ pc[f] = "claim"
    /\ marker[Key(f)] = NoMarker
    /\ marker' = [marker EXCEPT ![Key(f)] = f]
    /\ Goto(f, "append")
    /\ UNCHANGED <<journalVars, todo, history>>

\* EEXIST: another fire owns the key.
Suppressed(f) ==
    /\ pc[f] = "claim"
    /\ marker[Key(f)] # NoMarker
    /\ Leave(f)
    /\ UNCHANGED <<journalVars, marker, history>>

\* Any other error: the event is emitted without a marker.
ClaimFailsOpen(f) ==
    /\ f \in ClaimFails
    /\ pc[f] = "claim"
    /\ openClaims' = [openClaims EXCEPT ![Key(f)] = @ + 1]
    /\ Goto(f, "append")
    /\ UNCHANGED <<journalVars, todo, marker, stranded>>

-----------------------------------------------------------------------------
(* append_event, of the event or of the record that it was skipped *)

Entry(f) == IF pc[f] = "append" THEN Event(f) ELSE Skip(f)

AppendStep(f) ==
    /\ pc[f] \in {"append", "skip"}
    /\ \/ AppendOpen(f)
       \/ f \in WriteFails /\ AppendRefused(f)
       \/ AppendLock(f)
       \/ AppendAll(f, Entry(f))
       \/ AppendHead(f, Entry(f))
       \/ AppendTail(f, Entry(f))
       \/ f \in WriteFails /\ AppendBreaks(f)
       \/ AppendUnlock(f, Entry(f))
    /\ UNCHANGED <<pc, todo, marker, history>>

Appended(f) ==
    /\ pc[f] = "append"
    /\ Returned(f, "ok")
    /\ Leave(f)
    /\ UNCHANGED <<marker, history>>

\* append_event_checked also records the skip.
AppendFailed(f) ==
    /\ pc[f] = "append"
    /\ Returned(f, "failed")
    /\ Goto(f, IF Key(f) \in Checked THEN "skip" ELSE "unclaim")
    /\ UNCHANGED <<todo, marker, history>>

\* The outcome of the record is ignored.
SkipRecorded(f) ==
    /\ pc[f] = "skip"
    /\ Returned(f, "ok") \/ Returned(f, "failed")
    /\ Goto(f, "unclaim")
    /\ UNCHANGED <<todo, marker, history>>

\* Mutant: the claim is not rolled back.
UnclaimNothing(f) ==
    /\ pc[f] = "unclaim"
    /\ Leave(f)
    /\ UNCHANGED <<journalVars, marker, history>>

\* unclaim removes the marker file, whoever created it.
Unclaim(f) ==
    /\ pc[f] = "unclaim"
    /\ marker' = [marker EXCEPT ![Key(f)] = NoMarker]
    /\ Leave(f)
    /\ UNCHANGED <<journalVars, history>>

\* An OSError is swallowed.
UnclaimFails(f) ==
    /\ f \in ClaimFails
    /\ pc[f] = "unclaim"
    /\ stranded' = stranded \cup {Key(f)}
    /\ Leave(f)
    /\ UNCHANGED <<journalVars, marker, openClaims>>

Kill(f) ==
    /\ f \in Killed
    /\ pc[f] \notin {"idle", "done", "killed"}
    /\ Goto(f, "killed")
    /\ stranded' = stranded \cup {Key(f)}
    /\ JournalKill(f)
    /\ UNCHANGED <<todo, marker, openClaims>>

-----------------------------------------------------------------------------
Step(f) ==
    \/ Claim(f) \/ Suppressed(f) \/ ClaimFailsOpen(f)
    \/ AppendStep(f) \/ Appended(f) \/ AppendFailed(f) \/ SkipRecorded(f)
    \/ Unclaim(f) \/ UnclaimFails(f)

Next == \E f \in Fires : Fire(f) \/ Gated(f) \/ Step(f) \/ Kill(f)

Spec == Init /\ [][Next]_vars

\* A hook that fired runs on its own; the flock is held for a few writes only,
\* and it may be taken by others again and again while one waits.
FairSpec == Spec /\ \A f \in Fires : SF_vars(Step(f))

-----------------------------------------------------------------------------
(* Properties *)

\* Every variable has its type.
TypeOK ==
    /\ JournalTypeOK
    /\ pc \in [Fires -> {"idle", "claim", "append", "skip", "unclaim", "done",
                         "killed"}]
    /\ todo \in [Fires -> Seq(Keys)]
    /\ \A f \in Fires :
         pc[f] \in {"claim", "append", "skip", "unclaim"} => todo[f] # <<>>
    /\ marker \in [Keys -> Fires \cup {NoMarker}]
    /\ openClaims \in [Keys -> Nat]
    /\ stranded \subseteq Keys

\* A marker that suppresses an emission stands for an event in the journal, or
\* for a fire that is still about to write it or to roll the claim back; only a
\* kill or a failing rollback strand it (unclaim, "the silent-permanent-loss
\* residual").
MarkerBacked ==
    \A k \in Keys :
        marker[k] # NoMarker =>
            \/ \E f \in Fires : [fire |-> f, key |-> k, kind |-> "event"] \in acked
            \/ /\ pc[marker[k]] \in {"append", "skip", "unclaim"}
               /\ Key(marker[k]) = k
            \/ k \in stranded

Copies(k) == {e \in acked : e.key = k /\ e.kind = "event"}

\* Each claim that fails open costs at most one duplicate: an event is in the
\* journal at most once more than claims of its key failed open.
DuplicatesBounded ==
    \A k \in Keys : Cardinality(Copies(k)) <= 1 + openClaims[k]

\* Every fire ends: none waits for ever for the journal's lock.
FiresEnd == \A f \in Fires : (pc[f] # "idle") ~> (pc[f] \in {"done", "killed"})
=============================================================================
