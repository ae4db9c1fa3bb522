----------------------------- MODULE Bootstrap -----------------------------
(***************************************************************************)
(* The bootstrap of one session.  The lead may not edit or dispatch        *)
(* (hooks/bootstrap_gate.py) until a hook has seen a secretary and left a  *)
(* marker (hooks/bootstrap_marker_writer.py), in the directory where       *)
(* hooks/session_init.py has put the context of the session.  Meanwhile    *)
(* the session is cleared, compacted and resumed, and another one that     *)
(* ends may remove its directory (SessionReaper).                          *)
(***************************************************************************)
EXTENDS Integers, FiniteSets

CONSTANTS
  Writers,     \* marker writers that can run at once
  MaxStarts,   \* bound: session starts, resumptions, clears and compactions
  MaxRemovals, \* bound: times that the directory is removed
  MaxFaults    \* bound: writes that fail

VARIABLES
  desktop, \* the platform keeps no members[] of a team
  run,     \* the session runs
  dir,     \* its directory
  team,    \* what the platform has of its team
  spawned, \* the secretary was spawned in this run
  called,  \* an Agent call has returned, its hook is due
  writer,  \* per marker writer: its step
  starts, removals, faults, \* counters for the bounds
  asked,   \* history: there has been a task for the secretary
  worked,  \* history: the gate has let an edit or a dispatch through
  failed   \* history: a marker writer failed in this run

counters == <<starts, removals, faults>>
history == <<asked, worked, failed>>
vars == <<desktop, run, dir, team, spawned, called, writer, counters, history>>

\* A marker of another version of the plugin is void.
Dir == [there : BOOLEAN, context : BOOLEAN, marker : {"none", "void", "valid"}]
NoDir == [there |-> FALSE, context |-> FALSE, marker |-> "none"]

\* "assigned": the secretary has an inbox; "joined": it is in members[] too.
Teams == {"none", "fresh", "assigned", "joined"}

TypeOK ==
  /\ desktop \in BOOLEAN /\ run \in BOOLEAN /\ spawned \in BOOLEAN
  /\ dir \in Dir /\ (dir.there \/ dir = NoDir)
  /\ team \in Teams /\ (desktop => team # "joined") /\ (run => team # "none")
  /\ called \in BOOLEAN /\ (called => run)
  /\ writer \in [Writers -> {"idle", "heal", "look", "align", "ask", "write"}]
  /\ asked \in BOOLEAN /\ worked \in BOOLEAN /\ failed \in BOOLEAN

Init ==
  /\ desktop \in BOOLEAN
  /\ run = FALSE /\ dir = NoDir /\ team = "none"
  /\ spawned = FALSE /\ called = FALSE
  /\ writer = [w \in Writers |-> "idle"]
  /\ starts = 0 /\ removals = 0 /\ faults = 0
  /\ asked = FALSE /\ worked = FALSE /\ failed = FALSE

Fault(happens) ==
  /\ happens => faults < MaxFaults
  /\ faults' = faults + (IF happens THEN 1 ELSE 0)

-----------------------------------------------------------------------------
(* SessionStart.  Only a /clear takes the marker away; writing the context may
   fail, and the event then makes the directory.  When a session is resumed the
   plugin may be another, and the platform may have kept the team. *)
SessionStart(source, written, updated) ==
  /\ run = (source # "start")
  /\ starts < MaxStarts /\ starts' = starts + 1
  /\ Fault(~written)
  /\ dir' = [there   |-> TRUE,
             context |-> dir.context \/ written,
             marker  |-> CASE source = "clear" -> "none"
                           [] updated /\ dir.marker = "valid" -> "void"
                           [] OTHER -> dir.marker]
  /\ run' = TRUE
  /\ IF source = "start"
     THEN /\ team' \in {"fresh"} \cup ({team} \ {"none"})
          /\ spawned' = FALSE /\ failed' = FALSE
     ELSE /\ ~updated
          /\ UNCHANGED <<team, spawned, failed>>
  /\ UNCHANGED <<desktop, called, writer, removals, asked, worked>>

\* The session ends, or its process dies.
Stop ==
  /\ run
  /\ run' = FALSE /\ called' = FALSE
  /\ writer' = [w \in Writers |-> "idle"]
  /\ UNCHANGED <<desktop, dir, team, spawned, counters, history>>

\* Another session's reaper finds the directory old.
Removed ==
  /\ dir.there /\ removals < MaxRemovals /\ removals' = removals + 1
  /\ dir' = NoDir
  /\ UNCHANGED <<desktop, run, team, spawned, called, writer, starts, faults, history>>

-----------------------------------------------------------------------------
(* The lead, before the gate.  A session without a context is let through. *)
Open == dir.context => dir.marker = "valid"


\* A secretary that is not among the members[] may always be spawned.
SpawnAllowed == Open \/ team # "joined"

\* TaskUpdate(owner = secretary): the platform makes an inbox for it.
Assign ==
  /\ run /\ team = "fresh"
  /\ team' = "assigned" /\ asked' = TRUE
  /\ UNCHANGED <<desktop, run, dir, spawned, called, writer, counters, worked, failed>>

\* The gate on dispatches (hooks/dispatch_gate.py): there is a task for the name
\* and no member of the name.
DispatchAllowed == team \notin {"fresh", "joined"}

\* The secretary has joined before the hook after the call runs.
Spawn ==
  /\ run /\ ~spawned
  /\ SpawnAllowed /\ DispatchAllowed
  /\ spawned' = TRUE /\ called' = TRUE
  /\ team' = IF desktop THEN team ELSE "joined"
  /\ UNCHANGED <<desktop, run, dir, writer, counters, history>>

Edit ==
  /\ run /\ Open
  /\ worked' = (worked \/ dir.context)
  /\ UNCHANGED <<desktop, run, dir, team, spawned, called, writer, counters, asked, failed>>

Dispatch ==
  /\ run /\ Open
  /\ worked' = (worked \/ dir.context)
  /\ called' = TRUE
  /\ UNCHANGED <<desktop, run, dir, team, spawned, writer, counters, asked, failed>>

-----------------------------------------------------------------------------
(* The marker writer runs at a prompt of the user and after an Agent call. *)
Goto(w, step) == writer' = [writer EXCEPT ![w] = step]

PromptHook(w) ==
  /\ run /\ writer[w] = "idle"
  /\ Goto(w, "heal")
  /\ UNCHANGED <<desktop, run, dir, team, spawned, called, counters, history>>

AgentHook(w) ==
  /\ run /\ called /\ writer[w] = "idle"
  /\ called' = FALSE
  /\ Goto(w, "heal")
  /\ UNCHANGED <<desktop, run, dir, team, spawned, counters, history>>

\* Mutant: a missing context is left to session_init.
HealNothing(w) ==
  /\ writer[w] = "heal"
  /\ Goto(w, IF dir.context THEN "look" ELSE "idle")
  /\ UNCHANGED <<desktop, run, dir, team, spawned, called, counters, history>>

\* heal_context_if_missing: the writer goes on with the context that it has
\* computed even if it could not write it.
Heal(w) ==
  /\ writer[w] = "heal"
  /\ Goto(w, "look")
  /\ \/ dir.context /\ UNCHANGED <<dir, faults>>
     \/ ~dir.context /\ \E written \in BOOLEAN :
          /\ Fault(~written)
          /\ dir' = IF written THEN [dir EXCEPT !.there = TRUE, !.context = TRUE]
                    ELSE dir
  /\ UNCHANGED <<desktop, run, team, spawned, called, starts, removals, history>>

\* Mutant: a team is enough.
TeamHasAnyone == team # "none"

\* The members[] have the secretary, or there is an inbox for it.
TeamHasSecretary == team \in {"assigned", "joined"}

Look(w) ==
  /\ writer[w] = "look"
  /\ Goto(w, IF dir.marker = "valid" THEN "idle" ELSE "align")
  /\ UNCHANGED <<desktop, run, dir, team, spawned, called, counters, history>>

\* The team may have another name than the context says: then the context is
\* written again, if it can be.
Align(w) ==
  /\ writer[w] = "align"
  /\ Goto(w, "ask")
  /\ dir' \in {dir, [dir EXCEPT !.there = TRUE, !.context = TRUE]}
  /\ UNCHANGED <<desktop, run, team, spawned, called, counters, history>>

Ask(w) ==
  /\ writer[w] = "ask"
  /\ Goto(w, IF TeamHasSecretary THEN "write" ELSE "idle")
  /\ UNCHANGED <<desktop, run, dir, team, spawned, called, counters, history>>

\* If the directory was removed meanwhile it comes back with the marker alone.
WriteMarker(w) ==
  /\ writer[w] = "write"
  /\ Goto(w, "idle")
  /\ dir' = [dir EXCEPT !.there = TRUE, !.marker = "valid"]
  /\ UNCHANGED <<desktop, run, team, spawned, called, counters, history>>

\* The file cannot be written, or the version of the plugin not be read.
WriteMarkerFails(w) ==
  /\ writer[w] = "write"
  /\ Goto(w, "idle")
  /\ Fault(TRUE) /\ failed' = TRUE
  /\ UNCHANGED <<desktop, run, dir, team, spawned, called, starts, removals, asked, worked>>

Next ==
  \/ \E source \in {"start", "clear", "compact"}, written, updated \in BOOLEAN :
       SessionStart(source, written, updated)
  \/ Stop \/ Removed
  \/ Assign \/ Spawn \/ Edit \/ Dispatch
  \/ \E w \in Writers :
       \/ PromptHook(w) \/ AgentHook(w)
       \/ Heal(w) \/ Look(w) \/ Align(w) \/ Ask(w)
       \/ WriteMarker(w) \/ WriteMarkerFails(w)

\* The lead carries on with the bootstrap and the platform runs the hooks of its
\* calls; the user need not say anything.
Fairness ==
  /\ WF_vars(Assign) /\ WF_vars(Spawn)
  /\ WF_vars(\E w \in Writers : AgentHook(w))
  /\ \A w \in Writers :
       /\ WF_vars(Heal(w)) /\ WF_vars(Look(w)) /\ WF_vars(Align(w))
       /\ WF_vars(Ask(w)) /\ WF_vars(WriteMarker(w))

Spec == Init /\ [][Next]_vars /\ Fairness

-----------------------------------------------------------------------------
\* Where the gate knows the session, nothing is edited or dispatched before there
\* was a task for a secretary, whatever was cleared, removed, healed or resumed.
WorkAfterSecretary == worked => asked


\* A lead that is locked out in the middle of its work (the directory removed, a
\* writer failed, the plugin updated, an earlier secretary still a member) is let
\* in again by prompts of the user.
PromptsOpen ==
  WF_vars(\E w \in Writers : PromptHook(w)) =>
    (run ~> (dir.marker = "valid" \/ ~run))

=============================================================================
