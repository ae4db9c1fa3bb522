----------------------------- MODULE TaskStore -----------------------------
(***************************************************************************)
(* The task files of one team, {team}/{id}.json, which the platform writes *)
(* for TaskUpdate and which three hooks write too, without a lock: the     *)
(* automatic claim (hooks/task_claim_gate.py), the dispute of a completion *)
(* and the protection of an auditor's verdict                              *)
(* (hooks/task_lifecycle_gate.py).  The three read the whole task, change  *)
(* a few of its keys, write a temporary file with a fixed name, and rename *)
(* it over the task.                                                       *)
(***************************************************************************)
EXTENDS Integers, FiniteSets, SequencesExt

CONSTANTS
  Hooks,       \* processes that run hooks, at once
  Tasks,
  Teachbacks,  \* tasks whose subject is a teachback
  Mates,       \* teammates; the lead is Lead
  Owner,       \* Owner[t]: the teammate that a task is assigned to
  Blockers,    \* Blockers[t]: the tasks it waits for
  Exempt,      \* teammates that may complete their own tasks (the secretary)
  Verdicts,    \* what an auditor can conclude
  MaxUpdates,  \* bound: TaskUpdates
  MaxClaims,   \* bound: edits and commands of teammates that have work to claim
  MaxFaults    \* bound: hooks killed and writes failed

Lead == "lead"
NoVerdict == "none"

ASSUME TasksAssigned ==
  /\ Tasks # {} /\ Teachbacks \subseteq Tasks /\ Exempt \subseteq Mates
  /\ Lead \notin Mates /\ NoVerdict \notin Verdicts /\ "nobody" \notin Hooks
  /\ Owner \in [Tasks -> Mates]
  /\ Blockers \in [Tasks -> SUBSET Tasks]

VARIABLES
  tmux,      \* every teammate in a process of its own (else: all in the lead's)
  file, tmp, \* per task: the file and the temporary file, as inodes
  pc, job, keys, copy, \* per hook: step, call it runs for, keys to set, task read
  updates, claims, faults, \* counters for the bounds
  overtaken, \* history: hooks whose file changed after they read it
  blind,     \* history: claims whose scan could not read a blocker
  accepted,  \* history: tasks that were completed at some time
  spoken,    \* history: the last verdict of an auditor, per task
  contested, \* history: tasks that teammates completed for themselves
  shared,    \* history: tasks whose temporary file two hooks had open
  mixed      \* history: tasks that hooks wrote at the same time, or not to the end

hookVars == <<pc, job, keys, copy>>
counters == <<updates, claims, faults>>
history == <<overtaken, blind, accepted, spoken, contested, shared, mixed>>
taskHistory == <<spoken, contested, shared, mixed>>
vars == <<tmux, file, tmp, hookVars, counters, history>>

Content == [status   : {"pending", "in_progress", "completed"},
            verdict  : Verdicts \cup {NoVerdict},   \* audit_summary
            authored : Verdicts \cup {NoVerdict},   \* audit_summary_authored
            note     : Verdicts \cup {NoVerdict},   \* lead_close_note
            disputed : BOOLEAN]                     \* completion_disputed

NewTask == [status |-> "pending", verdict |-> NoVerdict, authored |-> NoVerdict,
            note |-> NoVerdict, disputed |-> FALSE]

\* An inode holds a task or, while <<>>, what json.loads refuses; some hooks
\* have it open for writing.
Inode == [data : {<<>>} \cup [{1} -> Content], open : SUBSET Hooks]
NoFile == [data |-> <<>>, open |-> {"nobody"}]

NoJob == [actor |-> Lead, task |-> CHOOSE t \in Tasks : TRUE,
          status |-> "", verdict |-> NoVerdict]
NoKeys == [status |-> "", authored |-> NoVerdict, note |-> NoVerdict,
           disputed |-> FALSE]
Steps == {"idle", "scan", "audit", "completion", "read", "open", "write", "replace",
          "clean"}

TypeOK ==
  /\ tmux \in BOOLEAN
  /\ \A t \in Tasks : /\ file[t] \in Inode
                      /\ tmp[t] \in Inode \cup {NoFile}
                      /\ tmp[t] # NoFile => tmp[t].open \cap file[t].open = {}
  /\ \A h \in Hooks : /\ pc[h] \in Steps
                      /\ pc[h] \in {"open", "write"} => copy[h] \in [{1} -> Content]
                      /\ pc[h] \notin {"write"} =>
                           \A t \in Tasks : h \notin file[t].open \cup tmp[t].open
                      /\ pc[h] = "idle" => job[h] = NoJob /\ keys[h] = NoKeys
  /\ overtaken \cup blind \subseteq Hooks
  /\ accepted \cup contested \cup shared \cup mixed \subseteq Tasks

Init ==
  /\ tmux \in BOOLEAN
  /\ file = [t \in Tasks |-> [data |-> <<NewTask>>, open |-> {}]]
  /\ tmp = [t \in Tasks |-> NoFile]
  /\ pc = [h \in Hooks |-> "idle"] /\ job = [h \in Hooks |-> NoJob]
  /\ keys = [h \in Hooks |-> NoKeys] /\ copy = [h \in Hooks |-> <<>>]
  /\ updates = 0 /\ claims = 0 /\ faults = 0
  /\ overtaken = {} /\ blind = {} /\ accepted = {}
  /\ contested = {} /\ shared = {} /\ mixed = {}
  /\ spoken = [t \in Tasks |-> NoVerdict]

-----------------------------------------------------------------------------
Readable(t) == file[t].data # <<>>
Goto(h, step) == pc' = [pc EXCEPT ![h] = step]

\* read_task_json answers {} for what it cannot parse.
Task(t) == IF Readable(t) THEN file[t].data[1]
           ELSE [NewTask EXCEPT !.status = "unknown"]

\* The hooks that have read the file and not yet replaced it.
Writing(t) == {h \in Hooks : job[h].task = t /\ pc[h] \in {"open", "write", "replace"}}

\* The file of t becomes another inode, or the same with other data.
SetFile(t, inode) ==
  /\ file' = [file EXCEPT ![t] = inode]
  /\ accepted' = IF inode.data # <<>> /\ inode.data[1].status = "completed"
                 THEN accepted \cup {t} ELSE accepted

\* The hook h ends, and has changed the file under the others.
EndHook(h, others) ==
  /\ Goto(h, "idle")
  /\ job' = [job EXCEPT ![h] = NoJob]
  /\ keys' = [keys EXCEPT ![h] = NoKeys]
  /\ copy' = [copy EXCEPT ![h] = <<>>]
  /\ overtaken' = (overtaken \ {h}) \cup others
  /\ blind' = blind \ {h}

\* After a write-back the lifecycle gate goes on with its next rule.
NextRule(h, others) ==
  IF keys[h].authored # NoVerdict \/ keys[h].note # NoVerdict
  THEN /\ Goto(h, "completion")
       /\ keys' = [keys EXCEPT ![h] = NoKeys]
       /\ copy' = [copy EXCEPT ![h] = <<>>]
       /\ overtaken' = (overtaken \ {h}) \cup others
       /\ UNCHANGED <<job, blind>>
  ELSE EndHook(h, others)

SetKeys(task, k) ==
  [task EXCEPT !.status = IF k.status = "" THEN @ ELSE k.status,
               !.authored = IF k.authored = NoVerdict THEN @ ELSE k.authored,
               !.note = IF k.note = NoVerdict THEN @ ELSE k.note,
               !.disputed = @ \/ k.disputed]

(* The platform carries out a TaskUpdate of the lead or of a teammate, and runs
   the lifecycle gate after it. *)
Updated(task, status, verdict) ==
  [task EXCEPT !.status = IF status = "" THEN @ ELSE status,
               !.verdict = IF verdict = NoVerdict THEN @ ELSE verdict]

UpdateTask(h, actor, t, status, verdict) ==
  /\ pc[h] = "idle" /\ Readable(t)
  /\ actor = Lead \/ actor = Owner[t]
  /\ status # "" \/ verdict # NoVerdict
  /\ updates < MaxUpdates /\ updates' = updates + 1
  /\ SetFile(t, [data |-> <<Updated(Task(t), status, verdict)>>,
                 open |-> {}])
  /\ Goto(h, IF verdict # NoVerdict THEN "audit" ELSE "completion")
  /\ job' = [job EXCEPT ![h] = [actor |-> actor, task |-> t,
                                status |-> status, verdict |-> verdict]]
  /\ overtaken' = overtaken \cup Writing(t)
  /\ mixed' = IF \/ Writing(t) # {}
                 \/ \E g \in Hooks : job[g].task = t /\ job[g].actor = actor
                                    /\ job[g].verdict # NoVerdict
              THEN mixed \cup {t} ELSE mixed
  /\ spoken' = IF verdict # NoVerdict /\ actor # Lead
               THEN [spoken EXCEPT ![t] = verdict] ELSE spoken
  /\ contested' = IF status = "completed" /\ actor = Owner[t] /\ ~tmux
                     /\ actor \notin Exempt
                  THEN contested \cup {t} ELSE contested
  /\ UNCHANGED <<tmux, tmp, keys, copy, claims, faults, blind, shared>>

WriteBack(h, k) ==
  /\ keys' = [keys EXCEPT ![h] = k]
  /\ Goto(h, "read")
  /\ UNCHANGED <<job, copy, overtaken, blind>>

\* Mutant: the lead's own verdict is mirrored as if an auditor had written it.
AuditMirrorAll(h) ==
  /\ pc[h] = "audit"
  /\ IF Task(job[h].task).authored # job[h].verdict
     THEN WriteBack(h, [NoKeys EXCEPT !.authored = job[h].verdict])
     ELSE Goto(h, "completion") /\ UNCHANGED <<job, keys, copy, overtaken, blind>>
  /\ UNCHANGED <<tmux, file, tmp, counters, accepted, taskHistory>>

\* Verdicts: a teammate's is mirrored, a lead's that differs becomes a note.
Audit(h) ==
  /\ pc[h] = "audit"
  /\ LET incoming == job[h].verdict
         authored == Task(job[h].task).authored
     IN IF authored = incoming \/ (job[h].actor = Lead /\ authored = NoVerdict)
        THEN /\ Goto(h, "completion")
             /\ UNCHANGED <<job, keys, copy, overtaken, blind>>
        ELSE WriteBack(h, IF job[h].actor = Lead
                          THEN [NoKeys EXCEPT !.note = incoming]
                          ELSE [NoKeys EXCEPT !.authored = incoming])
  /\ UNCHANGED <<tmux, file, tmp, counters, accepted, taskHistory>>

\* The rules on a completion: only in the lead's process does the hook know
\* which teammate called.
SelfCompleted(j) ==
  /\ ~tmux /\ j.status = "completed"
  /\ j.actor = Owner[j.task] /\ j.actor \notin Exempt

Completion(h) ==
  /\ pc[h] = "completion"
  /\ IF SelfCompleted(job[h])
     THEN WriteBack(h, [NoKeys EXCEPT !.disputed = TRUE])
     ELSE EndHook(h, {})
  /\ UNCHANGED <<tmux, file, tmp, counters, accepted, taskHistory>>

(* The claim, before an Edit, a Write or a Bash of a teammate. *)
UseTool(h, m) ==
  /\ pc[h] = "idle" /\ tmux
  /\ claims < MaxClaims /\ claims' = claims + 1
  /\ job' = [job EXCEPT ![h].actor = m]
  /\ Goto(h, "scan")
  /\ UNCHANGED <<tmux, file, tmp, keys, copy, updates, faults, history>>

\* Mutant: a blocker that somebody works on blocks no more.
UnblockedByWork(t) ==
  \A b \in Blockers[t] : ~Readable(b) \/ Task(b).status # "pending"

\* A blocker that cannot be read counts as resolved.
Unblocked(t) ==
  \A b \in Blockers[t] : ~Readable(b) \/ Task(b).status = "completed"

Mine(m) == {t \in Tasks \ Teachbacks :
              /\ Owner[t] = m /\ m \notin Exempt
              /\ Task(t).status = "pending" /\ Unblocked(t)}

Scan(h) ==
  /\ pc[h] = "scan"
  /\ \/ \E t \in Mine(job[h].actor) :
          /\ Mine(job[h].actor) = {t}
          /\ job' = [job EXCEPT ![h].task = t]
          /\ keys' = [keys EXCEPT ![h].status = "in_progress"]
          /\ copy' = [copy EXCEPT ![h] = file[t].data]
          /\ blind' = IF \A b \in Blockers[t] : Readable(b)
                      THEN blind ELSE blind \cup {h}
          /\ Goto(h, "read")
          /\ UNCHANGED overtaken
     \/ Cardinality(Mine(job[h].actor)) # 1 /\ EndHook(h, {})
  /\ UNCHANGED <<tmux, file, tmp, counters, accepted, taskHistory>>

-----------------------------------------------------------------------------
(* The write-back, the same in all three. *)

\* Mutant: the claim writes the task as the scan had read it.
ReadNotAgain(h) ==
  /\ pc[h] = "read"
  /\ Readable(job[h].task)
  /\ copy' = [copy EXCEPT ![h] =
       <<SetKeys(IF @ # <<>> THEN @[1] ELSE Task(job[h].task), keys[h])>>]
  /\ Goto(h, "open")
  /\ mixed' = IF Writing(job[h].task) # {} THEN mixed \cup {job[h].task} ELSE mixed
  /\ UNCHANGED <<tmux, file, tmp, job, keys, counters,
                 overtaken, blind, accepted, spoken, contested, shared>>

\* Mutant: what {} lacks is filled in, and written.
ReadAnything(h) ==
  /\ pc[h] = "read"
  /\ copy' = [copy EXCEPT ![h] = <<SetKeys(Task(job[h].task), keys[h])>>]
  /\ Goto(h, "open")
  /\ mixed' = IF Writing(job[h].task) # {} THEN mixed \cup {job[h].task} ELSE mixed
  /\ UNCHANGED <<tmux, file, tmp, job, keys, counters,
                 overtaken, blind, accepted, spoken, contested, shared>>

\* A claim finds out here whether the task is still pending.
Read(h) ==
  /\ pc[h] = "read"
  /\ LET t == job[h].task IN
     IF Readable(t) /\ (keys[h].status # "" => Task(t).status = "pending")
     THEN /\ copy' = [copy EXCEPT ![h] = <<SetKeys(Task(t), keys[h])>>]
          /\ Goto(h, "open")
          /\ mixed' = IF Writing(t) # {} THEN mixed \cup {t} ELSE mixed
          /\ UNCHANGED <<job, keys, overtaken, blind>>
     ELSE /\ NextRule(h, {})
          /\ mixed' = IF Readable(t) THEN mixed ELSE mixed \cup {t}
  /\ UNCHANGED <<tmux, file, tmp, counters, accepted, spoken, contested, shared>>

\* open(tmp, "w"): a temporary file that is there is emptied, whoever wrote it.
OpenTmp(h) ==
  /\ pc[h] = "open"
  /\ LET t == job[h].task
     IN /\ tmp' = [tmp EXCEPT ![t] =
             [data |-> <<>>,
              open |-> IF @ = NoFile THEN {h} ELSE @.open \cup {h}]]
        /\ shared' = IF \E g \in Writing(t) : pc[g] \in {"write", "replace"}
                     THEN shared \cup {t} ELSE shared
        /\ Goto(h, "write")
  /\ UNCHANGED <<tmux, file, job, keys, copy, counters,
                 overtaken, blind, accepted, spoken, contested, mixed>>

\* What the hook has open may be the temporary file, or the task file if
\* another hook has renamed it, or be gone.  Writing over another hook's text may
\* leave the end of that.
Put(inode, h, data) ==
  IF inode # NoFile /\ h \in inode.open
  THEN [data : {data} \cup (IF inode.data \in {<<>>, data} THEN {} ELSE {<<>>}),
        open : {inode.open \ {h}}]
  ELSE {inode}

Close(inode, h) == IF inode = NoFile THEN NoFile ELSE [inode EXCEPT !.open = @ \ {h}]

WriteTmp(h) ==
  /\ pc[h] = "write"
  /\ LET t == job[h].task IN
     /\ \E inode \in Put(tmp[t], h, copy[h]) : tmp' = [tmp EXCEPT ![t] = inode]
     /\ \E inode \in Put(file[t], h, copy[h]) : SetFile(t, inode)
     /\ overtaken' = IF file' = file THEN overtaken
                     ELSE overtaken \cup (Writing(t) \ {h})
  /\ Goto(h, "replace")
  /\ UNCHANGED <<tmux, job, keys, copy, counters, blind, taskHistory>>

\* os.replace, which fails if another hook has renamed the temporary file.
Replace(h) ==
  /\ pc[h] = "replace"
  /\ LET t == job[h].task IN
     IF tmp[t] # NoFile
     THEN /\ SetFile(t, tmp[t])
          /\ tmp' = [tmp EXCEPT ![t] = NoFile]
          /\ NextRule(h, Writing(t) \ {h})
     ELSE /\ Goto(h, "clean")
          /\ UNCHANGED <<file, tmp, job, keys, copy, overtaken, blind, accepted>>
  /\ UNCHANGED <<tmux, counters, taskHistory>>

Fault(t) ==
  /\ faults < MaxFaults /\ faults' = faults + 1
  /\ mixed' = mixed \cup {t}
  /\ UNCHANGED <<tmux, updates, claims, spoken, contested, shared>>

\* Mutant: the rename follows a write that failed.
FailWriteGoesOn(h) ==
  /\ pc[h] = "write"
  /\ SetFile(job[h].task, Close(file[job[h].task], h))
  /\ tmp' = [tmp EXCEPT ![job[h].task] = Close(@, h)]
  /\ Goto(h, "replace")
  /\ Fault(job[h].task)
  /\ UNCHANGED <<job, keys, copy, overtaken, blind>>

\* Opening, writing or renaming fails.
FailWrite(h) ==
  /\ pc[h] \in {"open", "write", "replace"}
  /\ SetFile(job[h].task, Close(file[job[h].task], h))
  /\ tmp' = [tmp EXCEPT ![job[h].task] = Close(@, h)]
  /\ Goto(h, "clean")
  /\ Fault(job[h].task)
  /\ UNCHANGED <<job, keys, copy, overtaken, blind>>

\* After that the temporary file that is there now is removed, whoever wrote it.
CleanTmp(h) ==
  /\ pc[h] = "clean"
  /\ tmp' = [tmp EXCEPT ![job[h].task] = NoFile]
  /\ NextRule(h, {})
  /\ UNCHANGED <<tmux, file, counters, accepted, taskHistory>>

Kill(h) ==
  /\ pc[h] # "idle"
  /\ SetFile(job[h].task, Close(file[job[h].task], h))
  /\ tmp' = [tmp EXCEPT ![job[h].task] = Close(@, h)]
  /\ EndHook(h, {})
  /\ Fault(job[h].task)

WorkOf(h) == Audit(h) \/ Completion(h) \/ Scan(h) \/ Read(h) \/ OpenTmp(h)
             \/ WriteTmp(h) \/ Replace(h) \/ CleanTmp(h)

Next ==
  \E h \in Hooks :
    \/ \E actor \in Mates \cup {Lead}, t \in Tasks,
          status \in {"", "pending", "in_progress", "completed"},
          verdict \in Verdicts \cup {NoVerdict} :
         UpdateTask(h, actor, t, status, verdict)
    \/ \E m \in Mates : UseTool(h, m)
    \/ WorkOf(h) \/ FailWrite(h) \/ Kill(h)

Spec == Init /\ [][Next]_vars

-----------------------------------------------------------------------------
Publishes(h) ==
  pc[h] = "replace" /\ pc'[h] # "replace" /\ file'[job[h].task] # file[job[h].task]

\* A write-back that nobody overtook changes its own keys and nothing else,
\* however long ago the hook decided on it: a completion, a verdict or a dispute
\* that was on disk when it read stays.
SiblingsKept ==
  [][\A h \in Hooks :
       (Publishes(h) /\ h \notin overtaken /\ job[h].task \notin shared) =>
          /\ Readable(job[h].task)
          /\ file'[job[h].task].data[1] = SetKeys(Task(job[h].task), keys[h])
          /\ keys[h].status # "" => Task(job[h].task).status = "pending"]_vars

\* Work starts only after its teachback was accepted: a claim goes through if
\* the blockers have been completed, or could not be read.
StartsAfterTeachback ==
  [][\A h \in Hooks :
       (Publishes(h) /\ keys[h].status # "" /\ h \notin blind) =>
          Blockers[job[h].task] \subseteq accepted]_vars

\* When no hook is at work, the last verdict of an auditor is on file, whatever
\* the lead has written over it, and so is the dispute of a self-completion,
\* unless two hooks wrote the task at the same time, one did not end, or an
\* auditor gave two verdicts at once.
Recorded ==
  \A t \in Tasks :
    ((\A h \in Hooks : pc[h] = "idle") /\ t \notin mixed) =>
       /\ Task(t).authored = spoken[t]
       /\ t \in contested <=> Task(t).disputed

\* A task file that cannot be parsed is the work of two hooks at once: one that
\* is killed or fails leaves the file whole.
TornOnlyByTwo == \A t \in Tasks : ~Readable(t) => t \in shared

\* "the atomic os.replace (no torn write - a reader always sees the whole old
\* or whole new file)", task_claim_gate.py.
WholeFile == \A t \in Tasks : Readable(t)

=============================================================================
