-------------------------- MODULE TaskStoreProofs --------------------------
(***************************************************************************)
(* What holds of the task files for any number of hooks, tasks, blockers,  *)
(* updates and faults.  The invariant follows a task that no two hooks had *)
(* open at once: its temporary file belongs to the one hook that writes    *)
(* it, so what is renamed over the task is what that hook has read, with   *)
(* its own keys set.  What was decided and disputed of such a task stays   *)
(* on file (RecordInv).  The types of all variables close the module.      *)
(***************************************************************************)
EXTENDS TaskStore, TLAPS

Said == Verdicts \cup {NoVerdict}
Statuses == {"", "pending", "in_progress", "completed"}
Blobs == {<<>>} \cup {<<c>> : c \in Content}
Inodes == [data : Blobs, open : SUBSET (Hooks \cup {"nobody"})]
Jobs == [actor : Mates \cup {Lead}, task : Tasks, status : Statuses, verdict : Said]
KeySets == [status : {"", "in_progress"}, authored : Said, note : Said,
            disputed : BOOLEAN]

TypeInv ==
  /\ file \in [Tasks -> Inodes] /\ tmp \in [Tasks -> Inodes]
  /\ pc \in [Hooks -> Steps] /\ job \in [Hooks -> Jobs]
  /\ keys \in [Hooks -> KeySets] /\ copy \in [Hooks -> Blobs]

AcceptedInv ==
  \A t \in Tasks :
    (file[t].data # <<>> /\ file[t].data[1].status = "completed") => t \in accepted

\* A hook that is to claim, and saw its blockers, has them accepted.
ClaimOf(h) ==
  /\ keys[h].status # "" => pc[h] \in {"read", "open", "write", "replace", "clean"}
  /\ (keys[h].status # "" /\ h \notin blind) =>
       Blockers[job[h].task] \subseteq accepted

\* What a hook is going to write is the task as it is, with its keys set.
CopyOf(h) ==
  pc[h] \in {"open", "write", "replace"} =>
    /\ copy[h] # <<>>
    /\ (h \notin overtaken /\ job[h].task \notin shared) =>
         /\ copy[h] = <<SetKeys(Task(job[h].task), keys[h])>>
         /\ keys[h].status # "" => Task(job[h].task).status = "pending"

Active(t) == {h \in Hooks : job[h].task = t /\ pc[h] \in {"write", "replace"}}

\* The hook that has the temporary file of t to itself, and what is in that then.
TmpOf(t, h) ==
  /\ pc[h] = "write" => tmp[t] = NoFile \/ tmp[t] = [data |-> <<>>, open |-> {h}]
  /\ pc[h] = "replace" => tmp[t] = NoFile \/ tmp[t] = [data |-> copy[h], open |-> {}]

Whole(t) ==
  t \notin shared =>
    /\ file[t].data # <<>> /\ file[t].open = {}
    /\ \A g, h \in Active(t) : g = h
    /\ \A h \in Active(t) : TmpOf(t, h)
    /\ Active(t) = {} => tmp[t] = NoFile \/ tmp[t].open = {}

IInv ==
  /\ TypeInv
  /\ AcceptedInv
  /\ \A h \in Hooks : ClaimOf(h) /\ CopyOf(h)
  /\ \A t \in Tasks : Whole(t)

-----------------------------------------------------------------------------
LEMMA NoFileTyped == NoFile \in Inodes
  BY DEF NoFile, Inodes, Blobs

LEMMA NoKeysTyped == NoKeys \in KeySets
  BY DEF NoKeys, KeySets, Said

LEMMA NoJobTyped == NoJob \in Jobs
  BY TasksAssigned DEF NoJob, Jobs, Statuses, Said

LEMMA NewTaskTyped == NewTask \in Content
  BY DEF NewTask, Content

LEMMA BlobOf ==
  ASSUME NEW c \in Content
  PROVE  <<c>> \in Blobs /\ <<c>> # <<>> /\ <<c>>[1] = c
  BY DEF Blobs

LEMMA BlobRead ==
  ASSUME NEW b \in Blobs, b # <<>>
  PROVE  b[1] \in Content /\ b = <<b[1]>>
  BY DEF Blobs

LEMMA SetKeysTyped ==
  ASSUME NEW c \in Content, NEW k \in KeySets
  PROVE  SetKeys(c, k) \in Content
  BY DEF SetKeys, Content, KeySets, Said

LEMMA UpdatedTyped ==
  ASSUME NEW c \in Content, NEW status \in Statuses, NEW verdict \in Said
  PROVE  Updated(c, status, verdict) \in Content
  BY DEF Updated, Content, Statuses, Said

LEMMA InitEstablishes == Init => IInv
<1> SUFFICES ASSUME Init
             PROVE  IInv
  OBVIOUS
<1>1. TypeInv
  <2>1. [data |-> <<NewTask>>, open |-> {}] \in Inodes
    BY NewTaskTyped, BlobOf DEF Inodes
  <2>2. <<>> \in Blobs
    BY DEF Blobs
  <2> QED  BY <2>1, <2>2, NoFileTyped, NoJobTyped, NoKeysTyped DEF Init, TypeInv, Steps
<1>2. AcceptedInv
  BY NewTaskTyped, BlobOf DEF Init, AcceptedInv, NewTask
<1>3. ASSUME NEW h \in Hooks PROVE ClaimOf(h) /\ CopyOf(h)
  BY DEF Init, ClaimOf, CopyOf, NoKeys
<1>4. ASSUME NEW t \in Tasks PROVE Whole(t)
  BY NewTaskTyped, BlobOf DEF Init, Whole, Active
<1> QED  BY <1>1, <1>2, <1>3, <1>4 DEF IInv

-----------------------------------------------------------------------------
\* A hook that takes no step keeps its invariant, if its task stays as it is or
\* it is noted as overtaken.
LEMMA OtherHook ==
  ASSUME NEW g \in Hooks, ClaimOf(g), CopyOf(g),
         pc'[g] = pc[g], job'[g] = job[g], keys'[g] = keys[g], copy'[g] = copy[g],
         g \in overtaken => g \in overtaken', g \in blind => g \in blind',
         accepted \subseteq accepted', shared \subseteq shared',
         \/ pc[g] \notin {"open", "write", "replace"}
         \/ g \in overtaken' \/ job[g].task \in shared'
         \/ file'[job[g].task].data = file[job[g].task].data
  PROVE  ClaimOf(g)' /\ CopyOf(g)'
<1>1. ClaimOf(g)'
  BY DEF ClaimOf
<1>2. CopyOf(g)'
  BY DEF CopyOf, Task, Readable
<1> QED  BY <1>1, <1>2

\* A task whose temporary file is left alone stays whole.
LEMMA OtherTask ==
  ASSUME NEW t \in Tasks, Whole(t), shared \subseteq shared',
         t \notin shared' => /\ file'[t].data # <<>> /\ file'[t].open = {}
                             /\ tmp'[t] = tmp[t] /\ Active(t)' = Active(t)
                             /\ \A g \in Active(t) : pc'[g] = pc[g] /\ copy'[g] = copy[g]
  PROVE  Whole(t)'
<1> SUFFICES ASSUME t \notin shared'
             PROVE  Whole(t)'
  BY DEF Whole
<1>1. t \notin shared
  OBVIOUS
<1>2. \A h \in Active(t)' : TmpOf(t, h)'
  BY <1>1 DEF Whole, TmpOf
<1> QED  BY <1>1, <1>2 DEF Whole

\* The steps of a hook before it opens the temporary file.
LEMMA Quiet ==
  ASSUME IInv, TypeInv', NEW h \in Hooks,
         file' = file, tmp' = tmp, accepted' = accepted, shared' = shared,
         \A g \in Hooks \ {h} :
           /\ pc'[g] = pc[g] /\ job'[g] = job[g] /\ keys'[g] = keys[g]
           /\ copy'[g] = copy[g]
           /\ g \in overtaken => g \in overtaken'
           /\ g \in blind => g \in blind',
         pc[h] \notin {"write", "replace"}, pc'[h] \notin {"write", "replace"},
         ClaimOf(h)', CopyOf(h)'
  PROVE  IInv'
<1>1. AcceptedInv'
  BY DEF IInv, AcceptedInv
<1>2. ASSUME NEW g \in Hooks PROVE ClaimOf(g)' /\ CopyOf(g)'
  <2>1. CASE g = h
    BY <2>1
  <2>2. CASE g # h
    BY <2>2, OtherHook DEF IInv
  <2> QED  BY <2>1, <2>2
<1>3. ASSUME NEW t \in Tasks PROVE Whole(t)'
  <2>1. Active(t)' = Active(t) /\ \A g \in Active(t) : pc'[g] = pc[g] /\ copy'[g] = copy[g]
    BY DEF Active
  <2>2. Whole(t)
    BY DEF IInv
  <2>3. t \notin shared' => file'[t].data # <<>> /\ file'[t].open = {}
    BY <2>2 DEF Whole
  <2> QED  BY <2>1, <2>2, <2>3, OtherTask
<1> QED  BY <1>1, <1>2, <1>3 DEF IInv

LEMMA AuditPreserves == ASSUME IInv, NEW h \in Hooks, Audit(h) PROVE IInv'
<1>1. TypeInv /\ job[h].verdict \in Said
  BY DEF IInv, TypeInv, Jobs
<1>2. \/ /\ pc' = [pc EXCEPT ![h] = "completion"]
         /\ UNCHANGED <<job, keys, copy, overtaken, blind>>
      \/ \E k \in KeySets :
           /\ k.status = ""
           /\ keys' = [keys EXCEPT ![h] = k]
           /\ pc' = [pc EXCEPT ![h] = "read"]
           /\ UNCHANGED <<job, copy, overtaken, blind>>
  <2> DEFINE v == job[h].verdict
  <2>1. /\ [NoKeys EXCEPT !.note = v] \in KeySets
        /\ [NoKeys EXCEPT !.note = v].status = ""
    BY <1>1 DEF NoKeys, KeySets, Said
  <2>2. /\ [NoKeys EXCEPT !.authored = v] \in KeySets
        /\ [NoKeys EXCEPT !.authored = v].status = ""
    BY <1>1 DEF NoKeys, KeySets, Said
  <2> QED  BY <2>1, <2>2 DEF Audit, WriteBack, Goto
<1>3. UNCHANGED <<file, tmp, accepted, shared>> /\ pc[h] = "audit"
  BY DEF Audit, taskHistory
<1>4. TypeInv'
  BY <1>1, <1>2, <1>3 DEF TypeInv, Steps
<1>5. ClaimOf(h)' /\ CopyOf(h)'
  BY <1>1, <1>2, <1>3 DEF IInv, TypeInv, ClaimOf, CopyOf
<1>6. \A g \in Hooks \ {h} : pc'[g] = pc[g] /\ job'[g] = job[g] /\ keys'[g] = keys[g]
                             /\ copy'[g] = copy[g]
  BY <1>1, <1>2 DEF TypeInv
<1>7. pc'[h] \notin {"write", "replace"} /\ overtaken' = overtaken /\ blind' = blind
  BY <1>1, <1>2 DEF TypeInv
<1> QED  BY <1>3, <1>4, <1>5, <1>6, <1>7, Quiet

-----------------------------------------------------------------------------
\* Whatever a hook still had to do is forgotten, or its next rule begins, or it
\* gives up: it is no longer one of those that write.
Leaves(h, others) ==
  /\ \/ pc'[h] \in {"idle", "completion"} /\ keys'[h].status = ""
     \/ pc'[h] = "clean" /\ job'[h] = job[h] /\ keys'[h] = keys[h] /\ blind' = blind
  /\ \A g \in Hooks \ {h} :
       /\ pc'[g] = pc[g] /\ job'[g] = job[g] /\ keys'[g] = keys[g]
       /\ copy'[g] = copy[g]
       /\ g \in overtaken \/ g \in others => g \in overtaken'
       /\ g \in blind => g \in blind'
  /\ pc' \in [Hooks -> Steps] /\ job' \in [Hooks -> Jobs]
  /\ keys' \in [Hooks -> KeySets] /\ copy' \in [Hooks -> Blobs]

LEMMA EndHookLeaves ==
  ASSUME TypeInv, NEW h \in Hooks, NEW others, EndHook(h, others)
  PROVE  Leaves(h, others)
<1>1. <<>> \in Blobs /\ NoKeys.status = ""
  BY DEF Blobs, NoKeys
<1> QED
  BY <1>1, NoKeysTyped, NoJobTyped DEF TypeInv, EndHook, Leaves, Goto, Steps

LEMMA NextRuleLeaves ==
  ASSUME TypeInv, NEW h \in Hooks, NEW others, NextRule(h, others)
  PROVE  Leaves(h, others)
<1>1. <<>> \in Blobs /\ NoKeys.status = ""
  BY DEF Blobs, NoKeys
<1>2. CASE keys[h].authored # NoVerdict \/ keys[h].note # NoVerdict
  BY <1>1, <1>2, NoKeysTyped DEF TypeInv, NextRule, Leaves, Goto, Steps
<1>3. CASE ~(keys[h].authored # NoVerdict \/ keys[h].note # NoVerdict)
  BY <1>3, EndHookLeaves DEF NextRule
<1> QED  BY <1>2, <1>3

LEMMA CleanLeaves ==
  ASSUME TypeInv, NEW h \in Hooks, Goto(h, "clean"),
         UNCHANGED <<job, keys, copy, overtaken, blind>>
  PROVE  Leaves(h, {})
  BY DEF TypeInv, Leaves, Goto, Steps

LEMMA LeavesHook ==
  ASSUME NEW h \in Hooks, NEW others, Leaves(h, others), ClaimOf(h),
         accepted \subseteq accepted'
  PROVE  ClaimOf(h)' /\ CopyOf(h)'
  BY DEF Leaves, ClaimOf, CopyOf

LEMMA CompletionPreserves == ASSUME IInv, NEW h \in Hooks, Completion(h) PROVE IInv'
<1>1. TypeInv /\ UNCHANGED <<file, tmp, accepted, shared>> /\ pc[h] = "completion"
  BY DEF IInv, Completion, taskHistory
<1>2. CASE SelfCompleted(job[h])
  <2>1. [NoKeys EXCEPT !.disputed = TRUE] \in KeySets
        /\ [NoKeys EXCEPT !.disputed = TRUE].status = ""
    BY DEF NoKeys, KeySets, Said
  <2>2. \E k \in KeySets : k.status = "" /\ WriteBack(h, k)
    BY <1>2, <2>1 DEF Completion
  <2>3. TypeInv'
    BY <1>1, <2>2 DEF TypeInv, Steps, WriteBack, Goto
  <2>4. ClaimOf(h)' /\ CopyOf(h)'
    BY <1>1, <2>2 DEF IInv, TypeInv, ClaimOf, CopyOf, WriteBack, Goto
  <2>5. /\ \A g \in Hooks \ {h} : pc'[g] = pc[g] /\ job'[g] = job[g]
                                  /\ keys'[g] = keys[g] /\ copy'[g] = copy[g]
        /\ pc'[h] = "read" /\ overtaken' = overtaken /\ blind' = blind
    BY <1>1, <2>2 DEF TypeInv, WriteBack, Goto
  <2> QED  BY <1>1, <2>3, <2>4, <2>5, Quiet
<1>3. CASE ~SelfCompleted(job[h])
  <2>1. Leaves(h, {})
    BY <1>1, <1>3, EndHookLeaves DEF Completion
  <2>2. TypeInv'
    BY <1>1, <2>1 DEF TypeInv, Leaves
  <2>3. ClaimOf(h)' /\ CopyOf(h)'
    BY <1>1, <2>1, LeavesHook DEF IInv
  <2> QED  BY <1>1, <2>1, <2>2, <2>3, Quiet DEF Leaves
<1> QED  BY <1>2, <1>3

LEMMA UseToolPreserves ==
  ASSUME IInv, NEW h \in Hooks, NEW m \in Mates, UseTool(h, m)
  PROVE  IInv'
<1>1. TypeInv /\ UNCHANGED <<file, tmp, keys, copy, accepted, shared, overtaken, blind>>
      /\ pc[h] = "idle"
  BY DEF IInv, UseTool, history
<1>2. [job[h] EXCEPT !.actor = m] \in Jobs
  BY <1>1 DEF TypeInv, Jobs
<1>3. TypeInv'
  BY <1>1, <1>2 DEF TypeInv, UseTool, Goto, Steps
<1>4. keys[h].status = ""
  BY <1>1 DEF IInv, ClaimOf
<1>5. pc'[h] = "scan" /\ \A g \in Hooks \ {h} : pc'[g] = pc[g] /\ job'[g] = job[g]
  BY <1>1 DEF TypeInv, UseTool, Goto
<1>6. ClaimOf(h)' /\ CopyOf(h)'
  BY <1>1, <1>4, <1>5 DEF ClaimOf, CopyOf
<1> QED  BY <1>1, <1>3, <1>5, <1>6, Quiet

LEMMA ScanPreserves == ASSUME IInv, NEW h \in Hooks, Scan(h) PROVE IInv'
<1>1. TypeInv /\ UNCHANGED <<file, tmp, accepted, shared>> /\ pc[h] = "scan"
  BY DEF IInv, Scan, taskHistory
<1>2. CASE EndHook(h, {})
  <2>1. Leaves(h, {})
    BY <1>1, <1>2, EndHookLeaves
  <2>2. TypeInv'
    BY <1>1, <2>1 DEF TypeInv, Leaves
  <2>3. ClaimOf(h)' /\ CopyOf(h)'
    BY <1>1, <2>1, LeavesHook DEF IInv
  <2> QED  BY <1>1, <2>1, <2>2, <2>3, Quiet DEF Leaves
<1>3. CASE \E t \in Mine(job[h].actor) :
             /\ job' = [job EXCEPT ![h].task = t]
             /\ keys' = [keys EXCEPT ![h].status = "in_progress"]
             /\ copy' = [copy EXCEPT ![h] = file[t].data]
             /\ blind' = IF \A b \in Blockers[t] : Readable(b)
                         THEN blind ELSE blind \cup {h}
             /\ Goto(h, "read")
             /\ UNCHANGED overtaken
  <2>1. PICK t \in Mine(job[h].actor) :
             /\ job' = [job EXCEPT ![h].task = t]
             /\ keys' = [keys EXCEPT ![h].status = "in_progress"]
             /\ copy' = [copy EXCEPT ![h] = file[t].data]
             /\ blind' = IF \A b \in Blockers[t] : Readable(b)
                         THEN blind ELSE blind \cup {h}
             /\ Goto(h, "read")
             /\ UNCHANGED overtaken
    BY <1>3
  <2>2. t \in Tasks /\ Unblocked(t)
    BY DEF Mine
  <2>3. /\ [job[h] EXCEPT !.task = t] \in Jobs
        /\ [keys[h] EXCEPT !.status = "in_progress"] \in KeySets
        /\ file[t].data \in Blobs
    <3>1. job[h] \in Jobs /\ keys[h] \in KeySets /\ file[t] \in Inodes
      BY <1>1, <2>2 DEF TypeInv
    <3>2. [job[h] EXCEPT !.task = t] \in Jobs
      BY <2>2, <3>1 DEF Jobs
    <3>3. [keys[h] EXCEPT !.status = "in_progress"] \in KeySets
      BY <3>1 DEF KeySets
    <3> QED  BY <3>1, <3>2, <3>3 DEF Inodes
  <2>4. TypeInv'
    BY <1>1, <2>1, <2>3 DEF TypeInv, Goto, Steps
  <2>5. /\ pc'[h] = "read" /\ job'[h].task = t
        /\ \A g \in Hooks \ {h} : pc'[g] = pc[g] /\ job'[g] = job[g]
                                  /\ keys'[g] = keys[g] /\ copy'[g] = copy[g]
    BY <1>1, <2>1 DEF TypeInv, Goto, Jobs
  <2>6. ASSUME h \notin blind' PROVE Blockers[t] \subseteq accepted
    <3> SUFFICES ASSUME NEW b \in Blockers[t] PROVE b \in accepted
      OBVIOUS
    <3>1. b \in Tasks
      BY <2>2, TasksAssigned
    <3>2. Readable(b) /\ Task(b).status = "completed"
      BY <2>1, <2>2, <2>6 DEF Unblocked
    <3> QED  BY <3>1, <3>2 DEF IInv, AcceptedInv, Task, Readable
  <2>7. ClaimOf(h)' /\ CopyOf(h)'
    BY <1>1, <2>5, <2>6 DEF ClaimOf, CopyOf
  <2>8. blind \subseteq blind'
    BY <2>1
  <2> QED  BY <1>1, <2>1, <2>4, <2>5, <2>7, <2>8, Quiet
<1> QED  BY <1>2, <1>3 DEF Scan

LEMMA ReadPreserves == ASSUME IInv, NEW h \in Hooks, Read(h) PROVE IInv'
<1> DEFINE t == job[h].task
<1>1. TypeInv /\ UNCHANGED <<file, tmp, accepted, shared>> /\ pc[h] = "read"
      /\ t \in Tasks
  BY DEF IInv, TypeInv, Jobs, Read
<1>2. CASE NextRule(h, {})
  <2>1. Leaves(h, {})
    BY <1>1, <1>2, NextRuleLeaves
  <2>2. TypeInv'
    BY <1>1, <2>1 DEF TypeInv, Leaves
  <2>3. ClaimOf(h)' /\ CopyOf(h)'
    BY <1>1, <2>1, LeavesHook DEF IInv
  <2> QED  BY <1>1, <2>1, <2>2, <2>3, Quiet DEF Leaves
<1>3. CASE /\ Readable(t) /\ (keys[h].status # "" => Task(t).status = "pending")
           /\ copy' = [copy EXCEPT ![h] = <<SetKeys(Task(t), keys[h])>>]
           /\ Goto(h, "open")
           /\ UNCHANGED <<job, keys, overtaken, blind>>
  <2>1. Task(t) \in Content
    <3>1. file[t].data \in Blobs
      BY <1>1 DEF TypeInv, Inodes
    <3> QED  BY <1>3, <3>1, BlobRead DEF Task, Readable
  <2>2. <<SetKeys(Task(t), keys[h])>> \in Blobs /\ <<SetKeys(Task(t), keys[h])>> # <<>>
    BY <1>1, <2>1, SetKeysTyped, BlobOf DEF TypeInv
  <2>3. TypeInv'
    BY <1>1, <1>3, <2>2 DEF TypeInv, Goto, Steps
  <2>4. /\ pc'[h] = "open" /\ copy'[h] = <<SetKeys(Task(t), keys[h])>>
        /\ \A g \in Hooks \ {h} : pc'[g] = pc[g] /\ copy'[g] = copy[g]
    BY <1>1, <1>3 DEF TypeInv, Goto
  <2>5. ClaimOf(h)'
    BY <1>1, <1>3, <2>4 DEF IInv, ClaimOf
  <2>6. CopyOf(h)'
    BY <1>1, <1>3, <2>2, <2>4 DEF CopyOf, Task, Readable
  <2> QED  BY <1>1, <1>3, <2>3, <2>4, <2>5, <2>6, Quiet
<1> QED  BY <1>2, <1>3 DEF Read

-----------------------------------------------------------------------------
LEMMA SetFileKeeps ==
  ASSUME TypeInv, AcceptedInv, NEW t \in Tasks, NEW inode \in Inodes,
         SetFile(t, inode)
  PROVE  /\ AcceptedInv' /\ accepted \subseteq accepted'
         /\ file' \in [Tasks -> Inodes] /\ file'[t] = inode
         /\ \A u \in Tasks \ {t} : file'[u] = file[u]
  BY DEF TypeInv, AcceptedInv, SetFile

LEMMA CloseTyped ==
  ASSUME NEW inode \in Inodes, NEW h
  PROVE  /\ Close(inode, h) \in Inodes /\ Close(inode, h).data = inode.data
         /\ inode.open = {} => Close(inode, h).open = {}
<1>1. CASE inode = NoFile
  BY <1>1 DEF Close, NoFile
<1>2. CASE inode # NoFile
  BY <1>2 DEF Close, Inodes
<1> QED  BY <1>1, <1>2

\* A hook that leaves no longer has the temporary file of its task.
LEMMA LeavesActive ==
  ASSUME TypeInv, NEW h \in Hooks, NEW others, Leaves(h, others),
         NEW t \in Tasks, t = job[h].task
  PROVE  /\ \A u \in Tasks \ {t} : Active(u)' = Active(u)
         /\ Active(t)' = Active(t) \ {h}
         /\ \A g \in Hooks \ {h} : pc'[g] = pc[g] /\ copy'[g] = copy[g]
  BY DEF Leaves, Active

LEMMA UpdateTaskPreserves ==
  ASSUME IInv, NEW h \in Hooks, NEW actor \in Mates \cup {Lead}, NEW t \in Tasks,
         NEW status \in Statuses, NEW verdict \in Said,
         UpdateTask(h, actor, t, status, verdict)
  PROVE  IInv'
<1>1. /\ TypeInv /\ AcceptedInv /\ pc[h] = "idle" /\ Readable(t)
      /\ UNCHANGED <<tmp, keys, copy, shared, blind>>
      /\ overtaken' = overtaken \cup Writing(t)
  BY DEF IInv, UpdateTask
<1>2. [data |-> <<Updated(Task(t), status, verdict)>>, open |-> {}] \in Inodes
      /\ <<Updated(Task(t), status, verdict)>> # <<>>
  <2>1. file[t].data \in Blobs
    BY <1>1 DEF TypeInv, Inodes
  <2>2. Task(t) \in Content
    BY <1>1, <2>1, BlobRead DEF Task, Readable
  <2> QED  BY <2>2, UpdatedTyped, BlobOf DEF Inodes
<1>3. /\ AcceptedInv' /\ accepted \subseteq accepted' /\ file' \in [Tasks -> Inodes]
      /\ file'[t].data # <<>> /\ file'[t].open = {}
      /\ \A u \in Tasks \ {t} : file'[u] = file[u]
  <2> DEFINE inode == [data |-> <<Updated(Task(t), status, verdict)>>, open |-> {}]
  <2>1. SetFile(t, inode)
    BY DEF UpdateTask
  <2>2. inode \in Inodes /\ inode.data # <<>> /\ inode.open = {}
    BY <1>2
  <2> HIDE DEF inode
  <2> QED  BY <1>1, <2>1, <2>2, SetFileKeeps
<1>4. /\ pc'[h] \in {"audit", "completion"} /\ pc' \in [Hooks -> Steps]
      /\ job' \in [Hooks -> Jobs]
      /\ \A g \in Hooks \ {h} : pc'[g] = pc[g] /\ job'[g] = job[g]
  <2>1. [actor |-> actor, task |-> t, status |-> status, verdict |-> verdict] \in Jobs
    BY DEF Jobs
  <2> QED  BY <1>1, <2>1 DEF TypeInv, UpdateTask, Goto, Steps
<1>5. TypeInv'
  BY <1>1, <1>3, <1>4 DEF TypeInv
<1>6. ASSUME NEW g \in Hooks PROVE ClaimOf(g)' /\ CopyOf(g)'
  <2>1. CASE g = h
    <3>1. keys[h].status = ""
      BY <1>1 DEF IInv, ClaimOf
    <3> QED  BY <1>1, <1>4, <2>1, <3>1 DEF ClaimOf, CopyOf
  <2>2. CASE g # h
    <3>1. \/ pc[g] \notin {"open", "write", "replace"} \/ g \in overtaken'
          \/ file'[job[g].task].data = file[job[g].task].data
      BY <1>1, <1>3 DEF Writing, TypeInv, Jobs
    <3> QED  BY <1>1, <1>3, <1>4, <2>2, <3>1, OtherHook DEF IInv
  <2> QED  BY <2>1, <2>2
<1>7. ASSUME NEW u \in Tasks PROVE Whole(u)'
  <2>1. Active(u)' = Active(u) /\ \A g \in Active(u) : pc'[g] = pc[g] /\ copy'[g] = copy[g]
    BY <1>1, <1>4 DEF Active
  <2>2. u \notin shared => file'[u].data # <<>> /\ file'[u].open = {}
    BY <1>3 DEF IInv, Whole
  <2> QED  BY <1>1, <2>1, <2>2, OtherTask DEF IInv
<1> QED  BY <1>3, <1>5, <1>6, <1>7 DEF IInv

LEMMA OpenTmpPreserves == ASSUME IInv, NEW h \in Hooks, OpenTmp(h) PROVE IInv'
<1>0. PICK t \in Tasks : t = job[h].task
  BY DEF IInv, TypeInv, Jobs
<1>1. /\ TypeInv /\ pc[h] = "open" /\ shared \subseteq shared'
      /\ UNCHANGED <<file, job, keys, copy, overtaken, blind, accepted>>
      /\ pc'[h] = "write" /\ \A g \in Hooks \ {h} : pc'[g] = pc[g]
      /\ \A u \in Tasks \ {t} : tmp'[u] = tmp[u]
  BY <1>0 DEF IInv, TypeInv, OpenTmp, Goto
<1>2. tmp'[t] = [data |-> <<>>, open |-> IF tmp[t] = NoFile THEN {h} ELSE tmp[t].open \cup {h}]
  BY <1>0, <1>1 DEF OpenTmp, TypeInv
<1>3. TypeInv'
  <2>1. tmp'[t] \in Inodes
    BY <1>1, <1>2 DEF TypeInv, Inodes, Blobs
  <2>2. tmp' = [tmp EXCEPT ![t] = tmp'[t]]
    BY <1>0, <1>1, <1>2 DEF OpenTmp, TypeInv
  <2> QED  BY <1>1, <2>1, <2>2 DEF TypeInv, OpenTmp, Goto, Steps
<1>4. ASSUME NEW g \in Hooks PROVE ClaimOf(g)' /\ CopyOf(g)'
  <2>1. CASE g = h
    BY <1>1, <2>1 DEF IInv, ClaimOf, CopyOf, Task, Readable
  <2>2. CASE g # h
    BY <1>1, <2>2, OtherHook DEF IInv
  <2> QED  BY <2>1, <2>2
<1>5. ASSUME NEW u \in Tasks \ {t} PROVE Whole(u)'
  <2>1. Active(u)' = Active(u) /\ \A g \in Active(u) : pc'[g] = pc[g] /\ copy'[g] = copy[g]
    BY <1>0, <1>1 DEF Active
  <2>2. u \notin shared => file'[u].data # <<>> /\ file'[u].open = {}
    BY <1>1 DEF IInv, Whole
  <2> QED  BY <1>1, <2>1, <2>2, OtherTask DEF IInv
<1>6. ASSUME t \notin shared' PROVE Whole(t)'
  <2>1. Active(t) = {}
    BY <1>0, <1>1, <1>6 DEF OpenTmp, Active, Writing
  <2>2. Active(t)' = {h}
    BY <1>0, <1>1, <2>1 DEF Active
  <2>3. Whole(t) /\ t \notin shared
    BY <1>1, <1>6 DEF IInv
  <2>4. tmp'[t] = [data |-> <<>>, open |-> {h}]
    BY <1>2, <2>1, <2>3 DEF Whole
  <2> QED  BY <1>1, <2>2, <2>3, <2>4 DEF Whole, TmpOf
<1>7. ASSUME NEW u \in Tasks PROVE Whole(u)'
  BY <1>5, <1>6 DEF Whole
<1>8. AcceptedInv'
  BY <1>1 DEF IInv, AcceptedInv
<1> QED  BY <1>3, <1>4, <1>7, <1>8 DEF IInv

LEMMA PutTyped ==
  ASSUME NEW inode \in Inodes, NEW h, NEW b \in Blobs, NEW x \in Put(inode, h, b)
  PROVE  x \in Inodes /\ (inode.open = {} => x = inode)
<1>1. <<>> \in Blobs
  BY DEF Blobs
<1>2. CASE inode # NoFile /\ h \in inode.open
  BY <1>1, <1>2 DEF Put, Inodes
<1>3. CASE ~(inode # NoFile /\ h \in inode.open)
  BY <1>3 DEF Put
<1> QED  BY <1>2, <1>3

LEMMA WriteTmpPreserves == ASSUME IInv, NEW h \in Hooks, WriteTmp(h) PROVE IInv'
<1>1. PICK t \in Tasks : t = job[h].task
  BY DEF IInv, TypeInv, Jobs
<1>2. PICK x \in Put(tmp[t], h, copy[h]) : tmp' = [tmp EXCEPT ![t] = x]
  BY <1>1 DEF WriteTmp
<1>3. PICK y \in Put(file[t], h, copy[h]) : SetFile(t, y)
  BY <1>1 DEF WriteTmp
<1>4. /\ TypeInv /\ AcceptedInv /\ Whole(t) /\ pc[h] = "write" /\ copy[h] # <<>>
      /\ UNCHANGED <<job, keys, copy, blind, shared>>
      /\ pc'[h] = "replace" /\ pc' \in [Hooks -> Steps]
      /\ \A g \in Hooks \ {h} : pc'[g] = pc[g]
  BY DEF IInv, TypeInv, CopyOf, WriteTmp, Goto, Steps, taskHistory
<1>5. /\ x \in Inodes /\ y \in Inodes /\ (file[t].open = {} => y = file[t])
  BY <1>4, PutTyped DEF TypeInv
<1>6. /\ AcceptedInv' /\ accepted \subseteq accepted' /\ file' \in [Tasks -> Inodes]
      /\ file'[t] = y /\ \A u \in Tasks \ {t} : file'[u] = file[u]
  BY <1>3, <1>4, <1>5, SetFileKeeps
<1>7. /\ tmp' \in [Tasks -> Inodes] /\ tmp'[t] = x
      /\ \A u \in Tasks \ {t} : tmp'[u] = tmp[u]
  BY <1>2, <1>4, <1>5 DEF TypeInv
<1>8. TypeInv'
  BY <1>4, <1>6, <1>7 DEF TypeInv
<1>9. /\ overtaken \subseteq overtaken'
      /\ file' = file \/ Writing(t) \ {h} \subseteq overtaken'
  BY <1>1 DEF WriteTmp
<1>10. ASSUME NEW g \in Hooks PROVE ClaimOf(g)' /\ CopyOf(g)'
  <2>1. CASE g = h
    <3>1. t \notin shared => file'[t] = file[t]
      BY <1>4, <1>5, <1>6 DEF Whole
    <3>2. ClaimOf(h)'
      BY <1>4, <1>6 DEF IInv, ClaimOf
    <3>3. CopyOf(h)'
      BY <1>1, <1>4, <1>9, <3>1 DEF IInv, CopyOf, Task, Readable
    <3> QED  BY <2>1, <3>2, <3>3
  <2>2. CASE g # h
    <3>1. \/ pc[g] \notin {"open", "write", "replace"} \/ g \in overtaken'
          \/ file'[job[g].task].data = file[job[g].task].data
      BY <1>4, <1>6, <1>9, <2>2 DEF Writing, TypeInv, Jobs
    <3> QED  BY <1>4, <1>6, <1>9, <2>2, <3>1, OtherHook DEF IInv
  <2> QED  BY <2>1, <2>2
<1>11. ASSUME NEW u \in Tasks \ {t} PROVE Whole(u)'
  <2>1. Active(u)' = Active(u) /\ \A g \in Active(u) : pc'[g] = pc[g] /\ copy'[g] = copy[g]
    BY <1>1, <1>4 DEF Active
  <2>2. u \notin shared => file'[u].data # <<>> /\ file'[u].open = {}
    BY <1>6 DEF IInv, Whole
  <2> QED  BY <1>4, <1>7, <2>1, <2>2, OtherTask DEF IInv
<1>12. ASSUME t \notin shared PROVE Whole(t)'
  <2>1. h \in Active(t) /\ Active(t)' = Active(t)
    BY <1>1, <1>4 DEF Active
  <2>2. Active(t)' = {h} /\ TmpOf(t, h)
    BY <1>4, <1>12, <2>1 DEF Whole
  <2>3. file'[t] = file[t] /\ file[t].data # <<>> /\ file[t].open = {}
    BY <1>4, <1>5, <1>6, <1>12 DEF Whole
  <2>4. tmp'[t] = NoFile \/ tmp'[t] = [data |-> copy[h], open |-> {}]
    <3>1. CASE tmp[t] = NoFile
      BY <1>2, <1>7, <3>1 DEF Put
    <3>2. CASE tmp[t] # NoFile /\ tmp[t] = [data |-> <<>>, open |-> {h}]
      <4>1. /\ tmp[t].data = <<>> /\ h \in tmp[t].open
            /\ tmp[t].open \ {h} = {}
        BY <3>2
      <4>2. x \in [data : {copy[h]}, open : {tmp[t].open \ {h}}]
        BY <3>2, <4>1 DEF Put
      <4>3. x = [data |-> copy[h], open |-> {}]
        BY <4>1, <4>2
      <4> QED  BY <1>7, <4>3
    <3> QED  BY <1>4, <2>2, <3>1, <3>2 DEF TmpOf
  <2> QED  BY <1>4, <2>2, <2>3, <2>4 DEF Whole, TmpOf
<1>13. ASSUME NEW u \in Tasks PROVE Whole(u)'
  BY <1>4, <1>11, <1>12 DEF Whole
<1> QED  BY <1>6, <1>8, <1>10, <1>13 DEF IInv

-----------------------------------------------------------------------------
\* A hook leaves its task, with or without a last change of it.
LEMMA LeavingPreserves ==
  ASSUME IInv, NEW h \in Hooks, NEW others, Leaves(h, others),
         NEW t \in Tasks, t = job[h].task, NEW inode \in Inodes, SetFile(t, inode),
         Writing(t) \ {h} \subseteq others \/ inode.data = file[t].data,
         tmp' \in [Tasks -> Inodes], \A u \in Tasks \ {t} : tmp'[u] = tmp[u],
         shared' = shared,
         t \notin shared =>
           /\ inode.data # <<>> /\ inode.open = {}
           /\ \A g \in Active(t) \ {h} : TmpOf(t, g)'
           /\ Active(t) \ {h} = {} => tmp'[t] = NoFile \/ tmp'[t].open = {}
  PROVE  IInv'
<1>1. TypeInv /\ AcceptedInv
  BY DEF IInv
<1>2. /\ AcceptedInv' /\ accepted \subseteq accepted' /\ file' \in [Tasks -> Inodes]
      /\ file'[t] = inode /\ \A u \in Tasks \ {t} : file'[u] = file[u]
  BY <1>1, SetFileKeeps
<1>3. TypeInv'
  BY <1>2 DEF TypeInv, Leaves
<1>4. /\ \A u \in Tasks \ {t} : Active(u)' = Active(u)
      /\ Active(t)' = Active(t) \ {h}
      /\ \A g \in Hooks \ {h} : pc'[g] = pc[g] /\ copy'[g] = copy[g]
  BY <1>1, LeavesActive
<1>5. ASSUME NEW g \in Hooks PROVE ClaimOf(g)' /\ CopyOf(g)'
  <2>1. CASE g = h
    BY <1>2, <2>1, LeavesHook DEF IInv
  <2>2. CASE g # h
    <3>1. \/ pc[g] \notin {"open", "write", "replace"} \/ g \in others
          \/ file'[job[g].task].data = file[job[g].task].data
      BY <1>1, <1>2, <2>2 DEF Writing, TypeInv, Jobs
    <3>2. /\ pc'[g] = pc[g] /\ job'[g] = job[g] /\ keys'[g] = keys[g]
          /\ copy'[g] = copy[g] /\ (g \in overtaken \/ g \in others => g \in overtaken')
          /\ g \in blind => g \in blind'
      BY <2>2 DEF Leaves
    <3> QED  BY <1>2, <3>1, <3>2, OtherHook DEF IInv
  <2> QED  BY <2>1, <2>2
<1>6. ASSUME NEW u \in Tasks \ {t} PROVE Whole(u)'
  <2>1. \A g \in Active(u) : pc'[g] = pc[g] /\ copy'[g] = copy[g]
    BY <1>4 DEF Active
  <2>2. u \notin shared => file'[u].data # <<>> /\ file'[u].open = {}
    BY <1>2 DEF IInv, Whole
  <2> QED  BY <1>4, <2>1, <2>2, OtherTask DEF IInv
<1>7. Whole(t)'
  <2>1. Whole(t)
    BY DEF IInv
  <2> QED  BY <1>2, <1>4, <2>1 DEF Whole
<1> QED  BY <1>2, <1>3, <1>5, <1>6, <1>7 DEF IInv

LEMMA ReplacePreserves == ASSUME IInv, NEW h \in Hooks, Replace(h) PROVE IInv'
<1>1. PICK t \in Tasks : t = job[h].task
  BY DEF IInv, TypeInv, Jobs
<1>2. /\ TypeInv /\ AcceptedInv /\ Whole(t) /\ CopyOf(h) /\ pc[h] = "replace"
      /\ shared' = shared /\ h \in Active(t)
  BY <1>1 DEF IInv, Replace, Active, taskHistory
<1>3. t \notin shared => Active(t) \ {h} = {} /\ TmpOf(t, h)
  BY <1>2 DEF Whole
<1>4. CASE /\ tmp[t] # NoFile
           /\ SetFile(t, tmp[t]) /\ tmp' = [tmp EXCEPT ![t] = NoFile]
           /\ NextRule(h, Writing(t) \ {h})
  <2>1. Leaves(h, Writing(t) \ {h})
    BY <1>2, <1>4, NextRuleLeaves
  <2>2. /\ tmp[t] \in Inodes /\ tmp' \in [Tasks -> Inodes] /\ tmp'[t] = NoFile
        /\ \A u \in Tasks \ {t} : tmp'[u] = tmp[u]
    BY <1>2, <1>4, NoFileTyped DEF TypeInv
  <2>3. t \notin shared => tmp[t].data # <<>> /\ tmp[t].open = {}
    <3>1. t \notin shared => tmp[t] = [data |-> copy[h], open |-> {}]
      BY <1>2, <1>3, <1>4 DEF TmpOf
    <3>2. copy[h] # <<>>
      BY <1>2 DEF CopyOf
    <3> QED  BY <3>1, <3>2
  <2> QED  BY <1>1, <1>2, <1>3, <1>4, <2>1, <2>2, <2>3, LeavingPreserves
<1>5. CASE /\ tmp[t] = NoFile /\ Goto(h, "clean")
           /\ UNCHANGED <<file, tmp, job, keys, copy, overtaken, blind, accepted>>
  <2>1. Leaves(h, {})
    BY <1>2, <1>5, CleanLeaves
  <2>2. file[t] \in Inodes /\ SetFile(t, file[t])
    BY <1>2, <1>5 DEF SetFile, TypeInv, AcceptedInv
  <2>3. t \notin shared => file[t].data # <<>> /\ file[t].open = {}
    BY <1>2 DEF Whole
  <2>4. tmp' \in [Tasks -> Inodes] /\ \A u \in Tasks : tmp'[u] = tmp[u]
    BY <1>2, <1>5 DEF TypeInv
  <2> QED  BY <1>1, <1>2, <1>3, <1>5, <2>1, <2>2, <2>3, <2>4, LeavingPreserves
<1> QED  BY <1>1, <1>4, <1>5 DEF Replace

\* What a hook that fails or is killed had open is closed.
LEMMA FaultPreserves ==
  ASSUME IInv, NEW h \in Hooks, NEW t \in Tasks, t = job[h].task, Leaves(h, {}),
         SetFile(t, Close(file[t], h)), tmp' = [tmp EXCEPT ![t] = Close(@, h)],
         shared' = shared
  PROVE  IInv'
<1>1. TypeInv /\ Whole(t)
  BY DEF IInv
<1>2. /\ Close(file[t], h) \in Inodes /\ Close(file[t], h).data = file[t].data
      /\ file[t].open = {} => Close(file[t], h).open = {}
  BY <1>1, CloseTyped DEF TypeInv
<1>3. /\ tmp' \in [Tasks -> Inodes] /\ tmp'[t] = Close(tmp[t], h)
      /\ \A u \in Tasks \ {t} : tmp'[u] = tmp[u]
  BY <1>1, CloseTyped DEF TypeInv
<1>4. ASSUME t \notin shared
      PROVE  /\ \A g \in Active(t) \ {h} : TmpOf(t, g)'
             /\ Active(t) \ {h} = {} => tmp'[t] = NoFile \/ tmp'[t].open = {}
  <2>1. CASE tmp[t] = NoFile
    BY <1>3, <2>1 DEF Close, TmpOf
  <2>2. CASE tmp[t] # NoFile
    <3>1. tmp'[t] = [data |-> tmp[t].data, open |-> tmp[t].open \ {h}]
      <4>1. tmp[t] \in Inodes
        BY <1>1 DEF TypeInv
      <4> QED  BY <1>3, <2>2, <4>1 DEF Close, Inodes
    <3>2. ASSUME NEW g \in Active(t) \ {h} PROVE TmpOf(t, g)'
      <4>1. TmpOf(t, g) /\ g \in Hooks
        BY <1>1, <1>4 DEF Whole, Active
      <4>0. pc'[g] = pc[g] /\ copy'[g] = copy[g]
        BY <4>1 DEF Leaves
      <4>2. CASE pc[g] = "write"
        <5>1. tmp[t] = [data |-> <<>>, open |-> {g}]
          BY <2>2, <4>1, <4>2 DEF TmpOf
        <5>2. tmp[t].data = <<>> /\ tmp[t].open \ {h} = {g}
          BY <5>1
        <5> QED  BY <3>1, <4>0, <4>2, <5>2 DEF TmpOf
      <4>3. CASE pc[g] = "replace"
        BY <2>2, <3>1, <4>0, <4>1, <4>3 DEF TmpOf
      <4> QED  BY <4>0, <4>2, <4>3 DEF TmpOf
    <3>3. ASSUME Active(t) \ {h} = {} PROVE tmp'[t].open = {}
      <4>1. CASE h \in Active(t)
        <5>1. tmp[t].open \subseteq {h}
          <6>1. TmpOf(t, h) /\ pc[h] \in {"write", "replace"}
            BY <1>1, <1>4, <4>1 DEF Whole, Active
          <6> QED  BY <2>2, <6>1 DEF TmpOf
        <5> QED  BY <3>1, <5>1
      <4>2. CASE h \notin Active(t)
        BY <1>1, <1>4, <2>2, <3>1, <3>3, <4>2 DEF Whole
      <4> QED  BY <4>1, <4>2
    <3> QED  BY <3>2, <3>3
  <2> QED  BY <2>1, <2>2
<1>5. t \notin shared => Close(file[t], h).data # <<>> /\ Close(file[t], h).open = {}
  BY <1>1, <1>2 DEF Whole
<1> QED  BY <1>1, <1>2, <1>3, <1>4, <1>5, LeavingPreserves

LEMMA FailWritePreserves == ASSUME IInv, NEW h \in Hooks, FailWrite(h) PROVE IInv'
<1>1. PICK t \in Tasks : t = job[h].task
  BY DEF IInv, TypeInv, Jobs
<1>2. /\ TypeInv /\ Goto(h, "clean") /\ shared' = shared
      /\ UNCHANGED <<job, keys, copy, overtaken, blind>>
      /\ SetFile(t, Close(file[t], h)) /\ tmp' = [tmp EXCEPT ![t] = Close(@, h)]
  BY <1>1 DEF IInv, FailWrite, Fault
<1>3. Leaves(h, {})
  BY <1>2, CleanLeaves
<1> QED  BY <1>1, <1>2, <1>3, FaultPreserves

LEMMA KillPreserves == ASSUME IInv, NEW h \in Hooks, Kill(h) PROVE IInv'
<1>1. PICK t \in Tasks : t = job[h].task
  BY DEF IInv, TypeInv, Jobs
<1>2. /\ TypeInv /\ EndHook(h, {}) /\ shared' = shared
      /\ SetFile(t, Close(file[t], h)) /\ tmp' = [tmp EXCEPT ![t] = Close(@, h)]
  BY <1>1 DEF IInv, Kill, Fault
<1>3. Leaves(h, {})
  BY <1>2, EndHookLeaves
<1> QED  BY <1>1, <1>2, <1>3, FaultPreserves

\* The hook that removes the temporary file, be it another's, no longer writes.
LEMMA CleanTmpPreserves == ASSUME IInv, NEW h \in Hooks, CleanTmp(h) PROVE IInv'
<1>1. PICK t \in Tasks : t = job[h].task
  BY DEF IInv, TypeInv, Jobs
<1>2. /\ TypeInv /\ AcceptedInv /\ Whole(t) /\ NextRule(h, {}) /\ shared' = shared
      /\ UNCHANGED <<file, accepted>> /\ tmp' = [tmp EXCEPT ![t] = NoFile]
  BY <1>1 DEF IInv, CleanTmp, taskHistory
<1>3. Leaves(h, {})
  BY <1>2, NextRuleLeaves
<1>4. file[t] \in Inodes /\ SetFile(t, file[t])
  BY <1>2 DEF SetFile, TypeInv, AcceptedInv
<1>5. /\ tmp' \in [Tasks -> Inodes] /\ tmp'[t] = NoFile
      /\ \A u \in Tasks \ {t} : tmp'[u] = tmp[u]
  BY <1>2, NoFileTyped DEF TypeInv
<1>6. t \notin shared => /\ file[t].data # <<>> /\ file[t].open = {}
                         /\ \A g \in Active(t) \ {h} : TmpOf(t, g)'
  BY <1>2, <1>5 DEF Whole, TmpOf
<1> QED  BY <1>1, <1>2, <1>3, <1>4, <1>5, <1>6, LeavingPreserves

LEMMA NextPreserves == IInv /\ [Next]_vars => IInv'
<1>1. ASSUME IInv, UNCHANGED vars PROVE IInv'
  <2>1. UNCHANGED <<file, tmp, pc, job, keys, copy, overtaken, blind, accepted, shared>>
    BY <1>1 DEF vars, hookVars, history
  <2>2. TypeInv' /\ AcceptedInv'
    BY <1>1, <2>1 DEF IInv, TypeInv, AcceptedInv
  <2>3. ASSUME NEW h \in Hooks PROVE ClaimOf(h)' /\ CopyOf(h)'
    BY <1>1, <2>1, OtherHook DEF IInv
  <2>4. ASSUME NEW t \in Tasks PROVE Whole(t)'
    <3>1. Active(t)' = Active(t)
      BY <2>1 DEF Active
    <3> QED  BY <1>1, <2>1, <3>1, OtherTask DEF IInv, Whole
  <2> QED  BY <2>2, <2>3, <2>4 DEF IInv
<1>2. ASSUME IInv, Next PROVE IInv'
  <2>1. PICK h \in Hooks :
          \/ \E actor \in Mates \cup {Lead}, t \in Tasks, status \in Statuses,
                verdict \in Said : UpdateTask(h, actor, t, status, verdict)
          \/ \E m \in Mates : UseTool(h, m)
          \/ WorkOf(h) \/ FailWrite(h) \/ Kill(h)
    BY <1>2 DEF Next, Statuses, Said
  <2>2. CASE WorkOf(h)
    BY <1>2, <2>2, AuditPreserves, CompletionPreserves, ScanPreserves, ReadPreserves,
       OpenTmpPreserves, WriteTmpPreserves, ReplacePreserves, CleanTmpPreserves DEF WorkOf
  <2> QED
    BY <1>2, <2>1, <2>2, UpdateTaskPreserves, UseToolPreserves, FailWritePreserves,
       KillPreserves
<1> QED  BY <1>1, <1>2

LEMMA IInvHolds == Spec => []IInv
  BY InitEstablishes, NextPreserves, PTL DEF Spec

-----------------------------------------------------------------------------
\* A task file that cannot be parsed is the work of two hooks that had its
\* temporary file open at once, however many of them are killed or fail.
THEOREM NoTornByOne == Spec => []TornOnlyByTwo
<1>1. IInv => TornOnlyByTwo
  BY DEF IInv, Whole, TornOnlyByTwo, Readable
<1> QED  BY <1>1, IInvHolds, PTL

\* A claim that saw all its blockers goes through after they were completed,
\* whatever is written to the tasks between the scan and the rename.
THEOREM ClaimsAfterTeachback == Spec => StartsAfterTeachback
<1> DEFINE A == \A h \in Hooks :
                  (Publishes(h) /\ keys[h].status # "" /\ h \notin blind) =>
                     Blockers[job[h].task] \subseteq accepted
<1>1. IInv => A
  BY DEF IInv, ClaimOf
<1>2. IInv => [A]_vars
  BY <1>1
<1> QED  BY <1>2, IInvHolds, PTL DEF StartsAfterTeachback

\* The step in which a hook publishes is its own rename.
LEMMA PublishesReplaces ==
  ASSUME TypeInv, NEW h \in Hooks, Next, Publishes(h)
  PROVE  Replace(h) \/ FailWrite(h) \/ Kill(h)
<1>1. ASSUME NEW g \in Hooks, g # h, pc' \in {[pc EXCEPT ![g] = s] : s \in Steps}
      PROVE  FALSE
  BY <1>1 DEF TypeInv, Publishes
<1>2. ASSUME NEW g \in Hooks, NEW others, NextRule(g, others) \/ EndHook(g, others)
      PROVE  pc' \in {[pc EXCEPT ![g] = s] : s \in Steps}
  BY <1>2 DEF NextRule, EndHook, Goto, Steps
<1>3. PICK g \in Hooks :
        \/ \E actor \in Mates \cup {Lead}, t \in Tasks, status \in Statuses,
              verdict \in Said : UpdateTask(g, actor, t, status, verdict)
        \/ \E m \in Mates : UseTool(g, m)
        \/ WorkOf(g) \/ FailWrite(g) \/ Kill(g)
  BY DEF Next, Statuses, Said
<1>4. pc[h] = "replace"
  BY DEF Publishes
<1>5. CASE g = h
  BY <1>3, <1>4, <1>5 DEF UpdateTask, UseTool, WorkOf, Audit, Completion, Scan, Read,
     OpenTmp, WriteTmp, CleanTmp
<1>6. ASSUME NEW actor, NEW t, NEW status, NEW verdict,
             UpdateTask(g, actor, t, status, verdict)
      PROVE  pc' \in {[pc EXCEPT ![g] = s] : s \in Steps}
  BY <1>6 DEF UpdateTask, Goto, Steps
<1>7. ASSUME NEW m, UseTool(g, m)
      PROVE  pc' \in {[pc EXCEPT ![g] = s] : s \in Steps}
  BY <1>7 DEF UseTool, Goto, Steps
<1>8. ASSUME WorkOf(g)
      PROVE  pc' \in {[pc EXCEPT ![g] = s] : s \in Steps}
  <2>1. CASE Audit(g) \/ Completion(g) \/ OpenTmp(g) \/ WriteTmp(g)
    BY <1>2, <2>1 DEF Audit, Completion, OpenTmp, WriteTmp, WriteBack, Goto, Steps
  <2>2. CASE Scan(g) \/ Read(g) \/ Replace(g) \/ CleanTmp(g)
    BY <1>2, <2>2 DEF Scan, Read, Replace, CleanTmp, Goto, Steps
  <2> QED  BY <1>8, <2>1, <2>2 DEF WorkOf
<1>9. ASSUME FailWrite(g) \/ Kill(g)
      PROVE  pc' \in {[pc EXCEPT ![g] = s] : s \in Steps}
  BY <1>2, <1>9 DEF FailWrite, Kill, Goto, Steps
<1> QED  BY <1>1, <1>3, <1>5, <1>6, <1>7, <1>8, <1>9

\* What a hook renames over a task is the task as it is, with the keys of the
\* hook set, unless another hook has changed the file since or shared the
\* temporary file.
THEOREM SiblingsAlwaysKept == Spec => SiblingsKept
<1> DEFINE Kept(h) == /\ Readable(job[h].task)
                      /\ file'[job[h].task].data[1]
                           = SetKeys(Task(job[h].task), keys[h])
                      /\ keys[h].status # "" => Task(job[h].task).status = "pending"
<1>1. ASSUME IInv, Next, NEW h \in Hooks, Publishes(h), h \notin overtaken,
             job[h].task \notin shared
      PROVE  Kept(h)
  <2>1. PICK t \in Tasks : t = job[h].task
    BY <1>1 DEF IInv, TypeInv, Jobs
  <2>2. /\ TypeInv /\ Whole(t) /\ CopyOf(h) /\ pc[h] = "replace" /\ h \in Active(t)
    BY <1>1, <2>1 DEF IInv, Publishes, Active
  <2>3. /\ file[t] \in Inodes /\ file[t].data # <<>> /\ file[t].open = {}
        /\ TmpOf(t, h)
    BY <1>1, <2>1, <2>2 DEF TypeInv, Whole
  <2>4. file'[t] # file[t]
    BY <1>1, <2>1 DEF Publishes
  <2>5. CASE FailWrite(h) \/ Kill(h)
    <3>1. file' = [file EXCEPT ![t] = Close(file[t], h)]
      BY <2>1, <2>5 DEF FailWrite, Kill, SetFile
    <3>2. Close(file[t], h) = file[t]
      BY <2>3 DEF Close, Inodes
    <3> QED  BY <2>2, <2>4, <3>1, <3>2 DEF TypeInv
  <2>6. CASE Replace(h)
    <3>1. tmp[t] # NoFile /\ file' = [file EXCEPT ![t] = tmp[t]]
      BY <2>1, <2>4, <2>6 DEF Replace, SetFile
    <3>2. file'[t] = [data |-> copy[h], open |-> {}]
      BY <2>2, <2>3, <3>1 DEF TmpOf, TypeInv
    <3>3. /\ copy[h] = <<SetKeys(Task(t), keys[h])>>
          /\ keys[h].status # "" => Task(t).status = "pending"
      BY <1>1, <2>1, <2>2 DEF CopyOf
    <3>4. file'[t].data[1] = SetKeys(Task(t), keys[h])
      <4>1. file'[t].data = copy[h]
        BY <3>2
      <4>2. SetKeys(Task(t), keys[h]) \in Content
        BY <2>2, <2>3, BlobRead, SetKeysTyped DEF TypeInv, Task, Readable, Inodes
      <4> HIDE DEF Kept
      <4> QED  BY <3>3, <4>1, <4>2, BlobOf
    <3> QED  BY <2>1, <2>3, <3>3, <3>4 DEF Readable
  <2> QED  BY <1>1, <2>2, <2>5, <2>6, PublishesReplaces
<1>2. ASSUME NEW h \in Hooks, UNCHANGED vars, Publishes(h)
      PROVE  FALSE
  BY <1>2 DEF vars, hookVars, Publishes
<1> DEFINE A == \A h \in Hooks : (Publishes(h) /\ h \notin overtaken
                                  /\ job[h].task \notin shared) => Kept(h)
<1>3. IInv /\ [Next]_vars => [A]_vars
  BY <1>1
<1> QED  BY <1>3, IInvHolds, PTL DEF Spec, SiblingsKept

-----------------------------------------------------------------------------
(***************************************************************************)
(* What is on file when no hook is at work.  For a task that hooks wrote   *)
(* one at a time, and to the end, the invariant follows a verdict and a    *)
(* dispute from the TaskUpdate to the rename: what the file lacks, a hook  *)
(* has still to write.                                                     *)
(***************************************************************************)
Writes(h) == pc[h] \in {"open", "write", "replace"}
WritingBack(h) == pc[h] \in {"read", "open", "write", "replace", "clean"}

\* Which keys a hook sets, and for which call.
Sets(h) ==
  \/ /\ keys[h] = [NoKeys EXCEPT !.status = "in_progress"]
     /\ job[h].status = "" /\ job[h].verdict = NoVerdict
  \/ /\ keys[h] = [NoKeys EXCEPT !.authored = job[h].verdict]
     /\ job[h].verdict # NoVerdict /\ job[h].actor # Lead
  \/ /\ keys[h] = [NoKeys EXCEPT !.note = job[h].verdict]
     /\ job[h].verdict # NoVerdict /\ job[h].actor = Lead
  \/ /\ keys[h] = [NoKeys EXCEPT !.disputed = TRUE]
     /\ SelfCompleted(job[h])

KeysInv(h) ==
  /\ IF WritingBack(h) THEN Sets(h) ELSE keys[h] = NoKeys
  /\ pc[h] = "idle" => job[h] = NoJob
  /\ pc[h] = "scan" => job[h].status = "" /\ job[h].verdict = NoVerdict
  /\ pc[h] = "audit" => job[h].verdict # NoVerdict
  /\ job[h].verdict # NoVerdict => job[h].actor \in {Lead, Owner[job[h].task]}
  /\ SelfCompleted(job[h]) => job[h].task \in contested
  /\ h \in overtaken => Writes(h) \/ pc[h] = "clean"
  /\ pc[h] = "clean" => job[h].task \in mixed

\* The hook runs for a verdict on t that an auditor gave; and has still to write it.
Carries(h, t) ==
  job[h].task = t /\ job[h].actor # Lead /\ job[h].verdict # NoVerdict
Speaks(h, t) ==
  /\ Carries(h, t) /\ job[h].verdict = spoken[t]
  /\ pc[h] = "audit" \/ keys[h].authored = spoken[t]

\* The hook has still to dispute the completion of t.
Disputes(h, t) == job[h].task = t /\ SelfCompleted(job[h])

\* One hook at a time writes t, and its temporary file stays until it is renamed.
AloneInv(t) ==
  /\ t \notin shared
  /\ \A g, h \in Writing(t) : g = h
  /\ \A h \in Writing(t) :
       /\ h \notin overtaken
       /\ pc[h] \in {"write", "replace"} => tmp[t] # NoFile

SpokenInv(t) ==
  /\ \A h \in Hooks : Carries(h, t) => job[h].verdict = spoken[t]
  /\ Task(t).authored = spoken[t] \/ \E h \in Hooks : Speaks(h, t)

DisputeInv(t) ==
  /\ Task(t).disputed => t \in contested
  /\ t \in contested => Task(t).disputed \/ \E h \in Hooks : Disputes(h, t)

RecInv(t) == t \notin mixed => AloneInv(t) /\ SpokenInv(t) /\ DisputeInv(t)

RecordInv ==
  /\ tmux \in BOOLEAN /\ spoken \in [Tasks -> Said]
  /\ \A h \in Hooks : KeysInv(h)
  /\ \A t \in Tasks : RecInv(t)

LEMMA InitRecords == Init => RecordInv
<1> SUFFICES ASSUME Init
             PROVE  RecordInv
  OBVIOUS
<1>1. tmux \in BOOLEAN /\ spoken \in [Tasks -> Said]
  BY DEF Init, Said
<1>2. ASSUME NEW h \in Hooks PROVE KeysInv(h)
  BY DEF Init, KeysInv, WritingBack, SelfCompleted, NoJob
<1>3. ASSUME NEW t \in Tasks PROVE RecInv(t)
  <2>1. Task(t) = NewTask
    BY NewTaskTyped, BlobOf DEF Init, Task, Readable
  <2>2. Writing(t) = {} /\ \A h \in Hooks : ~Carries(h, t)
    BY DEF Init, Writing, Carries, NoJob
  <2>3. AloneInv(t)
    BY <2>2 DEF Init, AloneInv
  <2>4. SpokenInv(t)
    BY <2>1, <2>2 DEF Init, SpokenInv, NewTask
  <2>5. DisputeInv(t)
    BY <2>1 DEF Init, DisputeInv, NewTask
  <2> QED  BY <2>3, <2>4, <2>5 DEF RecInv
<1> QED  BY <1>1, <1>2, <1>3 DEF RecordInv

-----------------------------------------------------------------------------
\* A step of h that concerns the task t leaves the other hooks where they are.
Frame(h, t) ==
  /\ tmux' = tmux /\ contested \subseteq contested' /\ mixed \subseteq mixed'
  /\ \A g \in Hooks \ {h} :
       /\ pc'[g] = pc[g] /\ job'[g] = job[g] /\ keys'[g] = keys[g]
       /\ g \in overtaken' => g \in overtaken \/ g \in Writing(t)

LEMMA KeysKept ==
  ASSUME NEW h \in Hooks, NEW t, Frame(h, t), \A g \in Hooks : KeysInv(g),
         KeysInv(h)'
  PROVE  \A g \in Hooks : KeysInv(g)'
<1> SUFFICES ASSUME NEW g \in Hooks, g # h
             PROVE  KeysInv(g)'
  OBVIOUS
<1>1. KeysInv(g) /\ pc'[g] = pc[g] /\ job'[g] = job[g] /\ keys'[g] = keys[g]
      /\ (g \in overtaken' => Writes(g) \/ pc[g] = "clean") /\ tmux' = tmux
      /\ contested \subseteq contested' /\ mixed \subseteq mixed'
  BY DEF Frame, KeysInv, Writing, Writes
<1> QED
  BY <1>1 DEF KeysInv, WritingBack, Writes, Sets, SelfCompleted

\* What a step has to keep of a task whose verdict and dispute it leaves alone.
LEMMA KeepRec ==
  ASSUME NEW h \in Hooks, NEW t, Frame(h, t), NEW u \in Tasks, RecInv(u),
         spoken'[u] = spoken[u], u \in contested' => u \in contested,
         u \notin mixed' =>
           /\ file'[u].data = file[u].data
           /\ tmp[u] # NoFile => tmp'[u] # NoFile
           /\ u \notin shared => u \notin shared'
           /\ \A g \in Writing(u) \ {h} : g \notin overtaken'
           /\ h \in Writing(u)' =>
                /\ h \notin overtaken' /\ Writing(u) \subseteq {h}
                /\ pc'[h] \in {"write", "replace"} => tmp'[u] # NoFile
           /\ Carries(h, u)' => job'[h].verdict = spoken[u]
           /\ Speaks(h, u) => Speaks(h, u)' \/ Task(u).authored = spoken[u]
           /\ Disputes(h, u) => Disputes(h, u)' \/ Task(u).disputed
  PROVE  RecInv(u)'
<1> SUFFICES ASSUME u \notin mixed'
             PROVE  AloneInv(u)' /\ SpokenInv(u)' /\ DisputeInv(u)'
  BY DEF RecInv
<1>1. AloneInv(u) /\ SpokenInv(u) /\ DisputeInv(u)
  BY DEF RecInv, Frame
<1>2. \A g \in Hooks \ {h} : /\ pc'[g] = pc[g] /\ job'[g] = job[g] /\ keys'[g] = keys[g]
                             /\ g \in Writing(u)' <=> g \in Writing(u)
  BY DEF Frame, Writing
<1>3. Task(u)' = Task(u)
  BY DEF Task, Readable
<1>4. AloneInv(u)'
  <2>1. ASSUME NEW f \in Writing(u)', NEW g \in Writing(u)' PROVE f = g
    <3>1. f \in Hooks /\ g \in Hooks
      BY DEF Writing
    <3> QED  BY <1>1, <1>2, <3>1 DEF AloneInv
  <2>2. ASSUME NEW g \in Writing(u)'
        PROVE  g \notin overtaken' /\ (pc'[g] \in {"write", "replace"} => tmp'[u] # NoFile)
    <3>1. g \in Hooks
      BY DEF Writing
    <3> QED  BY <1>1, <1>2, <3>1 DEF AloneInv
  <2> QED  BY <1>1, <2>1, <2>2 DEF AloneInv
<1>5. SpokenInv(u)'
  <2>1. ASSUME NEW g \in Hooks, Carries(g, u)' PROVE job'[g].verdict = spoken'[u]
    BY <1>1, <1>2, <2>1 DEF SpokenInv, Carries
  <2>2. ASSUME NEW g \in Hooks, Speaks(g, u), g # h PROVE Speaks(g, u)'
    BY <1>2, <2>2 DEF Speaks, Carries
  <2> QED  BY <1>1, <1>3, <2>1, <2>2 DEF SpokenInv
<1>6. DisputeInv(u)'
  <2>1. ASSUME NEW g \in Hooks, Disputes(g, u), g # h PROVE Disputes(g, u)'
    BY <1>2, <2>1 DEF Disputes, SelfCompleted, Frame
  <2> QED  BY <1>1, <1>3, <2>1 DEF DisputeInv, Frame
<1> QED  BY <1>4, <1>5, <1>6

\* A hook that has no verdict, no dispute and no write for u in hand.
Inert(h, u) ==
  job[h].task = u => ~Writes(h) /\ job[h].verdict = NoVerdict /\ ~SelfCompleted(job[h])

LEMMA OtherRec ==
  ASSUME NEW h \in Hooks, NEW t, Frame(h, t), NEW u \in Tasks, RecInv(u),
         u # t \/ overtaken' \subseteq overtaken,
         file'[u].data = file[u].data, spoken'[u] = spoken[u], tmp'[u] = tmp[u],
         u \in contested' => u \in contested, u \in shared' => u \in shared,
         Inert(h, u), Inert(h, u)'
  PROVE  RecInv(u)'
<1>1. ASSUME u \notin mixed'
      PROVE  /\ \A g \in Writing(u) \ {h} : g \notin overtaken'
             /\ h \notin Writing(u)' /\ ~Carries(h, u)' /\ ~Speaks(h, u)
             /\ ~Disputes(h, u)
  <2>1. AloneInv(u)
    BY <1>1 DEF RecInv, Frame
  <2>2. \A g \in Writing(u) \ {h} : g \notin overtaken'
    BY <2>1 DEF AloneInv, Frame, Writing
  <2> QED  BY <2>2 DEF Inert, Writing, Writes, Carries, Speaks, Disputes
<1> QED  BY <1>1, KeepRec

-----------------------------------------------------------------------------
LEMMA Blank ==
  /\ NoJob.status = "" /\ NoJob.verdict = NoVerdict /\ ~SelfCompleted(NoJob)
  /\ NoKeys.status = "" /\ NoKeys.authored = NoVerdict /\ NoKeys.note = NoVerdict
  /\ NoKeys.disputed = FALSE
  BY DEF NoJob, NoKeys, SelfCompleted

\* An ended hook has nothing in hand.
LEMMA EndHookKeys ==
  ASSUME TypeInv, NEW h \in Hooks, NEW others, h \notin others, EndHook(h, others)
  PROVE  /\ KeysInv(h)' /\ \A u \in Tasks : Inert(h, u)'
         /\ pc'[h] = "idle" /\ job'[h] = NoJob /\ keys'[h] = NoKeys
         /\ \A g \in Hooks \ {h} :
              /\ pc'[g] = pc[g] /\ job'[g] = job[g] /\ keys'[g] = keys[g]
              /\ g \in overtaken' => g \in overtaken \/ g \in others
<1>1. /\ pc'[h] = "idle" /\ job'[h] = NoJob /\ keys'[h] = NoKeys /\ h \notin overtaken'
      /\ \A g \in Hooks \ {h} :
           /\ pc'[g] = pc[g] /\ job'[g] = job[g] /\ keys'[g] = keys[g]
           /\ g \in overtaken' => g \in overtaken \/ g \in others
  BY DEF EndHook, Goto, TypeInv
<1>2. job'[h].verdict = NoVerdict /\ ~SelfCompleted(job[h])'
  BY <1>1, Blank DEF SelfCompleted
<1>3. KeysInv(h)'
  BY <1>1, <1>2 DEF KeysInv, WritingBack
<1>4. \A u \in Tasks : Inert(h, u)'
  BY <1>1, <1>2 DEF Inert, Writes
<1> QED  BY <1>1, <1>3, <1>4

\* After a write-back: only the verdict's leads to another rule.
LEMMA NextRuleKeys ==
  ASSUME TypeInv, NEW h \in Hooks, NEW others, h \notin others, NextRule(h, others),
         KeysInv(h), WritingBack(h), tmux' = tmux, contested \subseteq contested'
  PROVE  /\ KeysInv(h)' /\ ~Writes(h)' /\ \A u \in Tasks : ~Speaks(h, u)'
         /\ \A u \in Tasks \ {job[h].task} : Inert(h, u)'
         /\ \A u \in Tasks : Carries(h, u)' => job'[h] = job[h]
         /\ keys[h].disputed \/ job'[h] = job[h] \/ ~SelfCompleted(job[h])
         /\ \A g \in Hooks \ {h} :
              /\ pc'[g] = pc[g] /\ job'[g] = job[g] /\ keys'[g] = keys[g]
              /\ g \in overtaken' => g \in overtaken \/ g \in others
<1>1. CASE keys[h].authored # NoVerdict \/ keys[h].note # NoVerdict
  <2>1. /\ pc'[h] = "completion" /\ job' = job /\ keys'[h] = NoKeys /\ h \notin overtaken'
        /\ \A g \in Hooks \ {h} :
             /\ pc'[g] = pc[g] /\ job'[g] = job[g] /\ keys'[g] = keys[g]
             /\ g \in overtaken' => g \in overtaken \/ g \in others
    BY <1>1 DEF NextRule, Goto, TypeInv
  <2>2. KeysInv(h)'
    BY <2>1 DEF KeysInv, WritingBack, SelfCompleted
  <2>3. \A u \in Tasks : ~Speaks(h, u)'
    BY <2>1, Blank DEF Speaks, Carries
  <2> QED  BY <2>1, <2>2, <2>3 DEF Writes, Inert, Carries
<1>2. CASE ~(keys[h].authored # NoVerdict \/ keys[h].note # NoVerdict)
  <2>1. EndHook(h, others)
    BY <1>2 DEF NextRule
  <2>2. keys[h].disputed \/ ~SelfCompleted(job[h])
    BY <1>2 DEF KeysInv, Sets, NoKeys, SelfCompleted
  <2> QED
    BY <2>1, <2>2, EndHookKeys, Blank DEF Writes, Speaks, Carries
<1> QED  BY <1>1, <1>2

LEMMA AuditRecords ==
  ASSUME IInv, RecordInv, NEW h \in Hooks, Audit(h) PROVE RecordInv'
<1> DEFINE t == job[h].task
           v == job[h].verdict
<1>1. /\ TypeInv /\ KeysInv(h) /\ pc[h] = "audit"
      /\ UNCHANGED <<tmux, file, tmp, overtaken, accepted, spoken, contested, shared,
                     mixed, job>>
  BY DEF IInv, RecordInv, Audit, WriteBack, taskHistory
<1>2. v # NoVerdict /\ keys[h] = NoKeys /\ h \notin overtaken
  BY <1>1 DEF KeysInv, WritingBack, Writes
<1>3. \/ /\ pc'[h] = "completion" /\ keys'[h] = NoKeys
         /\ Task(t).authored = v \/ job[h].actor = Lead
      \/ /\ pc'[h] = "read" /\ Sets(h)'
         /\ job[h].actor = Lead \/ keys'[h].authored = v
  <2>1. CASE pc'[h] = "completion" /\ keys' = keys /\ (Task(t).authored = v \/ job[h].actor = Lead)
    BY <1>2, <2>1
  <2>2. CASE job[h].actor = Lead /\ WriteBack(h, [NoKeys EXCEPT !.note = v])
    BY <1>1, <1>2, <2>2 DEF WriteBack, Goto, TypeInv, Sets
  <2>3. CASE job[h].actor # Lead /\ WriteBack(h, [NoKeys EXCEPT !.authored = v])
    BY <1>1, <1>2, <2>3 DEF WriteBack, Goto, TypeInv, Sets, NoKeys
  <2> QED  BY <1>1, <2>1, <2>2, <2>3 DEF Audit, Goto, TypeInv
<1>4. Frame(h, t)
  BY <1>1 DEF Frame, Audit, WriteBack, Goto, TypeInv
<1>5. KeysInv(h)'
  BY <1>1, <1>2, <1>3 DEF KeysInv, WritingBack, SelfCompleted
<1>6. ASSUME NEW u \in Tasks PROVE RecInv(u)'
  <2>1. RecInv(u) /\ spoken[u] = spoken'[u]
    BY <1>1 DEF RecordInv
  <2>2. h \notin Writing(u)'
    BY <1>3 DEF Writing
  <2>3. Disputes(h, u) => Disputes(h, u)'
    BY <1>1 DEF Disputes, SelfCompleted
  <2>4. Speaks(h, u) => Speaks(h, u)' \/ Task(u).authored = spoken[u]
    BY <1>1, <1>3 DEF Speaks, Carries
  <2>5. u \notin mixed' => /\ \A g \in Writing(u) \ {h} : g \notin overtaken'
                           /\ Carries(h, u)' => job'[h].verdict = spoken[u]
    BY <1>1, <2>1 DEF RecInv, AloneInv, SpokenInv, Carries
  <2> QED  BY <1>1, <1>4, <2>1, <2>2, <2>3, <2>4, <2>5, KeepRec
<1> QED  BY <1>1, <1>4, <1>5, <1>6, KeysKept DEF RecordInv

LEMMA CompletionRecords ==
  ASSUME IInv, RecordInv, NEW h \in Hooks, Completion(h) PROVE RecordInv'
<1> DEFINE t == job[h].task
<1>1. /\ TypeInv /\ KeysInv(h) /\ pc[h] = "completion"
      /\ UNCHANGED <<tmux, file, tmp, accepted, spoken, contested, shared, mixed>>
  BY DEF IInv, RecordInv, Completion, taskHistory
<1>2. keys[h] = NoKeys /\ h \notin overtaken
  BY <1>1 DEF KeysInv, WritingBack, Writes
<1>3. CASE SelfCompleted(job[h])
  <2>1. /\ WriteBack(h, [NoKeys EXCEPT !.disputed = TRUE])
        /\ pc'[h] = "read" /\ keys'[h] = [NoKeys EXCEPT !.disputed = TRUE]
        /\ UNCHANGED <<job, overtaken>>
    BY <1>1, <1>3 DEF Completion, WriteBack, Goto, TypeInv
  <2>2. Frame(h, t)
    BY <1>1, <2>1 DEF Frame, WriteBack, Goto, TypeInv
  <2>3. KeysInv(h)'
    BY <1>1, <1>2, <1>3, <2>1 DEF KeysInv, WritingBack, Sets, SelfCompleted
  <2>4. ASSUME NEW u \in Tasks PROVE RecInv(u)'
    <3>1. RecInv(u) /\ spoken[u] = spoken'[u]
      BY <1>1 DEF RecordInv
    <3>2. h \notin Writing(u)' /\ ~Speaks(h, u)
      BY <1>1, <1>2, <2>1 DEF Writing, Speaks, Carries, NoKeys
    <3>3. Disputes(h, u) => Disputes(h, u)'
      BY <1>1, <2>1 DEF Disputes, SelfCompleted
    <3>4. u \notin mixed' => /\ \A g \in Writing(u) \ {h} : g \notin overtaken'
                             /\ Carries(h, u)' => job'[h].verdict = spoken[u]
      BY <1>1, <2>1, <3>1 DEF RecInv, AloneInv, SpokenInv, Carries
    <3> QED  BY <1>1, <2>2, <3>1, <3>2, <3>3, <3>4, KeepRec
  <2> QED  BY <1>1, <2>2, <2>3, <2>4, KeysKept DEF RecordInv
<1>4. CASE ~SelfCompleted(job[h])
  <2>1. EndHook(h, {}) /\ h \notin {}
    BY <1>4 DEF Completion
  <2>2. /\ KeysInv(h)' /\ \A u \in Tasks : Inert(h, u)'
        /\ \A g \in Hooks \ {h} :
              /\ pc'[g] = pc[g] /\ job'[g] = job[g] /\ keys'[g] = keys[g]
              /\ g \in overtaken' => g \in overtaken
    BY <1>1, <2>1, EndHookKeys
  <2>3. Frame(h, t)
    BY <1>1, <2>2 DEF Frame
  <2>4. ASSUME NEW u \in Tasks PROVE RecInv(u)'
    <3>1. RecInv(u) /\ spoken[u] = spoken'[u]
      BY <1>1 DEF RecordInv
    <3>2. h \notin Writing(u)' /\ ~Speaks(h, u) /\ ~Carries(h, u)' /\ ~Disputes(h, u)
      BY <1>1, <1>2, <1>4, <2>2, Blank DEF Writing, Speaks, Carries, Inert, Writes, Disputes
    <3>3. u \notin mixed' => \A g \in Writing(u) \ {h} : g \notin overtaken'
      BY <1>1, <2>2, <3>1 DEF RecInv, AloneInv, Writing
    <3> QED  BY <1>1, <2>3, <3>1, <3>2, <3>3, KeepRec
  <2> QED  BY <1>1, <2>2, <2>3, <2>4, KeysKept DEF RecordInv
<1> QED  BY <1>3, <1>4

LEMMA UseToolRecords ==
  ASSUME IInv, RecordInv, NEW h \in Hooks, NEW m \in Mates, UseTool(h, m)
  PROVE  RecordInv'
<1> DEFINE t == job[h].task
<1>1. /\ TypeInv /\ KeysInv(h) /\ pc[h] = "idle" /\ tmux
      /\ UNCHANGED <<tmux, file, tmp, keys, overtaken, spoken, contested, shared, mixed>>
  BY DEF IInv, RecordInv, UseTool, history
<1>2. job[h] = NoJob /\ keys[h] = NoKeys /\ h \notin overtaken
  BY <1>1 DEF KeysInv, WritingBack, Writes
<1>3. /\ pc'[h] = "scan" /\ job'[h].status = "" /\ job'[h].verdict = NoVerdict
      /\ \A g \in Hooks \ {h} : pc'[g] = pc[g] /\ job'[g] = job[g]
  <2>1. job'[h] = [job[h] EXCEPT !.actor = m]
    BY <1>1 DEF UseTool, TypeInv
  <2>2. job'[h].status = job[h].status /\ job'[h].verdict = job[h].verdict
    BY <1>1, <2>1 DEF TypeInv, Jobs
  <2> QED  BY <1>1, <1>2, <2>2, Blank DEF UseTool, TypeInv, Goto
<1>4. ~SelfCompleted(job[h])' /\ ~SelfCompleted(job[h])
  BY <1>1 DEF SelfCompleted
<1>5. Frame(h, t)
  BY <1>1, <1>3 DEF Frame
<1>6. KeysInv(h)'
  BY <1>1, <1>2, <1>3, <1>4 DEF KeysInv, WritingBack
<1>7. ASSUME NEW u \in Tasks PROVE RecInv(u)'
  <2>1. Inert(h, u) /\ Inert(h, u)'
    BY <1>1, <1>2, <1>3, <1>4, Blank DEF Inert, Writes
  <2> QED  BY <1>1, <1>5, <2>1, OtherRec DEF RecordInv
<1> QED  BY <1>1, <1>5, <1>6, <1>7, KeysKept DEF RecordInv

LEMMA ScanRecords ==
  ASSUME IInv, RecordInv, NEW h \in Hooks, Scan(h) PROVE RecordInv'
<1> DEFINE t == job[h].task
<1>1. /\ TypeInv /\ KeysInv(h) /\ pc[h] = "scan"
      /\ UNCHANGED <<tmux, file, tmp, spoken, contested, shared, mixed>>
  BY DEF IInv, RecordInv, Scan, taskHistory
<1>2. /\ job[h].status = "" /\ job[h].verdict = NoVerdict /\ keys[h] = NoKeys
      /\ h \notin overtaken
  BY <1>1 DEF KeysInv, WritingBack, Writes
<1>3. \A u \in Tasks : Inert(h, u)
  BY <1>1, <1>2 DEF Inert, Writes, SelfCompleted
<1>4. /\ KeysInv(h)' /\ \A u \in Tasks : Inert(h, u)'
      /\ overtaken' \subseteq overtaken
      /\ \A g \in Hooks \ {h} : pc'[g] = pc[g] /\ job'[g] = job[g] /\ keys'[g] = keys[g]
  <2>1. CASE EndHook(h, {})
    <3>1. h \notin {} /\ overtaken' \subseteq overtaken
      BY <2>1 DEF EndHook
    <3> QED  BY <1>1, <2>1, <3>1, EndHookKeys
  <2>2. ASSUME NEW v \in Tasks, job' = [job EXCEPT ![h].task = v],
               keys' = [keys EXCEPT ![h].status = "in_progress"],
               Goto(h, "read"), UNCHANGED overtaken
        PROVE  /\ KeysInv(h)' /\ \A u \in Tasks : Inert(h, u)'
               /\ overtaken' \subseteq overtaken
               /\ \A g \in Hooks \ {h} : pc'[g] = pc[g] /\ job'[g] = job[g]
                                         /\ keys'[g] = keys[g]
    <3>1. /\ pc'[h] = "read" /\ job'[h].status = "" /\ job'[h].verdict = NoVerdict
          /\ keys'[h] = [NoKeys EXCEPT !.status = "in_progress"]
          /\ \A g \in Hooks \ {h} : pc'[g] = pc[g] /\ job'[g] = job[g] /\ keys'[g] = keys[g]
      BY <1>1, <1>2, <2>2 DEF TypeInv, Goto, Jobs
    <3>2. ~SelfCompleted(job[h])'
      BY <3>1 DEF SelfCompleted
    <3>3. KeysInv(h)'
      BY <1>2, <2>2, <3>1, <3>2 DEF KeysInv, WritingBack, Sets
    <3> QED  BY <2>2, <3>1, <3>2, <3>3 DEF Inert, Writes
  <2> QED  BY <2>1, <2>2 DEF Scan, Mine
<1>5. Frame(h, t)
  BY <1>1, <1>4 DEF Frame
<1>6. \A u \in Tasks : RecInv(u)'
  BY <1>1, <1>3, <1>4, <1>5, OtherRec DEF RecordInv
<1> QED  BY <1>1, <1>4, <1>5, <1>6, KeysKept DEF RecordInv

\* For t the hook h has nothing to do but what its task asks.
LEMMA OwnTaskOnly ==
  ASSUME NEW h \in Hooks, NEW u, u # job[h].task
  PROVE  Inert(h, u) /\ h \notin Writing(u)
  BY DEF Inert, Writing

LEMMA ReadRecords ==
  ASSUME IInv, RecordInv, NEW h \in Hooks, Read(h) PROVE RecordInv'
<1>1. PICK t \in Tasks : t = job[h].task
  BY DEF IInv, TypeInv, Jobs
<1>2. /\ TypeInv /\ KeysInv(h) /\ pc[h] = "read" /\ WritingBack(h) /\ RecInv(t)
      /\ UNCHANGED <<tmux, file, tmp, spoken, contested, shared>>
  BY DEF IInv, RecordInv, Read, WritingBack
<1>3. h \notin overtaken /\ h \notin Writing(t)
  BY <1>2 DEF KeysInv, Writes, Writing
<1>4. CASE /\ Readable(t)
           /\ Goto(h, "open") /\ UNCHANGED <<job, keys, overtaken, blind>>
           /\ mixed' = IF Writing(t) # {} THEN mixed \cup {t} ELSE mixed
  <2>1. /\ pc'[h] = "open" /\ mixed \subseteq mixed'
        /\ \A g \in Hooks \ {h} : pc'[g] = pc[g]
    BY <1>2, <1>4 DEF TypeInv, Goto
  <2>2. Frame(h, t)
    BY <1>2, <1>4, <2>1 DEF Frame
  <2>3. KeysInv(h)'
    BY <1>2, <1>3, <1>4, <2>1 DEF KeysInv, WritingBack, Sets, SelfCompleted
  <2>4. ASSUME NEW u \in Tasks \ {t} PROVE RecInv(u)'
    <3>1. Inert(h, u) /\ Inert(h, u)'
      BY <1>1, <1>4, <2>4 DEF Inert
    <3> QED  BY <1>2, <1>4, <2>2, <2>4, <3>1, OtherRec DEF RecordInv
  <2>5. RecInv(t)'
    <3>1. t \notin mixed' => Writing(t) = {} /\ t \notin mixed
      BY <1>4
    <3>2. Speaks(h, t) => Speaks(h, t)'
      BY <1>2, <1>4 DEF Speaks, Carries
    <3>3. Disputes(h, t) => Disputes(h, t)'
      BY <1>2, <1>4 DEF Disputes, SelfCompleted
    <3>4. t \notin mixed' => (Carries(h, t)' => job'[h].verdict = spoken[t])
      BY <1>2, <1>4, <3>1 DEF RecInv, SpokenInv, Carries
    <3> QED  BY <1>2, <1>3, <1>4, <2>1, <2>2, <3>1, <3>2, <3>3, <3>4, KeepRec
  <2> QED  BY <1>2, <2>2, <2>3, <2>4, <2>5, KeysKept DEF RecordInv
<1>5. CASE /\ ~Readable(t) \/ keys[h].status # ""
           /\ NextRule(h, {}) /\ mixed' = IF Readable(t) THEN mixed ELSE mixed \cup {t}
  <2>1. h \notin {} /\ mixed \subseteq mixed'
    BY <1>5
  <2>2. /\ KeysInv(h)' /\ ~Writes(h)' /\ \A u \in Tasks : ~Speaks(h, u)'
        /\ \A u \in Tasks \ {t} : Inert(h, u)'
        /\ \A u \in Tasks : Carries(h, u)' => job'[h] = job[h]
        /\ keys[h].disputed \/ job'[h] = job[h] \/ ~SelfCompleted(job[h])
        /\ \A g \in Hooks \ {h} :
              /\ pc'[g] = pc[g] /\ job'[g] = job[g] /\ keys'[g] = keys[g]
              /\ g \in overtaken' => g \in overtaken
    <3>1. tmux' = tmux /\ contested \subseteq contested' /\ NextRule(h, {})
      BY <1>2, <1>5
    <3>2. TypeInv /\ KeysInv(h) /\ WritingBack(h)
      BY <1>2
    <3> QED  BY <1>1, <2>1, <3>1, <3>2, NextRuleKeys
  <2>3. Frame(h, t)
    BY <1>2, <2>1, <2>2 DEF Frame
  <2>4. ASSUME NEW u \in Tasks \ {t} PROVE RecInv(u)'
    BY <1>1, <1>2, <2>2, <2>3, <2>4, OwnTaskOnly, OtherRec DEF RecordInv
  <2>5. CASE ~Readable(t)
    <3>1. RecInv(t)'
      BY <1>5, <2>5 DEF RecInv
    <3> QED  BY <1>2, <2>2, <2>3, <2>4, <3>1, KeysKept DEF RecordInv
  <2>6. CASE Readable(t) /\ keys[h].status # ""
    <3>1. job[h].verdict = NoVerdict /\ ~SelfCompleted(job[h])
      BY <1>2, <2>6, Blank DEF KeysInv, Sets, NoKeys, SelfCompleted
    <3>2. ~Carries(h, t) /\ ~Carries(h, t)' /\ ~Speaks(h, t) /\ ~Disputes(h, t)
      BY <2>2, <3>1 DEF Carries, Speaks, Disputes
    <3>3. h \notin Writing(t)' /\ \A g \in Writing(t) \ {h} : t \notin mixed' => g \notin overtaken'
      BY <1>2, <1>5, <2>2, <2>6 DEF Writing, Writes, RecInv, AloneInv
    <3>4. RecInv(t)'
      BY <1>2, <2>3, <3>2, <3>3, KeepRec
    <3> QED  BY <1>2, <2>2, <2>3, <2>4, <3>4, KeysKept DEF RecordInv
  <2> QED  BY <1>5, <2>5, <2>6
<1> QED  BY <1>1, <1>4, <1>5 DEF Read

LEMMA OpenTmpRecords ==
  ASSUME IInv, RecordInv, NEW h \in Hooks, OpenTmp(h) PROVE RecordInv'
<1>1. PICK t \in Tasks : t = job[h].task
  BY DEF IInv, TypeInv, Jobs
<1>2. /\ TypeInv /\ KeysInv(h) /\ pc[h] = "open" /\ RecInv(t) /\ h \in Writing(t)
      /\ UNCHANGED <<tmux, file, job, keys, overtaken, spoken, contested, mixed>>
      /\ pc'[h] = "write" /\ \A g \in Hooks \ {h} : pc'[g] = pc[g]
      /\ \A u \in Tasks \ {t} : tmp'[u] = tmp[u] /\ (u \in shared' => u \in shared)
  BY <1>1 DEF IInv, RecordInv, TypeInv, OpenTmp, Goto, Writing
<1>3. Frame(h, t)
  BY <1>2 DEF Frame
<1>4. KeysInv(h)'
  BY <1>2 DEF KeysInv, WritingBack, Writes, Sets, SelfCompleted
<1>5. ASSUME NEW u \in Tasks \ {t} PROVE RecInv(u)'
  <2>1. Inert(h, u) /\ Inert(h, u)'
    BY <1>1, <1>2, <1>5 DEF Inert
  <2> QED  BY <1>2, <1>3, <1>5, <2>1, OtherRec DEF RecordInv
<1>6. RecInv(t)'
  <2>1. tmp'[t] # NoFile
    <3>1. h \in tmp'[t].open
      BY <1>1, <1>2 DEF OpenTmp, TypeInv
    <3> QED  BY <3>1, TasksAssigned DEF NoFile
  <2>2. ASSUME t \notin mixed'
        PROVE  t \notin shared' /\ Writing(t) \subseteq {h} /\ h \notin overtaken'
    <3>1. AloneInv(t)
      BY <1>2, <2>2 DEF RecInv
    <3> QED  BY <1>1, <1>2, <3>1 DEF AloneInv, OpenTmp
  <2>3. Speaks(h, t) => Speaks(h, t)'
    BY <1>2 DEF Speaks, Carries
  <2>4. Disputes(h, t) => Disputes(h, t)'
    BY <1>2 DEF Disputes, SelfCompleted
  <2>5. t \notin mixed' => (Carries(h, t)' => job'[h].verdict = spoken[t])
    BY <1>2 DEF RecInv, SpokenInv, Carries
  <2> QED  BY <1>2, <1>3, <2>1, <2>2, <2>3, <2>4, <2>5, KeepRec
<1> QED  BY <1>2, <1>3, <1>4, <1>5, <1>6, KeysKept DEF RecordInv

LEMMA WriteTmpRecords ==
  ASSUME IInv, RecordInv, NEW h \in Hooks, WriteTmp(h) PROVE RecordInv'
<1>1. PICK t \in Tasks : t = job[h].task
  BY DEF IInv, TypeInv, Jobs
<1>2. /\ TypeInv /\ KeysInv(h) /\ pc[h] = "write" /\ RecInv(t) /\ h \in Writing(t)
      /\ UNCHANGED <<tmux, job, keys, spoken, contested, shared, mixed>>
      /\ pc'[h] = "replace" /\ \A g \in Hooks \ {h} : pc'[g] = pc[g]
      /\ overtaken' \in {overtaken, overtaken \cup (Writing(t) \ {h})}
      /\ \A u \in Tasks \ {t} : tmp'[u] = tmp[u] /\ file'[u] = file[u]
  BY <1>1 DEF IInv, RecordInv, TypeInv, WriteTmp, Goto, Writing, SetFile, taskHistory
<1>3. Frame(h, t)
  BY <1>2 DEF Frame
<1>4. KeysInv(h)'
  BY <1>2 DEF KeysInv, WritingBack, Writes, Sets, SelfCompleted
<1>5. ASSUME NEW u \in Tasks \ {t} PROVE RecInv(u)'
  <2>1. Inert(h, u) /\ Inert(h, u)'
    BY <1>1, <1>2, <1>5 DEF Inert
  <2> QED  BY <1>2, <1>3, <1>5, <2>1, OtherRec DEF RecordInv
<1>6. RecInv(t)'
  <2>1. ASSUME t \notin mixed'
        PROVE  /\ t \notin shared' /\ Writing(t) \subseteq {h} /\ h \notin overtaken'
               /\ file'[t].data = file[t].data /\ tmp'[t] # NoFile
    <3>1. AloneInv(t) /\ Whole(t)
      BY <1>2, <2>1 DEF RecInv, IInv
    <3>2. Writing(t) \subseteq {h} /\ h \notin overtaken /\ t \notin shared /\ tmp[t] # NoFile
      BY <1>2, <3>1 DEF AloneInv
    <3>3. h \in Active(t)
      BY <1>1, <1>2 DEF Active
    <3>4. tmp[t] = [data |-> <<>>, open |-> {h}] /\ file[t].open = {}
      BY <1>2, <3>1, <3>2, <3>3 DEF Whole, TmpOf
    <3>5. PICK x \in Put(tmp[t], h, copy[h]) : tmp' = [tmp EXCEPT ![t] = x]
      BY <1>1 DEF WriteTmp
    <3>6. PICK y \in Put(file[t], h, copy[h]) : SetFile(t, y)
      BY <1>1 DEF WriteTmp
    <3>7. y = file[t]
      BY <1>2, <3>4, PutTyped DEF TypeInv
    <3>8. x.open = {}
      <4>1. h \in tmp[t].open /\ tmp[t].open \ {h} = {}
        BY <3>4
      <4> QED  BY <3>2, <4>1 DEF Put
    <3>9. tmp'[t] # NoFile
      <4>1. NoFile.open # {}
        BY DEF NoFile
      <4> QED  BY <1>2, <3>5, <3>8, <4>1 DEF TypeInv
    <3> QED  BY <1>2, <3>2, <3>6, <3>7, <3>9 DEF SetFile, TypeInv
  <2>2. Speaks(h, t) => Speaks(h, t)'
    BY <1>2 DEF Speaks, Carries
  <2>3. Disputes(h, t) => Disputes(h, t)'
    BY <1>2 DEF Disputes, SelfCompleted
  <2>4. t \notin mixed' => (Carries(h, t)' => job'[h].verdict = spoken[t])
    BY <1>2 DEF RecInv, SpokenInv, Carries
  <2> QED  BY <1>2, <1>3, <2>1, <2>2, <2>3, <2>4, KeepRec
<1> QED  BY <1>2, <1>3, <1>4, <1>5, <1>6, KeysKept DEF RecordInv

\* A hook that fails or is killed counts as one that did not end.
LEMMA FaultRecords ==
  ASSUME IInv, RecordInv, NEW h \in Hooks, NEW t \in Tasks, t = job[h].task,
         \E inode : SetFile(t, inode), \A u \in Tasks \ {t} : tmp'[u] = tmp[u],
         Fault(t), Frame(h, t), KeysInv(h)', \A u \in Tasks \ {t} : Inert(h, u)'
  PROVE  RecordInv'
<1>1. UNCHANGED <<tmux, spoken, contested, shared>> /\ t \in mixed'
  BY DEF Fault
<1>2. \A u \in Tasks \ {t} : file'[u] = file[u]
  BY DEF IInv, TypeInv, SetFile
<1>3. ASSUME NEW u \in Tasks PROVE RecInv(u)'
  <2>1. CASE u = t
    BY <1>1, <2>1 DEF RecInv
  <2>2. CASE u # t
    BY <1>1, <1>2, <2>2, OwnTaskOnly, OtherRec DEF RecordInv
  <2> QED  BY <2>1, <2>2
<1> QED  BY <1>1, <1>3, KeysKept DEF RecordInv

LEMMA FailWriteRecords ==
  ASSUME IInv, RecordInv, NEW h \in Hooks, FailWrite(h) PROVE RecordInv'
<1>1. PICK t \in Tasks : t = job[h].task
  BY DEF IInv, TypeInv, Jobs
<1>2. /\ TypeInv /\ KeysInv(h) /\ WritingBack(h) /\ Fault(t) /\ h \notin {}
      /\ tmux' = tmux /\ contested' = contested /\ mixed \subseteq mixed'
      /\ UNCHANGED <<job, keys, overtaken>> /\ pc'[h] = "clean"
      /\ \A g \in Hooks \ {h} : pc'[g] = pc[g]
      /\ SetFile(t, Close(file[t], h)) /\ t \in mixed'
      /\ \A u \in Tasks \ {t} : tmp'[u] = tmp[u]
  BY <1>1 DEF IInv, RecordInv, TypeInv, FailWrite, Fault, WritingBack, Goto
<1>3. KeysInv(h)' /\ \A u \in Tasks \ {t} : Inert(h, u)'
  BY <1>1, <1>2 DEF KeysInv, WritingBack, Sets, SelfCompleted, Inert
<1>4. Frame(h, t)
  BY <1>2 DEF Frame
<1> QED  BY <1>1, <1>2, <1>3, <1>4, FaultRecords

LEMMA KillRecords ==
  ASSUME IInv, RecordInv, NEW h \in Hooks, Kill(h) PROVE RecordInv'
<1>1. PICK t \in Tasks : t = job[h].task
  BY DEF IInv, TypeInv, Jobs
<1>2. /\ TypeInv /\ Fault(t) /\ h \notin {}
      /\ tmux' = tmux /\ contested' = contested /\ mixed \subseteq mixed'
      /\ EndHook(h, {}) /\ SetFile(t, Close(file[t], h))
      /\ \A u \in Tasks \ {t} : tmp'[u] = tmp[u]
  BY <1>1 DEF IInv, TypeInv, Kill, Fault
<1>3. /\ KeysInv(h)' /\ \A u \in Tasks \ {t} : Inert(h, u)'
      /\ \A g \in Hooks \ {h} : pc'[g] = pc[g] /\ job'[g] = job[g] /\ keys'[g] = keys[g]
                                /\ (g \in overtaken' => g \in overtaken)
  BY <1>2, EndHookKeys
<1>4. Frame(h, t)
  BY <1>2, <1>3 DEF Frame
<1> QED  BY <1>1, <1>2, <1>3, <1>4, FaultRecords

\* The rename fails only where two hooks were at work.
LEMMA ReplaceFailsRecords ==
  ASSUME IInv, RecordInv, NEW h \in Hooks, Replace(h), pc'[h] = "clean" PROVE RecordInv'
<1>1. PICK t \in Tasks : t = job[h].task
  BY DEF IInv, TypeInv, Jobs
<1>2. /\ TypeInv /\ KeysInv(h) /\ WritingBack(h) /\ RecInv(t) /\ pc[h] = "replace"
      /\ h \in Writing(t) /\ UNCHANGED <<tmux, spoken, contested, shared, mixed>>
  BY <1>1 DEF IInv, RecordInv, Replace, WritingBack, Writing, taskHistory
<1>3. tmp[t] = NoFile /\ UNCHANGED <<file, tmp, job, keys, overtaken>>
      /\ \A g \in Hooks \ {h} : pc'[g] = pc[g]
  <2>1. ASSUME NEW others, NextRule(h, others) PROVE FALSE
    BY <1>2, <2>1 DEF NextRule, EndHook, Goto, TypeInv
  <2> QED  BY <1>1, <1>2, <2>1 DEF Replace, Goto, TypeInv
<1>4. t \in mixed
  BY <1>2, <1>3 DEF RecInv, AloneInv
<1>5. Frame(h, t)
  BY <1>2, <1>3 DEF Frame
<1>6. KeysInv(h)' /\ \A u \in Tasks \ {t} : Inert(h, u)'
  BY <1>1, <1>2, <1>3, <1>4 DEF KeysInv, WritingBack, Sets, SelfCompleted, Inert
<1>7. ASSUME NEW u \in Tasks \ {t} PROVE RecInv(u)'
  BY <1>1, <1>2, <1>3, <1>5, <1>6, <1>7, OwnTaskOnly, OtherRec DEF RecordInv
<1>8. RecInv(t)'
  BY <1>2, <1>4 DEF RecInv
<1> QED  BY <1>2, <1>5, <1>6, <1>7, <1>8, KeysKept DEF RecordInv

\* A hook that gave up removes the temporary file of a task that is mixed by then.
LEMMA CleanTmpRecords ==
  ASSUME IInv, RecordInv, NEW h \in Hooks, CleanTmp(h) PROVE RecordInv'
<1>1. PICK t \in Tasks : t = job[h].task
  BY DEF IInv, TypeInv, Jobs
<1>2. /\ TypeInv /\ KeysInv(h) /\ WritingBack(h) /\ pc[h] = "clean" /\ t \in mixed
      /\ NextRule(h, {}) /\ UNCHANGED <<tmux, file, spoken, contested, shared, mixed>>
      /\ \A u \in Tasks \ {t} : tmp'[u] = tmp[u]
  BY <1>1 DEF IInv, RecordInv, KeysInv, TypeInv, CleanTmp, WritingBack, taskHistory
<1>3. /\ KeysInv(h)' /\ \A u \in Tasks \ {t} : Inert(h, u)'
      /\ \A g \in Hooks \ {h} : pc'[g] = pc[g] /\ job'[g] = job[g] /\ keys'[g] = keys[g]
                                /\ (g \in overtaken' => g \in overtaken)
  <2>1. h \notin {} /\ contested \subseteq contested'
    BY <1>2
  <2> QED  BY <1>1, <1>2, <2>1, NextRuleKeys
<1>4. Frame(h, t)
  BY <1>2, <1>3 DEF Frame
<1>5. ASSUME NEW u \in Tasks \ {t} PROVE RecInv(u)'
  BY <1>1, <1>2, <1>3, <1>4, <1>5, OwnTaskOnly, OtherRec DEF RecordInv
<1>6. RecInv(t)'
  BY <1>2 DEF RecInv
<1> QED  BY <1>2, <1>3, <1>4, <1>5, <1>6, KeysKept DEF RecordInv

LEMMA ReplaceRecords ==
  ASSUME IInv, RecordInv, NEW h \in Hooks, Replace(h), pc'[h] # "clean" PROVE RecordInv'
<1>1. PICK t \in Tasks : t = job[h].task
  BY DEF IInv, TypeInv, Jobs
<1>2. /\ TypeInv /\ KeysInv(h) /\ WritingBack(h) /\ RecInv(t) /\ pc[h] = "replace"
      /\ h \in Writing(t) /\ h \in Active(t)
      /\ UNCHANGED <<tmux, spoken, contested, shared, mixed>>
      /\ \A u \in Tasks \ {t} : tmp'[u] = tmp[u] /\ file'[u] = file[u]
  BY <1>1 DEF IInv, RecordInv, TypeInv, Replace, WritingBack, Writing, Active, SetFile,
     taskHistory
<1>3. PICK others \in SUBSET (Writing(t) \ {h}) : NextRule(h, others)
  BY <1>1, <1>2 DEF Replace, Goto, TypeInv
<1>4. /\ KeysInv(h)' /\ ~Writes(h)' /\ \A u \in Tasks : ~Speaks(h, u)'
      /\ \A u \in Tasks \ {t} : Inert(h, u)'
      /\ \A u \in Tasks : Carries(h, u)' => job'[h] = job[h]
      /\ keys[h].disputed \/ job'[h] = job[h] \/ ~SelfCompleted(job[h])
      /\ \A g \in Hooks \ {h} :
            /\ pc'[g] = pc[g] /\ job'[g] = job[g] /\ keys'[g] = keys[g]
            /\ g \in overtaken' => g \in overtaken \/ g \in Writing(t)
  <2>1. /\ h \notin others /\ tmux' = tmux /\ contested \subseteq contested'
        /\ TypeInv /\ KeysInv(h) /\ WritingBack(h)
    BY <1>2
  <2> QED  BY <1>1, <1>3, <2>1, NextRuleKeys
<1>5. Frame(h, t)
  BY <1>2, <1>4 DEF Frame
<1>6. ASSUME NEW u \in Tasks \ {t} PROVE RecInv(u)'
  BY <1>1, <1>2, <1>4, <1>5, <1>6, OwnTaskOnly, OtherRec DEF RecordInv
<1>7. ASSUME t \notin mixed' PROVE AloneInv(t)' /\ SpokenInv(t)' /\ DisputeInv(t)'
  <2>1. AloneInv(t) /\ SpokenInv(t) /\ DisputeInv(t) /\ Whole(t) /\ CopyOf(h)
    BY <1>2, <1>7 DEF RecInv, IInv
  <2>2. Writing(t) = {h} /\ h \notin overtaken /\ t \notin shared /\ tmp[t] # NoFile
    BY <1>2, <2>1 DEF AloneInv
  <2>3. Writing(t)' = {}
    BY <1>4, <2>2 DEF Writing, Writes
  <2>4. /\ Task(t) \in Content /\ keys[h] \in KeySets
        /\ Task(t)' = SetKeys(Task(t), keys[h])
    <3>1. tmp[t] = [data |-> copy[h], open |-> {}] /\ file[t].data # <<>>
      BY <1>2, <2>1, <2>2 DEF Whole, TmpOf
    <3>2. copy[h] = <<SetKeys(Task(t), keys[h])>>
      BY <1>1, <1>2, <2>1, <2>2 DEF CopyOf
    <3>3. file[t].data \in Blobs /\ keys[h] \in KeySets
      BY <1>2 DEF TypeInv, Inodes
    <3>4. Task(t) \in Content
      BY <3>1, <3>3, BlobRead DEF Task, Readable
    <3>5. PICK c \in Content : c = SetKeys(Task(t), keys[h])
      BY <3>3, <3>4, SetKeysTyped
    <3>6. file'[t].data = <<c>>
      BY <1>1, <1>2, <2>2, <3>1, <3>2, <3>5 DEF Replace, SetFile, TypeInv
    <3>7. Task(t)' = c
      BY <3>5, <3>6, BlobOf DEF Task, Readable
    <3> QED  BY <3>3, <3>4, <3>5, <3>7
  <2>5. /\ Task(t)'.authored = IF keys[h].authored = NoVerdict THEN Task(t).authored
                               ELSE keys[h].authored
        /\ Task(t)'.disputed = (Task(t).disputed \/ keys[h].disputed)
    BY <2>4 DEF SetKeys, Content, KeySets
  <2>6. AloneInv(t)'
    BY <1>2, <2>2, <2>3 DEF AloneInv
  <2>7. SpokenInv(t)'
    <3>1. \A g \in Hooks : Carries(g, t)' => job'[g].verdict = spoken'[t]
      BY <1>2, <1>4, <2>1 DEF SpokenInv, Carries
    <3>2. CASE keys[h].authored # NoVerdict
      <4>1. keys[h].authored = job[h].verdict /\ Carries(h, t)
        BY <1>1, <1>2, <3>2 DEF KeysInv, Sets, NoKeys, Carries
      <4> QED  BY <1>2, <2>1, <2>5, <3>1, <3>2, <4>1 DEF SpokenInv
    <3>3. CASE keys[h].authored = NoVerdict
      <4>1. ~Speaks(h, t)
        BY <1>2, <3>3 DEF Speaks, Carries
      <4>2. ASSUME NEW g \in Hooks, Speaks(g, t) PROVE Speaks(g, t)'
        BY <1>2, <1>4, <4>1, <4>2 DEF Speaks, Carries
      <4> QED  BY <1>2, <2>1, <2>5, <3>1, <3>3, <4>2 DEF SpokenInv
    <3> QED  BY <3>2, <3>3
  <2>8. DisputeInv(t)'
    <3>1. keys[h].disputed => t \in contested
      BY <1>1, <1>2 DEF KeysInv, Sets, NoKeys
    <3>2. ASSUME NEW g \in Hooks, Disputes(g, t)
          PROVE  Disputes(g, t)' \/ keys[h].disputed
      BY <1>2, <1>4, <3>2 DEF Disputes, SelfCompleted
    <3>3. Task(t)'.disputed => t \in contested'
      BY <1>2, <2>1, <2>5, <3>1 DEF DisputeInv
    <3>4. ASSUME t \in contested, ~Task(t)'.disputed
          PROVE  \E g \in Hooks : Disputes(g, t)'
      BY <2>1, <2>5, <3>2, <3>4 DEF DisputeInv
    <3> QED  BY <1>2, <3>3, <3>4 DEF DisputeInv
  <2> QED  BY <2>6, <2>7, <2>8
<1>8. RecInv(t)'
  BY <1>7 DEF RecInv
<1> QED  BY <1>2, <1>4, <1>5, <1>6, <1>8, KeysKept DEF RecordInv

LEMMA UpdateTaskRecords ==
  ASSUME IInv, RecordInv, NEW h \in Hooks, NEW actor \in Mates \cup {Lead},
         NEW t \in Tasks, NEW status \in Statuses, NEW verdict \in Said,
         UpdateTask(h, actor, t, status, verdict)
  PROVE  RecordInv'
<1> DEFINE j == [actor |-> actor, task |-> t, status |-> status, verdict |-> verdict]
<1>1. /\ TypeInv /\ KeysInv(h) /\ pc[h] = "idle" /\ RecInv(t) /\ Readable(t)
      /\ UNCHANGED <<tmux, tmp, keys, shared>> /\ mixed \subseteq mixed'
      /\ overtaken' = overtaken \cup Writing(t)
      /\ \A u \in Tasks \ {t} : file'[u] = file[u]
      /\ actor = Lead \/ actor = Owner[t]
      /\ t \notin mixed' => /\ t \notin mixed /\ Writing(t) = {}
                            /\ \A g \in Hooks : ~(job[g].task = t /\ job[g].actor = actor
                                                  /\ job[g].verdict # NoVerdict)
  BY DEF IInv, RecordInv, TypeInv, UpdateTask, SetFile
<1>2. /\ job[h] = NoJob /\ keys[h] = NoKeys /\ h \notin overtaken
      /\ \A u \in Tasks : h \notin Writing(u) /\ Inert(h, u)
  BY <1>1, Blank DEF KeysInv, WritingBack, Writes, Writing, Inert
<1>3. /\ pc'[h] = IF verdict # NoVerdict THEN "audit" ELSE "completion"
      /\ job'[h] = j
      /\ \A g \in Hooks \ {h} : pc'[g] = pc[g] /\ job'[g] = job[g] /\ keys'[g] = keys[g]
  BY <1>1 DEF UpdateTask, TypeInv, Goto
<1>4. /\ contested' = IF SelfCompleted(j) THEN contested \cup {t} ELSE contested
      /\ spoken' = IF verdict # NoVerdict /\ actor # Lead
                   THEN [spoken EXCEPT ![t] = verdict] ELSE spoken
  BY DEF UpdateTask, SelfCompleted
<1>5. contested \subseteq contested' /\ (SelfCompleted(job[h])' <=> SelfCompleted(j))
  BY <1>1, <1>3, <1>4 DEF SelfCompleted
<1>6. Frame(h, t)
  BY <1>1, <1>3, <1>5 DEF Frame
<1>7. KeysInv(h)'
  BY <1>1, <1>2, <1>3, <1>4, <1>5 DEF KeysInv, WritingBack, Writes
<1>8. spoken' \in [Tasks -> Said]
  BY <1>4 DEF RecordInv
<1>9. ASSUME NEW u \in Tasks \ {t} PROVE RecInv(u)'
  <2>1. Inert(h, u)'
    BY <1>3, <1>9 DEF Inert
  <2>2. spoken'[u] = spoken[u] /\ (u \in contested' => u \in contested)
    BY <1>4, <1>9 DEF RecordInv
  <2> QED  BY <1>1, <1>2, <1>6, <1>9, <2>1, <2>2, OtherRec DEF RecordInv
<1>10. ASSUME t \notin mixed' PROVE AloneInv(t)' /\ SpokenInv(t)' /\ DisputeInv(t)'
  <2>1. AloneInv(t) /\ SpokenInv(t) /\ DisputeInv(t) /\ Writing(t) = {}
    BY <1>1, <1>10 DEF RecInv
  <2>2. Writing(t)' = {}
    BY <1>3, <2>1 DEF Writing
  <2>3. Task(t)'.authored = Task(t).authored /\ Task(t)'.disputed = Task(t).disputed
    <3>1. file[t].data \in Blobs
      BY <1>1 DEF TypeInv, Inodes
    <3>2. Task(t) \in Content
      BY <1>1, <3>1, BlobRead DEF Task, Readable
    <3>3. PICK c \in Content : c = Updated(Task(t), status, verdict)
      BY <3>2, UpdatedTyped
    <3>4. file'[t].data = <<c>>
      BY <1>1, <3>3 DEF UpdateTask, SetFile, TypeInv
    <3>5. Task(t)' = c
      BY <3>4, BlobOf DEF Task, Readable
    <3> QED  BY <3>2, <3>3, <3>5 DEF Updated, Content
  <2>4. AloneInv(t)'
    BY <1>1, <2>1, <2>2 DEF AloneInv
  <2>5. SpokenInv(t)'
    <3>1. CASE verdict # NoVerdict /\ actor # Lead
      <4>1. spoken'[t] = verdict /\ Speaks(h, t)'
        BY <1>3, <1>4, <3>1 DEF RecordInv, Speaks, Carries
      <4>2. ASSUME NEW g \in Hooks, Carries(g, t)' PROVE g = h
        <5>1. ASSUME g # h PROVE FALSE
          <6>1. Carries(g, t)
            BY <1>3, <4>2, <5>1 DEF Carries
          <6>2. job[g].actor = Owner[t]
            BY <6>1 DEF RecordInv, KeysInv, Carries
          <6> QED  BY <1>1, <1>10, <3>1, <6>1, <6>2 DEF Carries
        <5> QED  BY <5>1
      <4> QED  BY <1>3, <4>1, <4>2 DEF SpokenInv
    <3>2. CASE ~(verdict # NoVerdict /\ actor # Lead)
      <4>1. spoken' = spoken /\ ~Carries(h, t)' /\ ~Speaks(h, t)
        <5>1. job'[h].actor = actor /\ job'[h].verdict = verdict
          BY <1>3
        <5>2. ~Carries(h, t) /\ ~Carries(h, t)'
          BY <1>2, <3>2, <5>1, Blank DEF Carries
        <5> QED  BY <1>4, <3>2, <5>2 DEF Speaks
      <4>2. ASSUME NEW g \in Hooks, Speaks(g, t) PROVE Speaks(g, t)'
        BY <1>3, <4>1, <4>2 DEF Speaks, Carries
      <4>3. \A g \in Hooks : Carries(g, t)' => job'[g].verdict = spoken'[t]
        BY <1>3, <2>1, <4>1 DEF SpokenInv, Carries
      <4> QED  BY <2>1, <2>3, <4>1, <4>2, <4>3 DEF SpokenInv
    <3> QED  BY <3>1, <3>2
  <2>6. DisputeInv(t)'
    <3>1. CASE SelfCompleted(j)
      <4>1. Disputes(h, t)' /\ t \in contested'
        BY <1>3, <1>4, <1>5, <3>1 DEF Disputes
      <4> QED  BY <4>1 DEF DisputeInv
    <3>2. CASE ~SelfCompleted(j)
      <4>1. ~Disputes(h, t)
        BY <1>2, Blank DEF Disputes
      <4>2. ASSUME NEW g \in Hooks, Disputes(g, t) PROVE Disputes(g, t)'
        BY <1>1, <1>3, <4>1, <4>2 DEF Disputes, SelfCompleted
      <4> QED  BY <1>4, <2>1, <2>3, <3>2, <4>2 DEF DisputeInv
    <3> QED  BY <3>1, <3>2
  <2> QED  BY <2>4, <2>5, <2>6
<1>11. RecInv(t)'
  BY <1>10 DEF RecInv
<1> QED  BY <1>1, <1>6, <1>7, <1>8, <1>9, <1>11, KeysKept DEF RecordInv

LEMMA NextRecords == IInv /\ RecordInv /\ [Next]_vars => RecordInv'
<1>1. ASSUME RecordInv, UNCHANGED vars PROVE RecordInv'
  <2>1. UNCHANGED <<tmux, file, tmp, pc, job, keys, overtaken, spoken, contested,
                    shared, mixed>>
    BY <1>1 DEF vars, hookVars, history
  <2>2. \A h \in Hooks : KeysInv(h)'
    BY <1>1, <2>1 DEF RecordInv, KeysInv, WritingBack, Writes, Sets, SelfCompleted
  <2>3. ASSUME NEW t \in Tasks PROVE RecInv(t)'
    <3>1. /\ Task(t)' = Task(t) /\ Writing(t)' = Writing(t)
          /\ \A h \in Hooks : /\ Carries(h, t)' = Carries(h, t)
                              /\ Speaks(h, t)' = Speaks(h, t)
                              /\ Disputes(h, t)' = Disputes(h, t)
      BY <2>1 DEF Task, Readable, Writing, Carries, Speaks, Disputes, SelfCompleted
    <3> QED
      BY <1>1, <2>1, <3>1 DEF RecordInv, RecInv, AloneInv, SpokenInv, DisputeInv
  <2> QED  BY <1>1, <2>1, <2>2, <2>3 DEF RecordInv
<1>2. ASSUME IInv, RecordInv, Next PROVE RecordInv'
  <2>1. PICK h \in Hooks :
          \/ \E actor \in Mates \cup {Lead}, t \in Tasks, status \in Statuses,
                verdict \in Said : UpdateTask(h, actor, t, status, verdict)
          \/ \E m \in Mates : UseTool(h, m)
          \/ WorkOf(h) \/ FailWrite(h) \/ Kill(h)
    BY <1>2 DEF Next, Statuses, Said
  <2>2. CASE WorkOf(h)
    BY <1>2, <2>2, AuditRecords, CompletionRecords, ScanRecords, ReadRecords,
       OpenTmpRecords, WriteTmpRecords, ReplaceRecords, ReplaceFailsRecords,
       CleanTmpRecords DEF WorkOf
  <2> QED
    BY <1>2, <2>1, <2>2, UpdateTaskRecords, UseToolRecords, FailWriteRecords, KillRecords
<1> QED  BY <1>1, <1>2

LEMMA RecordInvHolds == Spec => []RecordInv
  BY InitRecords, NextRecords, IInvHolds, PTL DEF Spec

\* When no hook is at work, the last verdict of an auditor and the dispute of a
\* self-completion are on file, for every task that hooks wrote one at a time and
\* to the end: whatever the lead, the claims and the other gates wrote between.
THEOREM VerdictsAndDisputesRecorded == Spec => []Recorded
<1>1. RecordInv => Recorded
  <2> SUFFICES ASSUME RecordInv, NEW t \in Tasks, \A h \in Hooks : pc[h] = "idle",
                      t \notin mixed
               PROVE  Task(t).authored = spoken[t] /\ (t \in contested <=> Task(t).disputed)
    BY DEF Recorded
  <2>1. SpokenInv(t) /\ DisputeInv(t)
    BY DEF RecordInv, RecInv
  <2>2. \A h \in Hooks : job[h] = NoJob
    BY DEF RecordInv, KeysInv
  <2>3. \A h \in Hooks : ~Speaks(h, t) /\ ~Disputes(h, t)
    BY <2>2, Blank DEF Speaks, Carries, Disputes
  <2> QED  BY <2>1, <2>3 DEF SpokenInv, DisputeInv
<1> QED  BY <1>1, RecordInvHolds, PTL

-----------------------------------------------------------------------------
(***************************************************************************)
(* The types, with who has which inode open.                               *)
(***************************************************************************)
OpenInv(t) ==
  /\ \A h \in Hooks : h \in file[t].open \cup tmp[t].open =>
                        pc[h] = "write" /\ job[h].task = t
  /\ file[t].open \subseteq Hooks
  /\ tmp[t] # NoFile => tmp[t].open \subseteq Hooks /\ tmp[t].open \cap file[t].open = {}

SetsTyped == /\ overtaken \cup blind \subseteq Hooks
             /\ accepted \cup contested \cup shared \cup mixed \subseteq Tasks

LEMMA OpenKept ==
  ASSUME NEW h \in Hooks, NEW t, Frame(h, t), NEW u \in Tasks, OpenInv(u),
         file'[u] = file[u], tmp'[u] = tmp[u], pc[h] # "write" \/ job[h].task # u
  PROVE  OpenInv(u)'
<1>1. \A g \in Hooks \ {h} : pc'[g] = pc[g] /\ job'[g] = job[g]
  BY DEF Frame
<1>2. h \notin file[u].open \cup tmp[u].open
  BY DEF OpenInv
<1> QED  BY <1>1, <1>2 DEF OpenInv

\* The hook h has nothing open any more, and nobody has opened anything.
LEMMA OpenLess ==
  ASSUME NEW h \in Hooks, NEW t \in Tasks, Frame(h, t), OpenInv(t),
         file'[t].open \subseteq file[t].open \ {h},
         \/ tmp'[t] = NoFile
         \/ tmp[t] # NoFile /\ tmp'[t].open \subseteq tmp[t].open \ {h}
  PROVE  OpenInv(t)'
<1>1. \A g \in Hooks \ {h} : pc'[g] = pc[g] /\ job'[g] = job[g]
  BY DEF Frame
<1>2. \A g \in Hooks : g \notin NoFile.open
  BY TasksAssigned DEF NoFile
<1> QED  BY <1>1, <1>2 DEF OpenInv

\* The frame of a step, taken from the proofs above for the steps they have in common.
LEMMA StepFrame ==
  ASSUME TypeInv, RecordInv, NEW h \in Hooks, WorkOf(h) \/ FailWrite(h) \/ Kill(h)
  PROVE  Frame(h, job[h].task)
<1> DEFINE t == job[h].task
<1>1. KeysInv(h)
  BY DEF RecordInv
<1>2. ASSUME NEW others, NextRule(h, others) \/ EndHook(h, others)
      PROVE  \A g \in Hooks \ {h} :
               /\ pc'[g] = pc[g] /\ job'[g] = job[g] /\ keys'[g] = keys[g]
               /\ g \in overtaken' => g \in overtaken \/ g \in others
  BY <1>2 DEF NextRule, EndHook, Goto, TypeInv
<1>3. ASSUME Audit(h) PROVE Frame(h, t)
  BY <1>3 DEF Audit, WriteBack, Goto, TypeInv, taskHistory, Frame
<1>4. ASSUME Completion(h) PROVE Frame(h, t)
  <2>1. tmux' = tmux /\ contested' = contested /\ mixed' = mixed
    BY <1>4 DEF Completion, taskHistory
  <2>2. CASE WriteBack(h, [NoKeys EXCEPT !.disputed = TRUE])
    BY <2>1, <2>2 DEF WriteBack, Goto, TypeInv, Frame
  <2>3. CASE EndHook(h, {})
    BY <1>2, <2>1, <2>3 DEF Frame
  <2> QED  BY <1>4, <2>2, <2>3 DEF Completion
<1>5. ASSUME Scan(h) PROVE Frame(h, t)
  <2>1. tmux' = tmux /\ contested' = contested /\ mixed' = mixed
    BY <1>5 DEF Scan, taskHistory
  <2>2. CASE EndHook(h, {})
    BY <1>2, <2>1, <2>2 DEF Frame
  <2>3. CASE ~EndHook(h, {})
    BY <1>5, <2>1, <2>3 DEF Scan, Goto, TypeInv, Frame
  <2> QED  BY <2>2, <2>3
<1>6. ASSUME Read(h) PROVE Frame(h, t)
  <2>1. tmux' = tmux /\ contested' = contested /\ mixed \subseteq mixed'
    BY <1>6 DEF Read
  <2>2. CASE NextRule(h, {})
    BY <1>2, <2>1, <2>2 DEF Frame
  <2>3. CASE ~NextRule(h, {})
    BY <1>6, <2>1, <2>3 DEF Read, Goto, TypeInv, Frame
  <2> QED  BY <2>2, <2>3
<1>7. ASSUME OpenTmp(h) PROVE Frame(h, t)
  BY <1>7 DEF OpenTmp, Goto, TypeInv, Frame
<1>8. ASSUME WriteTmp(h) PROVE Frame(h, t)
  BY <1>8 DEF WriteTmp, Goto, TypeInv, taskHistory, Frame
<1>9. ASSUME Replace(h) PROVE Frame(h, t)
  <2>1. tmux' = tmux /\ contested' = contested /\ mixed' = mixed
    BY <1>9 DEF Replace, taskHistory
  <2>2. CASE \E others \in SUBSET Writing(t) : NextRule(h, others)
    BY <1>2, <2>1, <2>2 DEF Frame
  <2>3. CASE Goto(h, "clean") /\ UNCHANGED <<job, keys, overtaken>>
    BY <2>1, <2>3 DEF Goto, TypeInv, Frame
  <2> QED  BY <1>9, <2>2, <2>3 DEF Replace
<1>10. ASSUME FailWrite(h) \/ Kill(h) PROVE Frame(h, t)
  <2>1. tmux' = tmux /\ contested' = contested /\ mixed \subseteq mixed'
    BY <1>10 DEF FailWrite, Kill, Fault
  <2>2. CASE EndHook(h, {})
    BY <1>2, <2>1, <2>2 DEF Frame
  <2>3. CASE Goto(h, "clean") /\ UNCHANGED <<job, keys, overtaken>>
    BY <2>1, <2>3 DEF Goto, TypeInv, Frame
  <2> QED  BY <1>10, <2>2, <2>3 DEF FailWrite, Kill
<1>11. ASSUME CleanTmp(h) PROVE Frame(h, t)
  <2>1. tmux' = tmux /\ contested' = contested /\ mixed' = mixed /\ NextRule(h, {})
    BY <1>11 DEF CleanTmp, taskHistory
  <2> QED  BY <1>2, <2>1 DEF Frame
<1> QED  BY <1>3, <1>4, <1>5, <1>6, <1>7, <1>8, <1>9, <1>10, <1>11 DEF WorkOf

LEMMA CloseLess ==
  ASSUME NEW inode \in Inodes, NEW h \in Hooks
  PROVE  /\ inode # NoFile => Close(inode, h).open = inode.open \ {h}
         /\ inode = NoFile => Close(inode, h) = NoFile
  BY DEF Close, Inodes

LEMMA PutLess ==
  ASSUME NEW inode \in Inodes, NEW h \in Hooks, NEW b \in Blobs, NEW x \in Put(inode, h, b)
  PROVE  /\ inode # NoFile => x.open = inode.open \ {h}
         /\ inode = NoFile => x = NoFile
  BY DEF Put, Inodes

LEMMA WorkOpens ==
  ASSUME IInv, RecordInv, NEW h \in Hooks, WorkOf(h) \/ FailWrite(h) \/ Kill(h),
         \A t \in Tasks : OpenInv(t)
  PROVE  \A t \in Tasks : OpenInv(t)'
<1>0. PICK t \in Tasks : t = job[h].task
  BY DEF IInv, TypeInv, Jobs
<1>1. /\ TypeInv /\ Frame(h, t) /\ OpenInv(t) /\ file[t] \in Inodes /\ tmp[t] \in Inodes
      /\ copy[h] \in Blobs /\ h \notin NoFile.open
  BY <1>0, StepFrame, TasksAssigned DEF IInv, TypeInv, NoFile
<1>2. ASSUME Audit(h) \/ Completion(h) \/ Scan(h) \/ Read(h), NEW u \in Tasks
      PROVE  OpenInv(u)'
  <2>1. file' = file /\ tmp' = tmp /\ pc[h] # "write"
    BY <1>2 DEF Audit, Completion, Scan, Read
  <2> QED  BY <1>1, <2>1, OpenKept
<1>3. ASSUME \/ OpenTmp(h) \/ WriteTmp(h) \/ Replace(h)
             \/ FailWrite(h) \/ CleanTmp(h) \/ Kill(h),
             NEW u \in Tasks \ {t}
      PROVE  OpenInv(u)'
  <2>1. file'[u] = file[u]
    BY <1>0, <1>1, <1>3 DEF OpenTmp, WriteTmp, Replace, FailWrite, CleanTmp, Kill,
       SetFile, TypeInv
  <2>2. tmp'[u] = tmp[u]
    BY <1>0, <1>1, <1>3 DEF OpenTmp, WriteTmp, Replace, FailWrite, CleanTmp, Kill,
       TypeInv
  <2> QED  BY <1>0, <1>1, <1>3, <2>1, <2>2, OpenKept
<1>4. ASSUME OpenTmp(h) PROVE OpenInv(t)'
  <2>1. /\ file' = file /\ pc[h] = "open" /\ pc'[h] = "write" /\ job' = job
        /\ tmp'[t].open = IF tmp[t] = NoFile THEN {h} ELSE tmp[t].open \cup {h}
    BY <1>0, <1>1, <1>4 DEF OpenTmp, TypeInv, Goto
  <2>2. h \notin file[t].open /\ \A g \in Hooks \ {h} : pc'[g] = pc[g]
    BY <1>1, <2>1 DEF OpenInv, Frame
  <2> QED  BY <1>0, <1>1, <2>1, <2>2 DEF OpenInv
<1>5. ASSUME WriteTmp(h) PROVE OpenInv(t)'
  <2>1. PICK x \in Put(tmp[t], h, copy[h]), y \in Put(file[t], h, copy[h]) :
          tmp'[t] = x /\ file'[t] = y
    BY <1>0, <1>1, <1>5 DEF WriteTmp, SetFile, TypeInv
  <2>2. /\ tmp[t] # NoFile => x.open = tmp[t].open \ {h}
        /\ tmp[t] = NoFile => x = NoFile
    BY <1>1, PutLess
  <2>3. file[t] # NoFile
    BY <1>1, TasksAssigned DEF OpenInv, NoFile
  <2>4. y.open = file[t].open \ {h}
    BY <1>1, <2>3, PutLess
  <2> QED  BY <1>1, <2>1, <2>2, <2>4, OpenLess
<1>6. ASSUME Replace(h) PROVE OpenInv(t)'
  <2>1. pc[h] = "replace" /\ h \notin file[t].open /\ h \notin tmp[t].open
    BY <1>1, <1>6 DEF Replace, OpenInv
  <2>2. CASE tmp[t] # NoFile
    <3>1. file'[t] = tmp[t] /\ tmp'[t] = NoFile
      BY <1>0, <1>1, <1>6, <2>2 DEF Replace, SetFile, TypeInv
    <3>2. \A g \in Hooks \ {h} : pc'[g] = pc[g] /\ job'[g] = job[g]
      BY <1>1 DEF Frame
    <3>3. \A g \in Hooks : g \notin NoFile.open
      BY TasksAssigned DEF NoFile
    <3> QED  BY <1>1, <2>1, <2>2, <3>1, <3>2, <3>3 DEF OpenInv
  <2>3. CASE tmp[t] = NoFile
    <3>1. file' = file /\ tmp' = tmp
      BY <1>0, <1>6, <2>3 DEF Replace
    <3> QED  BY <1>1, <2>1, <2>3, <3>1, OpenLess
  <2> QED  BY <2>2, <2>3
<1>7. ASSUME FailWrite(h) \/ Kill(h) PROVE OpenInv(t)'
  <2>1. /\ file'[t] = Close(file[t], h)
        /\ tmp'[t] = Close(tmp[t], h)
    BY <1>0, <1>1, <1>7 DEF FailWrite, Kill, SetFile, TypeInv
  <2>2. file[t] # NoFile
    BY <1>1, TasksAssigned DEF OpenInv, NoFile
  <2> QED  BY <1>1, <2>1, <2>2, CloseLess, OpenLess
<1>8. ASSUME CleanTmp(h) PROVE OpenInv(t)'
  <2>1. pc[h] = "clean" /\ file' = file /\ tmp'[t] = NoFile
    BY <1>0, <1>1, <1>8 DEF CleanTmp, TypeInv
  <2>2. h \notin file[t].open
    BY <1>1, <2>1 DEF OpenInv
  <2> QED  BY <1>1, <2>1, <2>2, OpenLess
<1> QED  BY <1>2, <1>3, <1>4, <1>5, <1>6, <1>7, <1>8 DEF WorkOf

LEMMA NextOpens ==
  IInv /\ RecordInv /\ (\A t \in Tasks : OpenInv(t)) /\ [Next]_vars
    => \A t \in Tasks : OpenInv(t)'
<1>1. ASSUME \A t \in Tasks : OpenInv(t), UNCHANGED vars
      PROVE  \A t \in Tasks : OpenInv(t)'
  BY <1>1 DEF vars, hookVars, OpenInv
<1>2. ASSUME IInv, RecordInv, \A t \in Tasks : OpenInv(t), NEW h \in Hooks,
             NEW actor \in Mates \cup {Lead}, NEW t \in Tasks, NEW status \in Statuses,
             NEW verdict \in Said, UpdateTask(h, actor, t, status, verdict),
             NEW u \in Tasks
      PROVE  OpenInv(u)'
  <2>1. /\ TypeInv /\ pc[h] = "idle" /\ tmp' = tmp /\ file'[t].open = {}
        /\ \A v \in Tasks \ {t} : file'[v] = file[v]
        /\ \A g \in Hooks \ {h} : pc'[g] = pc[g] /\ job'[g] = job[g]
    BY <1>2 DEF IInv, TypeInv, UpdateTask, SetFile, Goto
  <2>2. \A v \in Tasks : h \notin file[v].open \cup tmp[v].open
    BY <1>2, <2>1 DEF OpenInv
  <2> QED  BY <1>2, <2>1, <2>2 DEF OpenInv
<1>3. ASSUME IInv, RecordInv, \A t \in Tasks : OpenInv(t), NEW h \in Hooks,
             NEW m \in Mates, UseTool(h, m), NEW u \in Tasks
      PROVE  OpenInv(u)'
  <2>1. /\ pc[h] = "idle" /\ UNCHANGED <<file, tmp>>
        /\ \A g \in Hooks \ {h} : pc'[g] = pc[g] /\ job'[g] = job[g]
    BY <1>3 DEF IInv, TypeInv, UseTool, Goto
  <2>2. h \notin file[u].open \cup tmp[u].open
    BY <1>3, <2>1 DEF OpenInv
  <2> QED  BY <1>3, <2>1, <2>2 DEF OpenInv
<1> QED
  BY <1>1, <1>2, <1>3, WorkOpens DEF Next, Statuses, Said

LEMMA SetsStayTyped == IInv /\ SetsTyped /\ [Next]_vars => SetsTyped'
<1>1. ASSUME IInv, SetsTyped, NEW h \in Hooks, NEW t \in Tasks,
             \/ Audit(h) \/ Completion(h) \/ Scan(h)
             \/ t = job[h].task /\ (Read(h) \/ OpenTmp(h) \/ WriteTmp(h) \/ Replace(h)
                                    \/ FailWrite(h) \/ CleanTmp(h) \/ Kill(h))
             \/ \E m \in Mates : UseTool(h, m)
             \/ \E actor, status, verdict : UpdateTask(h, actor, t, status, verdict)
      PROVE  SetsTyped'
  <2>0. Writing(t) \subseteq Hooks
    BY DEF Writing
  <2>1. ASSUME NEW others \in SUBSET Hooks, NextRule(h, others) \/ EndHook(h, others)
        PROVE  overtaken' \cup blind' \subseteq Hooks
    BY <1>1, <2>1 DEF SetsTyped, NextRule, EndHook
  <2>2. ASSUME NEW inode, SetFile(t, inode)
        PROVE  accepted' \subseteq Tasks
    BY <1>1, <2>2 DEF SetsTyped, SetFile
  <2>3. {} \in SUBSET Hooks /\ Writing(t) \ {h} \in SUBSET Hooks
    BY <2>0
  <2>4. CASE Audit(h)
    BY <1>1, <2>4 DEF SetsTyped, Audit, WriteBack, taskHistory
  <2>5. CASE Completion(h)
    BY <1>1, <2>1, <2>3, <2>5 DEF SetsTyped, Completion, WriteBack, taskHistory
  <2>6. CASE Scan(h)
    <3>1. accepted' = accepted /\ contested' = contested /\ shared' = shared /\ mixed' = mixed
      BY <2>6 DEF Scan, taskHistory
    <3>2. overtaken' \cup blind' \subseteq Hooks
      BY <1>1, <2>1, <2>3, <2>6 DEF Scan, SetsTyped
    <3> QED  BY <1>1, <3>1, <3>2 DEF SetsTyped
  <2>7. CASE t = job[h].task /\ Read(h)
    <3>1. /\ accepted' = accepted /\ contested' = contested /\ shared' = shared
          /\ mixed' \subseteq mixed \cup {t}
      BY <2>7 DEF Read
    <3>2. overtaken' \cup blind' \subseteq Hooks
      BY <1>1, <2>1, <2>3, <2>7 DEF Read, SetsTyped
    <3> QED  BY <1>1, <3>1, <3>2 DEF SetsTyped
  <2>8. CASE t = job[h].task /\ OpenTmp(h)
    BY <1>1, <2>8 DEF SetsTyped, OpenTmp
  <2>9. CASE t = job[h].task /\ WriteTmp(h)
    <3>1. accepted' \subseteq Tasks
      BY <2>2, <2>9 DEF WriteTmp
    <3>2. /\ overtaken' \subseteq overtaken \cup Writing(t) /\ blind' = blind
          /\ contested' = contested /\ shared' = shared /\ mixed' = mixed
      BY <2>9 DEF WriteTmp, taskHistory
    <3> QED  BY <1>1, <2>0, <3>1, <3>2 DEF SetsTyped
  <2>10. CASE t = job[h].task /\ Replace(h)
    <3>1. contested' = contested /\ shared' = shared /\ mixed' = mixed
      BY <2>10 DEF Replace, taskHistory
    <3>2. accepted' \subseteq Tasks
      BY <1>1, <2>2, <2>10 DEF Replace, SetsTyped
    <3>3. overtaken' \cup blind' \subseteq Hooks
      BY <1>1, <2>1, <2>3, <2>10 DEF Replace, SetsTyped
    <3> QED  BY <1>1, <3>1, <3>2, <3>3 DEF SetsTyped
  <2>11. CASE t = job[h].task /\ (FailWrite(h) \/ Kill(h))
    <3>1. contested' = contested /\ shared' = shared /\ mixed' = mixed \cup {t}
      BY <2>11 DEF FailWrite, Kill, Fault
    <3>2. accepted' \subseteq Tasks
      BY <2>2, <2>11 DEF FailWrite, Kill
    <3>3. overtaken' \cup blind' \subseteq Hooks
      BY <1>1, <2>1, <2>3, <2>11 DEF FailWrite, Kill, SetsTyped
    <3> QED  BY <1>1, <3>1, <3>2, <3>3 DEF SetsTyped
  <2>12. CASE \E m \in Mates : UseTool(h, m)
    BY <1>1, <2>12 DEF SetsTyped, UseTool, history
  <2>13. CASE \E actor, status, verdict : UpdateTask(h, actor, t, status, verdict)
    <3>1. PICK actor, status, verdict : UpdateTask(h, actor, t, status, verdict)
      BY <2>13
    <3>2. accepted' \subseteq Tasks
      BY <2>2, <3>1 DEF UpdateTask
    <3>3. /\ overtaken' = overtaken \cup Writing(t) /\ blind' = blind /\ shared' = shared
          /\ mixed' \subseteq mixed \cup {t} /\ contested' \subseteq contested \cup {t}
      BY <3>1 DEF UpdateTask
    <3> QED  BY <1>1, <2>0, <3>2, <3>3 DEF SetsTyped
  <2>14. CASE t = job[h].task /\ CleanTmp(h)
    <3>1. /\ accepted' = accepted /\ contested' = contested /\ shared' = shared
          /\ mixed' = mixed
      BY <2>14 DEF CleanTmp, taskHistory
    <3>2. overtaken' \cup blind' \subseteq Hooks
      BY <2>1, <2>3, <2>14 DEF CleanTmp
    <3> QED  BY <1>1, <3>1, <3>2 DEF SetsTyped
  <2> QED
    BY <1>1, <2>4, <2>5, <2>6, <2>7, <2>8, <2>9, <2>10, <2>11, <2>12, <2>13, <2>14
<1>2. ASSUME SetsTyped, UNCHANGED vars PROVE SetsTyped'
  BY <1>2 DEF SetsTyped, vars, history
<1>3. ASSUME IInv, SetsTyped, Next PROVE SetsTyped'
  <2>1. \A h \in Hooks : job[h].task \in Tasks
    BY <1>3 DEF IInv, TypeInv, Jobs
  <2> QED  BY <1>1, <1>3, <2>1, TasksAssigned DEF Next, WorkOf
<1> QED  BY <1>2, <1>3

\* The types, and who may have a file open: nobody but the hook that is writing,
\* and never the temporary file and the task at once.
THEOREM TypeCorrect == Spec => []TypeOK
<1> DEFINE Opened == \A t \in Tasks : OpenInv(t)
<1>1. Init => Opened /\ SetsTyped
  <2> SUFFICES ASSUME Init PROVE Opened /\ SetsTyped
    OBVIOUS
  <2>1. \A t \in Tasks : file[t].open = {} /\ tmp[t] = NoFile
    BY DEF Init
  <2>2. \A h \in Hooks : h \notin NoFile.open
    BY TasksAssigned DEF NoFile
  <2>3. Opened
    BY <2>1, <2>2 DEF OpenInv
  <2> QED  BY <2>3 DEF Init, SetsTyped
<1>2. IInv /\ RecordInv /\ Opened /\ [Next]_vars => Opened'
  BY NextOpens
<1>3. IInv /\ RecordInv /\ Opened /\ SetsTyped => TypeOK
  <2> SUFFICES ASSUME IInv, RecordInv, Opened, SetsTyped PROVE TypeOK
    OBVIOUS
  <2>1. ASSUME NEW b \in Blobs PROVE b \in {<<>>} \cup [{1} -> Content]
    BY <2>1 DEF Blobs
  <2>2. ASSUME NEW t \in Tasks PROVE file[t] \in Inode /\ tmp[t] \in Inode \cup {NoFile}
    <3>1. file[t] \in Inodes /\ tmp[t] \in Inodes /\ OpenInv(t)
      BY DEF IInv, TypeInv
    <3> QED  BY <2>1, <3>1 DEF Inodes, Inode, OpenInv
  <2>3. \A t \in Tasks : tmp[t] # NoFile => tmp[t].open \cap file[t].open = {}
    BY DEF OpenInv
  <2>4. ASSUME NEW h \in Hooks, pc[h] \in {"open", "write"}
        PROVE  copy[h] \in [{1} -> Content]
    <3>1. copy[h] \in Blobs /\ copy[h] # <<>>
      BY <2>4 DEF IInv, TypeInv, CopyOf
    <3> QED  BY <2>1, <3>1
  <2>5. ASSUME NEW h \in Hooks, pc[h] # "write", NEW t \in Tasks
        PROVE  h \notin file[t].open \cup tmp[t].open
    BY <2>5 DEF OpenInv
  <2>6. \A h \in Hooks : pc[h] \in Steps /\ (pc[h] = "idle" => job[h] = NoJob /\ keys[h] = NoKeys)
    BY DEF IInv, TypeInv, RecordInv, KeysInv, WritingBack
  <2> QED  BY <2>2, <2>3, <2>4, <2>5, <2>6 DEF TypeOK, RecordInv, SetsTyped
<1> QED  BY <1>1, <1>2, <1>3, SetsStayTyped, IInvHolds, RecordInvHolds, PTL DEF Spec

=============================================================================
