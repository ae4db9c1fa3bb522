--------------------------- MODULE SessionReaper ---------------------------
(***************************************************************************)
(* The directories of a project's sessions and the registry of their       *)
(* teammates.  A session that ends removes the directories of the others   *)
(* that have grown old and the registrations of teams that are gone        *)
(* (hooks/session_end.py), while others start (hooks/session_init.py),     *)
(* write their journals, register teammates (hooks/shared/                 *)
(* session_registry.py), and end too.  Nothing is locked against it.       *)
(***************************************************************************)
EXTENDS Integers, FiniteSets, SequencesExt

CONSTANTS
  Sessions,
  Legacy,     \* sessions that an older version had started, see old
  MaxStarts,  \* bound: sessions started, resumed, cleared or compacted
  MaxEvents,  \* bound: journal entries that the reaper tells apart
  MaxTicks,   \* bound: age groups that pass
  MaxFaults,  \* bound: writes that fail or are cut, sessions that die
  MaxRegistrations  \* bound: teammates that register

ASSUME LegacySessions == Legacy \subseteq Sessions

VARIABLES
  run,     \* per session: its process
  dir,     \* per session: its directory
  teams,   \* sessions whose team the platform has a directory for
  registry,\* the lines of .teammate-registry.jsonl: the teammates' session
  reap,    \* per session: the reaper of its end
  starts, events, ticks, faults, registrations, \* counters for the bounds
  owed,    \* history: sessions with a handoff that was not harvested
  paused,  \* history: sessions that were paused or refreshed
  firm,    \* history: sessions whose teammate should be in the registry
  overtaken, \* history: reapers whose victim has changed since they judged it
  late       \* history: the same, since they read its journal

counters == <<starts, events, ticks, faults, registrations>>
history == <<owed, paused, firm, overtaken, late>>
vars == <<run, dir, teams, registry, reap, counters, history>>

\* What the reaper tells apart in a journal.  "cut" is a line without its end.
Entries == {"handoff", "consolidated", "checkpoint", "other", "torn", "cut"}

\* old: the directory has the name the project had for an older version;
\* age: 0, over 30 days, over 180 days since an entry of it changed.
Dir == [there : BOOLEAN, old : BOOLEAN, age : 0..2, context : BOOLEAN,
        journal : Seq(Entries)]
NoDir == [there |-> FALSE, old |-> FALSE, age |-> 0, context |-> FALSE,
          journal |-> <<>>]

Steps == {"off", "next", "read", "remove", "prune", "truncate", "write", "summary"}
Reaper == [step : Steps, todo : SUBSET Sessions, victim : Sessions,
           old : BOOLEAN, kept : Seq(Sessions), context : BOOLEAN]
NoReaper == [step |-> "off", todo |-> {}, victim |-> CHOOSE s \in Sessions : TRUE,
             old |-> FALSE, kept |-> <<>>, context |-> FALSE]

TypeOK ==
  /\ run \in [Sessions -> {"off", "on", "ending"}]
  /\ dir \in [Sessions -> Dir]
  /\ teams \subseteq Sessions /\ registry \in Seq(Sessions)
  /\ reap \in [Sessions -> Reaper]
  /\ \A s \in Sessions :
       /\ dir[s].there \/ dir[s] = NoDir
       /\ run[s] = "ending" <=> reap[s].step # "off"
       /\ reap[s].step \in {"read", "remove"} => reap[s].victim \in reap[s].todo \ {s}
       /\ s \in overtaken \cup late => reap[s].step \in {"read", "remove"}
  /\ owed \cup paused \cup firm \cup overtaken \cup late \subseteq Sessions

\* A session that an older version had started has worked, and may have registered a
\* teammate; its team is gone.
Init ==
  /\ run = [s \in Sessions |-> "off"]
  /\ owed \in SUBSET Legacy
  /\ dir = [s \in Sessions |->
              IF s \in Legacy
              THEN [NoDir EXCEPT !.there = TRUE, !.old = TRUE, !.context = TRUE,
                      !.journal = <<"other">> \o
                         IF s \in owed THEN <<"handoff">> ELSE <<>>]
              ELSE NoDir]
  /\ teams = {} /\ registry \in {<<>>} \cup {<<s>> : s \in Legacy}
  /\ reap = [s \in Sessions |-> NoReaper]
  /\ starts = 0 /\ events = 0 /\ ticks = 0 /\ faults = 0 /\ registrations = 0
  /\ paused = {} /\ firm = {} /\ overtaken = {} /\ late = {}

-----------------------------------------------------------------------------
(* The journal.  Readers skip a line that a write had cut off. *)
Legible(journal) == {i \in DOMAIN journal : journal[i] \notin {"torn", "cut"}}
Damaged(journal) == Legible(journal) # DOMAIN journal
Checkpointed(journal) == Contains(journal, "checkpoint")

\* An entry after a cut line ends that line and is lost in it.  Of the entries
\* that are of no interest one is enough.
Written(journal, entry) ==
  IF journal # <<>> /\ Last(journal) = "cut" THEN Front(journal) \o <<"torn">>
  ELSE IF entry = "other" /\ Legible(journal) # {} THEN journal
  ELSE Append(journal, entry)

\* A handoff that no consolidation follows.
Carries(journal) ==
  \E i \in DOMAIN journal :
    /\ journal[i] = "handoff"
    /\ \A j \in DOMAIN journal : j > i => journal[j] # "consolidated"

\* Mutant: a torn line is an absent event.
SpentAsRead(journal) == ~Carries(journal)

\* _journal_carries_unharvested_handoffs is False, neither True nor None.
Spent(journal) ==
  ~Carries(journal) /\ (Damaged(journal) => Legible(journal) = {})

-----------------------------------------------------------------------------
(* Sessions at work.  The directory of s becomes d. *)
Watching(s, steps) ==
  {r \in Sessions : reap[r].step \in steps /\ reap[r].victim = s}

SetDir(s, d) ==
  /\ dir' = [dir EXCEPT ![s] = d]
  /\ overtaken' = overtaken \cup Watching(s, {"read", "remove"})
  /\ late' = late \cup Watching(s, {"remove"})

Write(s, entry) ==
  SetDir(s, [dir[s] EXCEPT !.there = TRUE, !.journal = Written(@, entry)])

\* Hooks find the directory by the context file in it.
Known(s) == dir[s].there /\ dir[s].context

\* SessionStart: the hook adopts a directory under the old name, and writes
\* the context, which may fail, and the event.  The platform has a team.
SessionStart(s, source, written) ==
  /\ run[s] = IF source = "start" THEN "off" ELSE "on"
  /\ starts < MaxStarts /\ starts' = starts + 1
  /\ written \/ faults < MaxFaults
  /\ faults' = faults + (IF written THEN 0 ELSE 1)
  /\ SetDir(s, [there   |-> TRUE,
                old     |-> FALSE,
                age     |-> IF written THEN 0 ELSE dir[s].age,
                context |-> dir[s].context \/ written,
                journal |-> Written(dir[s].journal, "other")])
  /\ run' = [run EXCEPT ![s] = "on"]
  /\ teams' = teams \cup {s}
  /\ UNCHANGED <<registry, reap, events, ticks, registrations, owed, paused, firm>>

\* Hooks make files in the directory, and the context if it is not there.
Touch(s) ==
  /\ run[s] = "on" /\ ~(Known(s) /\ dir[s].age = 0)
  /\ SetDir(s, [dir[s] EXCEPT !.there = TRUE, !.context = TRUE, !.age = 0])
  /\ UNCHANGED <<run, teams, registry, reap, counters, owed, paused, firm>>

\* Teammates hand off, the secretary harvests, the lead pauses or refreshes; a
\* hook is killed in the middle of a write.
Record(s, entry) ==
  /\ run[s] = "on" /\ Known(s)
  /\ events < MaxEvents /\ events' = events + 1
  /\ entry = "cut" => faults < MaxFaults
  /\ faults' = faults + (IF entry = "cut" THEN 1 ELSE 0)
  /\ Write(s, entry)
  /\ owed' = IF entry = "handoff" THEN owed \cup {s}
             ELSE IF entry = "consolidated" THEN owed \ {s} ELSE owed
  /\ paused' = IF entry = "checkpoint" THEN paused \cup {s} ELSE paused
  /\ UNCHANGED <<run, teams, registry, reap, starts, ticks, registrations, firm>>

Pruning == {r \in Sessions : reap[r].step \in {"truncate", "write"}}

\* A teammate appends its line in one write.
Register(s) ==
  /\ run[s] = "on" /\ s \in teams
  /\ registrations < MaxRegistrations /\ registrations' = registrations + 1
  /\ registry' = Append(registry, s)
  /\ firm' = IF Pruning = {} THEN firm \cup {s} ELSE firm
  /\ UNCHANGED <<run, dir, teams, reap, starts, events, ticks, faults,
                 owed, paused, overtaken, late>>

\* The platform tears down the team of a session that has ended.
TearDown(s) ==
  /\ run[s] = "off" /\ s \in teams
  /\ teams' = teams \ {s} /\ firm' = firm \ {s}
  /\ UNCHANGED <<run, dir, registry, reap, counters, owed, paused, overtaken, late>>

Tick ==
  /\ ticks < MaxTicks /\ ticks' = ticks + 1
  /\ dir' = [s \in Sessions |->
               IF dir[s].there /\ dir[s].age < 2
               THEN [dir[s] EXCEPT !.age = @ + 1] ELSE dir[s]]
  /\ UNCHANGED <<run, teams, registry, reap, starts, events, faults,
                 registrations, history>>

-----------------------------------------------------------------------------
\* Mutant: the session's own directory is not skipped.
SessionEndOwnToo(s) ==
  /\ run[s] = "on"
  /\ run' = [run EXCEPT ![s] = "ending"]
  /\ IF Known(s)
     THEN /\ reap' = [reap EXCEPT ![s].step = "next", ![s].context = TRUE,
                                  ![s].todo = Sessions]
          /\ Write(s, "other")
     ELSE /\ reap' = [reap EXCEPT ![s].step = "prune"]
          /\ UNCHANGED <<dir, overtaken, late>>
  /\ UNCHANGED <<teams, registry, counters, owed, paused, firm>>

(* SessionEnd: the event, one directory after the other, the registry, the
   summary.  Without a context there is no directory that is known to be its own,
   and no journal. *)
SessionEnd(s) ==
  /\ run[s] = "on"
  /\ run' = [run EXCEPT ![s] = "ending"]
  /\ IF Known(s)
     THEN /\ reap' = [reap EXCEPT ![s].step = "next", ![s].context = TRUE,
                                  ![s].todo = Sessions \ {s}]
          /\ Write(s, "other")
     ELSE /\ reap' = [reap EXCEPT ![s].step = "prune"]
          /\ UNCHANGED <<dir, overtaken, late>>
  /\ UNCHANGED <<teams, registry, counters, owed, paused, firm>>

ReapOnly ==
  UNCHANGED <<run, teams, counters>>

NextEntry(r, v) ==
  /\ reap' = [reap EXCEPT ![r].step = "next", ![r].todo = @ \ {v},
                          ![r].victim = NoReaper.victim, ![r].old = FALSE]
  /\ overtaken' = overtaken \ {r}
  /\ late' = late \ {r}

\* Mutant: a checkpoint earns no longer time.
OldEnoughForAny(v) == dir[v].age > 0

OldEnough(v) == dir[v].age > (IF Checkpointed(dir[v].journal) THEN 1 ELSE 0)

Judge(r, v) ==
  /\ reap[r].step = "next" /\ v \in reap[r].todo
  /\ IF dir[v].there /\ OldEnough(v)
     THEN /\ reap' = [reap EXCEPT ![r].step = "read", ![r].victim = v,
                                  ![r].old = dir[v].old]
          /\ UNCHANGED <<overtaken, late>>
     ELSE NextEntry(r, v)
  /\ ReapOnly /\ UNCHANGED <<dir, registry, owed, paused, firm>>

\* The directory is still where the reaper found it.
InPlace(r) ==
  dir[reap[r].victim].there /\ dir[reap[r].victim].old = reap[r].old

ReadJournal(r) ==
  /\ reap[r].step = "read"
  /\ IF InPlace(r) => Spent(dir[reap[r].victim].journal)
     THEN /\ reap' = [reap EXCEPT ![r].step = "remove"]
          /\ UNCHANGED <<overtaken, late>>
     ELSE NextEntry(r, reap[r].victim)
  /\ ReapOnly /\ UNCHANGED <<dir, registry, owed, paused, firm>>

\* Others that are about to remove it find nothing.
RemoveTree(r) ==
  /\ reap[r].step = "remove"
  /\ IF InPlace(r)
     THEN /\ dir' = [dir EXCEPT ![reap[r].victim] = NoDir]
          /\ owed' = owed \ {reap[r].victim}
          /\ paused' = paused \ {reap[r].victim}
     ELSE UNCHANGED <<dir, owed, paused>>
  /\ NextEntry(r, reap[r].victim)
  /\ ReapOnly /\ UNCHANGED <<registry, firm>>

\* Mutant: a line is kept while its session is at work.
AliveAtWork(s) == s \in teams /\ run[s] = "on"

Alive(s) == s \in teams

\* The lines that are left of the registry, in order.
LeftOf(lines, kept) ==
  LET alive == {i \in DOMAIN lines : Alive(lines[i])}
  IN \E at \in [DOMAIN kept -> alive] :
       /\ \A i \in alive : \E j \in DOMAIN kept : at[j] = i
       /\ \A i, j \in DOMAIN kept : i < j => at[i] < at[j]
       /\ \A j \in DOMAIN kept : kept[j] = lines[at[j]]

\* The registry is read; what is left of it will replace it, in place.  Another
\* reaper may just have emptied it: then live teammates are not in it.
PruneRead(r) ==
  /\ \/ reap[r].step = "prune"
     \/ reap[r].step = "next" /\ reap[r].todo = {}
  /\ IF \A i \in DOMAIN registry : Alive(registry[i])
     THEN /\ reap' = [reap EXCEPT ![r].step = "summary"]
          /\ firm' = firm
     ELSE /\ \E kept \in SeqOf(ToSet(registry), Len(registry)) :
               /\ LeftOf(registry, kept)
               /\ reap' = [reap EXCEPT ![r].step = "truncate", ![r].kept = kept]
          /\ firm' = IF \E q \in Sessions : reap[q].step = "write"
                     THEN {s \in firm : Contains(registry, s)} ELSE firm
  /\ ReapOnly /\ UNCHANGED <<dir, registry, owed, paused, overtaken, late>>

PruneTruncate(r) ==
  /\ reap[r].step = "truncate"
  /\ registry' = <<>>
  /\ reap' = [reap EXCEPT ![r].step = "write"]
  /\ ReapOnly /\ UNCHANGED <<dir, history>>

\* The write begins at the start of the file, over what was put there since.
\* The lines are of different lengths: the first one that it does not cover may
\* be cut into.
Over(lines, there) ==
  LET beyond == SubSeq(there, Len(lines) + 1, Len(there))
  IN {lines \o beyond} \cup (IF beyond = <<>> THEN {} ELSE {lines \o Tail(beyond)})

PruneWrite(r) ==
  /\ reap[r].step = "write"
  /\ registry' \in Over(reap[r].kept, registry)
  /\ reap' = [reap EXCEPT ![r].step = "summary", ![r].kept = <<>>]
  /\ ReapOnly /\ UNCHANGED <<dir, history>>

\* The file cannot be opened, which leaves it as it is, or not be written, once it
\* was emptied: at most the first lines get there.  The reaper goes on.
PruneFails(r) ==
  /\ faults < MaxFaults /\ faults' = faults + 1
  /\ \/ reap[r].step = "truncate" /\ UNCHANGED <<registry, firm>>
     \/ /\ reap[r].step = "write" /\ firm' = {}
        /\ \E n \in 0..Len(reap[r].kept) :
             registry' \in Over(SubSeq(reap[r].kept, 1, n), registry)
  /\ reap' = [reap EXCEPT ![r].step = "summary", ![r].kept = <<>>]
  /\ UNCHANGED <<run, dir, teams, starts, events, ticks, registrations,
                 owed, paused, overtaken, late>>

\* The summary goes to the journal of the session: if another reaper has
\* removed the directory, it comes back without a context.
Summary(r) ==
  /\ reap[r].step = "summary"
  /\ run' = [run EXCEPT ![r] = "off"]
  /\ reap' = [reap EXCEPT ![r] = NoReaper]
  /\ IF reap[r].context THEN Write(r, "other") ELSE UNCHANGED <<dir, overtaken, late>>
  /\ UNCHANGED <<teams, registry, counters, owed, paused, firm>>

\* The process of a session dies, at work or while it reaps; between the two
\* writes to the registry it leaves that empty.
Die(s) ==
  /\ run[s] # "off"
  /\ faults < MaxFaults /\ faults' = faults + 1
  /\ run' = [run EXCEPT ![s] = "off"]
  /\ reap' = [reap EXCEPT ![s] = NoReaper]
  /\ overtaken' = overtaken \ {s} /\ late' = late \ {s}
  /\ firm' = IF reap[s].step = "write" THEN {} ELSE firm
  /\ UNCHANGED <<dir, teams, registry, starts, events, ticks, registrations,
                 owed, paused>>

Next ==
  \/ Tick
  \/ \E s \in Sessions :
       \/ \E source \in {"start", "clear"}, written \in BOOLEAN :
            SessionStart(s, source, written)
       \/ Touch(s) \/ Register(s) \/ TearDown(s)
       \/ \E entry \in {"handoff", "consolidated", "checkpoint", "cut"} : Record(s, entry)
       \/ SessionEnd(s)
       \/ \E v \in Sessions : Judge(s, v)
       \/ ReadJournal(s) \/ RemoveTree(s)
       \/ PruneRead(s) \/ PruneTruncate(s) \/ PruneWrite(s) \/ PruneFails(s)
       \/ Summary(s) \/ Die(s)

Spec == Init /\ [][Next]_vars

-----------------------------------------------------------------------------
Removes(r) ==
  /\ reap[r].step = "remove" /\ reap'[r].step = "next"
  /\ dir[reap[r].victim].there /\ ~dir'[reap[r].victim].there

\* A directory is removed with a handoff in it that nobody has harvested only if
\* something was written to it after the reaper had read its journal, or no
\* line of the journal can be read; a damaged journal is kept.
HandoffsKept ==
  [][\A r \in Sessions :
       (Removes(r) /\ r \notin late /\ Legible(dir[reap[r].victim].journal) # {})
          => reap[r].victim \notin owed]_vars

\* A session that was paused or refreshed keeps its directory for 180 days and
\* every other one for 30, unless it changed after the reaper had judged it,
\* wherever its checkpoint ended up in the journal.
LifetimesKept ==
  [][\A r \in Sessions :
       (Removes(r) /\ r \notin overtaken /\ Legible(dir[reap[r].victim].journal) # {})
          => dir[reap[r].victim].age > (IF reap[r].victim \in paused THEN 1 ELSE 0)]_vars

\* A teammate whose team is there stays in the registry, however many sessions
\* prune it at once, unless it registered between the reading and the writing of
\* a prune, a prune read what another had emptied, or a prune died or failed
\* after it had emptied the registry.
RegistrationsKept ==
  (\A r \in Sessions : reap[r].step # "write") =>
    \A s \in firm : Contains(registry, s)

\* What the code says of a prune that fails, "leave as-is", and does not hold: it
\* leaves the teammates that were registered.
FailureLeavesAsIs ==
  [][\A r \in Sessions :
       (PruneFails(r) /\ \A q \in Sessions \ {r} : reap[q].step # "write")
          => \A s \in firm : Contains(registry', s)]_vars

=============================================================================
