--------------------------- MODULE SessionProofs ---------------------------
(***************************************************************************)
(* The life of a session, for any sessions, directories and teammates:     *)
(* what the reaper of a session that ends may remove and what the prune of *)
(* the registry keeps (SessionReaper), and what the bootstrap gate lets    *)
(* through (Bootstrap).                                                    *)
(***************************************************************************)
EXTENDS SessionReaper, TLAPS

\* An owed handoff is in the journal, or the journal is damaged; and so is the
\* checkpoint of a session that was paused.
OwedInv == \A s \in owed : Carries(dir[s].journal) \/ Damaged(dir[s].journal)
PausedInv == \A s \in paused : Checkpointed(dir[s].journal) \/ Damaged(dir[s].journal)

\* A reaper does not look at the directory of its own session.
OwnInv == \A s \in Sessions : s \notin reap[s].todo

\* What a reaper has seen is still so, unless the directory has changed.
JudgedInv ==
  \A r \in Sessions :
    (reap[r].step \in {"read", "remove"} /\ r \notin overtaken /\ InPlace(r))
       => OldEnough(reap[r].victim)
ReadInv ==
  \A r \in Sessions :
    (reap[r].step = "remove" /\ r \notin late /\ InPlace(r))
       => Spent(dir[reap[r].victim].journal)

\* What a prune will write has every firm registration.
PruneInv ==
  /\ firm \subseteq teams
  /\ \A r \in Pruning : firm \subseteq ToSet(reap[r].kept)
  /\ RegistrationsKept

IInv == TypeOK /\ OwnInv /\ OwedInv /\ PausedInv /\ JudgedInv /\ ReadInv /\ PruneInv

-----------------------------------------------------------------------------
(* The journal. *)

LEMMA WrittenCases ==
  ASSUME NEW journal \in Seq(Entries), NEW entry \in Entries,
         NEW new, new = Written(journal, entry)
  PROVE  /\ new \in Seq(Entries)
         /\ \/ Damaged(new)
            \/ new = journal /\ entry = "other"
            \/ new = Append(journal, entry)
<1>1. CASE journal # <<>> /\ Last(journal) = "cut"
  <2>1. PICK n \in Nat : n = Len(journal) /\ n > 0
    BY <1>1
  <2>2. PICK front : front = SubSeq(journal, 1, n - 1)
    OBVIOUS
  <2>3. front \in Seq(Entries) /\ Len(front) = n - 1
    BY <2>1, <2>2
  <2>4. "torn" \in Entries
    BY DEF Entries
  <2>5. new = front \o <<"torn">>
    BY <1>1, <2>1, <2>2 DEF Written, Front
  <2>6. new \in Seq(Entries) /\ Len(new) = n /\ new[n] = "torn"
    BY <2>1, <2>3, <2>4, <2>5
  <2>7. n \in DOMAIN new
    BY <2>1, <2>6
  <2> QED
    BY <2>6, <2>7 DEF Damaged, Legible
<1>2. CASE ~(journal # <<>> /\ Last(journal) = "cut")
  BY <1>2 DEF Written
<1> QED
  BY <1>1, <1>2

\* A handoff goes only with a consolidation, or is lost to a damaged line.
LEMMA WrittenCarries ==
  ASSUME NEW journal \in Seq(Entries), NEW entry \in Entries, entry # "consolidated",
         Carries(journal) \/ Damaged(journal) \/ entry = "handoff",
         NEW new, new = Written(journal, entry)
  PROVE  Carries(new) \/ Damaged(new)
<1>1. CASE new = Append(journal, entry)
  <2>1. PICK n \in Nat : n = Len(journal)
    OBVIOUS
  <2>2. /\ DOMAIN journal = 1..n /\ DOMAIN new = 1..(n + 1)
        /\ new[n + 1] = entry /\ \A i \in 1..n : new[i] = journal[i]
    BY <1>1, <2>1
  <2>3. ASSUME Carries(journal) PROVE Carries(new)
    <3>1. PICK i \in 1..n : /\ journal[i] = "handoff"
                            /\ \A j \in 1..n : j > i => journal[j] # "consolidated"
      BY <2>2, <2>3 DEF Carries
    <3>2. i \in 1..(n + 1) /\ new[i] = "handoff"
      BY <2>2, <3>1
    <3>3. \A j \in 1..(n + 1) : j \in 1..n \/ j = n + 1
      OBVIOUS
    <3>4. \A j \in 1..(n + 1) : j > i => new[j] # "consolidated"
      BY <2>2, <3>1, <3>3
    <3> QED
      BY <2>2, <3>2, <3>4 DEF Carries
  <2>4. ASSUME Damaged(journal) PROVE Damaged(new)
    <3>1. PICK i \in 1..n : journal[i] \in {"torn", "cut"}
      BY <2>2, <2>4 DEF Damaged, Legible
    <3>2. i \in 1..(n + 1) /\ new[i] \in {"torn", "cut"}
      BY <2>2, <3>1
    <3> QED
      BY <2>2, <3>2 DEF Damaged, Legible
  <2>5. ASSUME entry = "handoff" PROVE Carries(new)
    <3>1. n + 1 \in 1..(n + 1) /\ \A j \in 1..(n + 1) : ~(j > n + 1)
      OBVIOUS
    <3> QED
      BY <2>2, <2>5, <3>1 DEF Carries
  <2> QED
    BY <2>3, <2>4, <2>5
<1>2. CASE new = journal /\ entry = "other"
  BY <1>2
<1>3. CASE Damaged(new)
  BY <1>3
<1> QED
  BY <1>1, <1>2, <1>3, WrittenCases

\* And so with a checkpoint, which nothing removes.
LEMMA WrittenCheckpoint ==
  ASSUME NEW journal \in Seq(Entries), NEW entry \in Entries,
         Checkpointed(journal) \/ Damaged(journal) \/ entry = "checkpoint",
         NEW new, new = Written(journal, entry)
  PROVE  Checkpointed(new) \/ Damaged(new)
<1>1. CASE new = Append(journal, entry)
  <2>1. PICK n \in Nat : n = Len(journal)
    OBVIOUS
  <2>2. /\ DOMAIN journal = 1..n /\ DOMAIN new = 1..(n + 1) /\ Len(new) = n + 1
        /\ new[n + 1] = entry /\ \A i \in 1..n : new[i] = journal[i]
    BY <1>1, <2>1
  <2>3. ASSUME Checkpointed(journal) PROVE Checkpointed(new)
    <3>1. PICK i \in 1..n : journal[i] = "checkpoint"
      BY <2>1, <2>3 DEF Checkpointed, Contains
    <3>2. i \in 1..(n + 1) /\ new[i] = "checkpoint"
      BY <2>2, <3>1
    <3> QED
      BY <2>2, <3>2 DEF Checkpointed, Contains
  <2>4. ASSUME Damaged(journal) PROVE Damaged(new)
    <3>1. PICK i \in 1..n : journal[i] \in {"torn", "cut"}
      BY <2>2, <2>4 DEF Damaged, Legible
    <3>2. i \in 1..(n + 1) /\ new[i] \in {"torn", "cut"}
      BY <2>2, <3>1
    <3> QED
      BY <2>2, <3>2 DEF Damaged, Legible
  <2>5. ASSUME entry = "checkpoint" PROVE Checkpointed(new)
    <3>1. n + 1 \in 1..(n + 1)
      OBVIOUS
    <3> QED
      BY <2>2, <2>5, <3>1 DEF Checkpointed, Contains
  <2> QED
    BY <2>3, <2>4, <2>5
<1>2. CASE new = journal /\ entry = "other"
  BY <1>2
<1>3. CASE Damaged(new)
  BY <1>3
<1> QED
  BY <1>1, <1>2, <1>3, WrittenCases

-----------------------------------------------------------------------------
(* What a step leaves of the invariant. *)

\* A reaper that looks at a directory: what it has seen holds on when that ages,
\* or goes.
LEMMA LooksStay ==
  ASSUME JudgedInv, ReadInv, \A s \in Sessions : dir[s].age \in Nat /\ dir'[s].age \in Nat,
         \A r \in Sessions :
           reap'[r].step \in {"read", "remove"} =>
             reap'[r] = reap[r] /\ reap[r].victim \in Sessions,
         \A s \in Sessions :
           \/ /\ dir'[s].there = dir[s].there /\ dir'[s].old = dir[s].old
              /\ dir'[s].journal = dir[s].journal /\ dir'[s].age >= dir[s].age
           \/ ~dir'[s].there
           \/ \A r \in Sessions :
                reap'[r].step \in {"read", "remove"} /\ reap'[r].victim = s =>
                  r \in overtaken' /\ (reap'[r].step = "remove" => r \in late'),
         \A r \in Sessions :
           reap'[r].step \in {"read", "remove"} =>
             (r \in overtaken => r \in overtaken') /\ (r \in late => r \in late')
  PROVE  JudgedInv' /\ ReadInv'
<1>1. ASSUME NEW r \in Sessions, reap'[r].step \in {"read", "remove"}, r \notin overtaken',
             InPlace(r)'
      PROVE  OldEnough(reap[r].victim)'
  <2>1. reap'[r] = reap[r] /\ r \notin overtaken
    BY <1>1
  <2>2. PICK s \in Sessions : s = reap[r].victim
    BY <1>1
  <2>3. dir'[s].there /\ dir'[s].old = reap[r].old
    BY <1>1, <2>1, <2>2 DEF InPlace
  <2>4. /\ dir'[s].there = dir[s].there /\ dir'[s].old = dir[s].old
        /\ dir'[s].journal = dir[s].journal /\ dir'[s].age >= dir[s].age
    BY <1>1, <2>1, <2>2, <2>3
  <2>5. OldEnough(s)
    BY <1>1, <2>1, <2>2, <2>3, <2>4 DEF JudgedInv, InPlace
  <2>6. PICK age \in Nat, younger \in Nat : age = dir'[s].age /\ younger = dir[s].age
    OBVIOUS
  <2>7. OldEnough(s)'
    BY <2>4, <2>5, <2>6 DEF OldEnough, Checkpointed
  <2> QED
    BY <2>1, <2>2, <2>7
<1>2. ASSUME NEW r \in Sessions, reap'[r].step = "remove", r \notin late', InPlace(r)'
      PROVE  Spent(dir[reap[r].victim].journal)'
  <2>1. reap'[r] = reap[r] /\ r \notin late
    BY <1>2
  <2>2. PICK s \in Sessions : s = reap[r].victim
    BY <1>2
  <2>3. dir'[s].there /\ dir'[s].old = reap[r].old
    BY <1>2, <2>1, <2>2 DEF InPlace
  <2>4. /\ dir'[s].there = dir[s].there /\ dir'[s].old = dir[s].old
        /\ dir'[s].journal = dir[s].journal
    BY <1>2, <2>1, <2>2, <2>3
  <2>5. Spent(dir[s].journal)
    BY <1>2, <2>1, <2>2, <2>3, <2>4 DEF ReadInv, InPlace
  <2> QED
    BY <2>1, <2>2, <2>4, <2>5
<1> QED
  BY <1>1, <1>2 DEF JudgedInv, ReadInv

\* Only the prunes themselves, Register and TearDown concern the registry.
LEMMA PrunesStay ==
  ASSUME PruneInv, UNCHANGED <<registry, firm>>, teams \subseteq teams',
         \A r \in Sessions :
            \/ reap'[r].step \notin {"truncate", "write"} /\ reap[r].step # "write"
            \/ reap'[r].step = reap[r].step /\ reap'[r].kept = reap[r].kept
  PROVE  PruneInv'
BY DEF PruneInv, RegistrationsKept, Pruning

\* A session's directory that is written to, or made.
LEMMA SetDirStep ==
  ASSUME TypeOK, JudgedInv, ReadInv, NEW s \in Sessions, NEW d \in Dir, d.there, SetDir(s, d),
         \A r \in Sessions :
           reap'[r].step \in {"read", "remove"} => reap'[r] = reap[r]
  PROVE  /\ dir' \in [Sessions -> Dir]
         /\ \A q \in Sessions : dir'[q].there \/ dir'[q] = NoDir
         /\ \A q \in Sessions : dir'[q] = (IF q = s THEN d ELSE dir[q])
         /\ overtaken' \cup late' \subseteq Sessions
         /\ \A r \in Sessions : r \in overtaken' \cup late' =>
              r \in overtaken \cup late \/ reap[r].step \in {"read", "remove"}
         /\ JudgedInv' /\ ReadInv'
<1>1. /\ dir' = [dir EXCEPT ![s] = d]
      /\ overtaken' = overtaken \cup Watching(s, {"read", "remove"})
      /\ late' = late \cup Watching(s, {"remove"})
  BY DEF SetDir
<1>2. dir \in [Sessions -> Dir] /\ \A q \in Sessions : dir[q].there \/ dir[q] = NoDir
  BY DEF TypeOK
<1>3. \A q \in Sessions : dir'[q] = (IF q = s THEN d ELSE dir[q])
  BY <1>1, <1>2
<1>4. dir' \in [Sessions -> Dir] /\ \A q \in Sessions : dir'[q].there \/ dir'[q] = NoDir
  <2>1. \A q \in Sessions : dir[q] \in Dir
    BY <1>2
  <2>2. \A q \in Sessions : dir'[q] \in Dir
    BY <1>3, <2>1
  <2>3. dir' \in [Sessions -> Dir]
    BY <1>1, <1>2, <2>2
  <2>4. \A q \in Sessions : dir'[q].there \/ dir'[q] = NoDir
    <3> SUFFICES ASSUME NEW q \in Sessions PROVE dir'[q].there \/ dir'[q] = NoDir
      OBVIOUS
    <3>1. CASE q = s
      BY <1>3, <3>1
    <3>2. CASE q # s
      <4>1. dir'[q] = dir[q]
        BY <1>3, <3>2
      <4> QED
        BY <1>2, <4>1
    <3> QED
      BY <3>1, <3>2
  <2> QED
    BY <2>3, <2>4
<1>5. \A q \in Sessions : dir[q].age \in Nat /\ dir'[q].age \in Nat
  <2>1. \A q \in Sessions : dir[q] \in Dir /\ dir'[q] \in Dir
    BY <1>2, <1>4
  <2>2. \A d1 \in Dir : d1.age \in Nat
    BY DEF Dir
  <2> QED
    BY <2>1, <2>2
<1>6. \A r \in Sessions :
           reap'[r].step \in {"read", "remove"} =>
             reap'[r] = reap[r] /\ reap[r].victim \in Sessions
  BY DEF TypeOK, Reaper
<1>7. \A r \in Sessions :
           reap'[r].step \in {"read", "remove"} =>
             (r \in overtaken => r \in overtaken') /\ (r \in late => r \in late')
  BY <1>1
<1>8. \A q \in Sessions :
           \/ /\ dir'[q].there = dir[q].there /\ dir'[q].old = dir[q].old
              /\ dir'[q].journal = dir[q].journal /\ dir'[q].age >= dir[q].age
           \/ ~dir'[q].there
           \/ \A r \in Sessions :
                reap'[r].step \in {"read", "remove"} /\ reap'[r].victim = q =>
                  r \in overtaken' /\ (reap'[r].step = "remove" => r \in late')
  <2> SUFFICES ASSUME NEW q \in Sessions
               PROVE  \/ /\ dir'[q].there = dir[q].there /\ dir'[q].old = dir[q].old
                         /\ dir'[q].journal = dir[q].journal /\ dir'[q].age >= dir[q].age
                      \/ \A r \in Sessions :
                           reap'[r].step \in {"read", "remove"} /\ reap'[r].victim = q =>
                             r \in overtaken' /\ (reap'[r].step = "remove" => r \in late')
    OBVIOUS
  <2>1. CASE q = s
    BY <1>1, <1>6, <2>1 DEF Watching
  <2>2. CASE q # s
    <3>1. dir'[q] = dir[q]
      BY <1>3, <2>2
    <3>2. PICK age \in Nat : age = dir[q].age
      BY <1>5
    <3> QED
      BY <3>1, <3>2
  <2> QED
    BY <2>1, <2>2
<1>9. JudgedInv' /\ ReadInv'
  BY <1>5, <1>6, <1>7, <1>8, LooksStay
<1>10. overtaken \cup late \subseteq Sessions
  BY DEF TypeOK
<1> QED
  BY <1>1, <1>3, <1>4, <1>9, <1>10 DEF Watching

\* And one line more in its journal.
LEMMA WroteStep ==
  ASSUME TypeOK, OwedInv, PausedInv, NEW s \in Sessions, NEW d \in Dir,
         NEW entry \in Entries, d.journal = Written(dir[s].journal, entry),
         \A q \in Sessions : dir'[q] = (IF q = s THEN d ELSE dir[q]),
         owed' \cup paused' \subseteq Sessions,
         \A q \in owed' : /\ q \in owed \/ (q = s /\ entry = "handoff")
                          /\ q = s => entry # "consolidated",
         \A q \in paused' : q \in paused \/ (q = s /\ entry = "checkpoint")
  PROVE  OwedInv' /\ PausedInv'
<1>1. dir[s].journal \in Seq(Entries)
  <2>1. dir[s] \in Dir
    BY DEF TypeOK
  <2> QED
    BY <2>1 DEF Dir
<1>2. PICK journal \in Seq(Entries) : journal = dir[s].journal
  BY <1>1
<1>3. PICK new : new = Written(journal, entry) /\ new = d.journal
  BY <1>2
<1>4. ASSUME NEW q \in owed' PROVE Carries(dir'[q].journal) \/ Damaged(dir'[q].journal)
  <2>1. CASE q = s
    <3>1. Carries(journal) \/ Damaged(journal) \/ entry = "handoff"
      BY <1>2, <1>4, <2>1 DEF OwedInv
    <3>2. entry # "consolidated"
      BY <1>4, <2>1
    <3>3. Carries(new) \/ Damaged(new)
      BY <1>3, <3>1, <3>2, WrittenCarries
    <3> QED
      BY <1>3, <2>1, <3>3
  <2>2. CASE q # s
    <3>1. q \in Sessions /\ q \in owed
      BY <1>4, <2>2
    <3>2. dir'[q] = dir[q]
      BY <2>2, <3>1
    <3> QED
      BY <3>1, <3>2 DEF OwedInv
  <2> QED
    BY <2>1, <2>2
<1>5. ASSUME NEW q \in paused'
      PROVE  Checkpointed(dir'[q].journal) \/ Damaged(dir'[q].journal)
  <2>1. CASE q = s
    <3>1. Checkpointed(journal) \/ Damaged(journal) \/ entry = "checkpoint"
      BY <1>2, <1>5, <2>1 DEF PausedInv
    <3>2. Checkpointed(new) \/ Damaged(new)
      BY <1>3, <3>1, WrittenCheckpoint
    <3> QED
      BY <1>3, <2>1, <3>2
  <2>2. CASE q # s
    <3>1. q \in Sessions /\ q \in paused
      BY <1>5, <2>2
    <3>2. dir'[q] = dir[q]
      BY <2>2, <3>1
    <3> QED
      BY <3>1, <3>2 DEF PausedInv
  <2> QED
    BY <2>1, <2>2
<1> QED
  BY <1>4, <1>5 DEF OwedInv, PausedInv

LEMMA ReapAt ==
  ASSUME reap \in [Sessions -> Reaper], NEW r \in Sessions, NEW new \in Reaper,
         reap' = [reap EXCEPT ![r] = new]
  PROVE  /\ reap' \in [Sessions -> Reaper]
         /\ \A q \in Sessions : reap'[q] = (IF q = r THEN new ELSE reap[q])
OBVIOUS

LEMMA NoReaperType ==
  ASSUME NEW r \in Sessions
  PROVE  /\ NoReaper \in Reaper /\ NoReaper.step = "off" /\ NoReaper.victim \in Sessions
<1>1. PICK victim \in Sessions : victim = CHOOSE s \in Sessions : TRUE
  OBVIOUS
<1>2. NoReaper = [step |-> "off", todo |-> {}, victim |-> victim,
                  old |-> FALSE, kept |-> <<>>, context |-> FALSE]
  BY <1>1 DEF NoReaper
<1>3. <<>> \in Seq(Sessions)
  OBVIOUS
<1> QED
  BY <1>1, <1>2, <1>3 DEF Reaper, Steps

\* The reaper goes on to the next directory.
LEMMA Advanced ==
  ASSUME TypeOK, NEW r \in Sessions, NEW v \in Sessions, NextEntry(r, v),
         reap[r].step \in {"next", "read", "remove"}
  PROVE  /\ reap' \in [Sessions -> Reaper]
         /\ reap'[r].step = "next" /\ reap'[r].kept = reap[r].kept
         /\ \A q \in Sessions : q # r => reap'[q] = reap[q]
         /\ overtaken' = overtaken \ {r} /\ late' = late \ {r}
<1>1. reap \in [Sessions -> Reaper] /\ reap[r] \in Reaper
  BY DEF TypeOK
<1>2. NoReaper.victim \in Sessions
  BY NoReaperType
<1>3. PICK new : new = [reap[r] EXCEPT !.step = "next", !.todo = @ \ {v},
                                       !.victim = NoReaper.victim, !.old = FALSE]
  OBVIOUS
<1>4. new \in Reaper /\ new.step = "next" /\ new.kept = reap[r].kept
  BY <1>1, <1>2, <1>3 DEF Reaper, Steps
<1>5. reap' = [reap EXCEPT ![r] = new]
  BY <1>1, <1>3 DEF NextEntry, Reaper
<1>6. /\ reap' \in [Sessions -> Reaper]
      /\ \A q \in Sessions : reap'[q] = (IF q = r THEN new ELSE reap[q])
  BY <1>1, <1>4, <1>5, ReapAt
<1> QED
  BY <1>4, <1>6 DEF NextEntry

-----------------------------------------------------------------------------
(* Sessions at work. *)

LEMMA TickStep ==
  ASSUME IInv, Tick
  PROVE  IInv'
<1>1. /\ dir \in [Sessions -> Dir] /\ TypeOK
      /\ \A s \in Sessions : dir[s] \in Dir /\ (dir[s].there \/ dir[s] = NoDir)
  BY DEF IInv, TypeOK
<1>2. \A s \in Sessions :
        /\ dir'[s] \in Dir /\ (dir'[s].there \/ dir'[s] = NoDir)
        /\ dir'[s].there = dir[s].there /\ dir'[s].old = dir[s].old
        /\ dir'[s].journal = dir[s].journal
        /\ dir[s].age \in Nat /\ dir'[s].age \in Nat /\ dir'[s].age >= dir[s].age
  <2> SUFFICES ASSUME NEW s \in Sessions
      PROVE  /\ dir'[s] \in Dir /\ (dir'[s].there \/ dir'[s] = NoDir)
             /\ dir'[s].there = dir[s].there /\ dir'[s].old = dir[s].old
             /\ dir'[s].journal = dir[s].journal
             /\ dir[s].age \in Nat /\ dir'[s].age \in Nat /\ dir'[s].age >= dir[s].age
    OBVIOUS
  <2>1. PICK d \in Dir : d = dir[s]
    BY <1>1
  <2>2. PICK age \in 0..2 : age = d.age
    BY DEF Dir
  <2>3. PICK e : e = (IF d.there /\ d.age < 2 THEN [d EXCEPT !.age = @ + 1] ELSE d)
    OBVIOUS
  <2>4. dir'[s] = e
    BY <1>1, <2>1, <2>3 DEF Tick
  <2>5. /\ e \in Dir /\ e.there = d.there /\ e.old = d.old /\ e.journal = d.journal
        /\ e.age \in Nat /\ e.age >= age
    BY <2>2, <2>3 DEF Dir
  <2>6. e.there \/ e = NoDir
    BY <1>1, <2>1, <2>3
  <2> QED
    BY <2>1, <2>2, <2>4, <2>5, <2>6
<1>3. dir' \in [Sessions -> Dir]
  BY <1>2 DEF Tick
<1>4. /\ UNCHANGED <<run, teams, registry, reap, owed, paused, firm, overtaken, late>>
  BY DEF Tick, history
<1>5. TypeOK' /\ OwnInv'
  BY <1>1, <1>2, <1>3, <1>4 DEF TypeOK, IInv, OwnInv
<1>6. OwedInv' /\ PausedInv'
  BY <1>1, <1>2, <1>4 DEF IInv, TypeOK, OwedInv, PausedInv
<1>7. \A r \in Sessions : reap'[r] = reap[r] /\ reap[r].victim \in Sessions
  BY <1>1, <1>4 DEF TypeOK, Reaper
<1>8. JudgedInv' /\ ReadInv'
  BY <1>2, <1>4, <1>7, LooksStay DEF IInv
<1>9. PruneInv'
  BY <1>4, <1>7, PrunesStay DEF IInv
<1> QED
  BY <1>5, <1>6, <1>8, <1>9 DEF IInv

LEMMA SessionStartStep ==
  ASSUME IInv, NEW s \in Sessions, NEW source \in {"start", "clear"},
         NEW written \in BOOLEAN, SessionStart(s, source, written)
  PROVE  IInv'
<1>1. TypeOK /\ dir[s] \in Dir
  BY DEF IInv, TypeOK
<1>2. dir[s].journal \in Seq(Entries) /\ "other" \in Entries
  BY <1>1 DEF Dir, Entries
<1>3. PICK journal : journal = Written(dir[s].journal, "other")
  OBVIOUS
<1>4. journal \in Seq(Entries)
  BY <1>2, <1>3, WrittenCases
<1>5. PICK d : d = [there   |-> TRUE,
                    old     |-> FALSE,
                    age     |-> IF written THEN 0 ELSE dir[s].age,
                    context |-> dir[s].context \/ written,
                    journal |-> journal]
  OBVIOUS
<1>6. d \in Dir /\ d.there /\ d.journal = journal
  <2>1. (IF written THEN 0 ELSE dir[s].age) \in 0..2
    BY <1>1 DEF Dir
  <2>2. (dir[s].context \/ written) \in BOOLEAN
    OBVIOUS
  <2> QED
    BY <1>4, <1>5, <2>1, <2>2 DEF Dir
<1>7. /\ SetDir(s, d) /\ run[s] \in {"off", "on"} /\ run' = [run EXCEPT ![s] = "on"]
      /\ teams' = teams \cup {s} /\ UNCHANGED <<registry, reap, owed, paused, firm>>
  BY <1>3, <1>5 DEF SessionStart
<1>8. /\ dir' \in [Sessions -> Dir]
      /\ \A q \in Sessions : dir'[q].there \/ dir'[q] = NoDir
      /\ \A q \in Sessions : dir'[q] = (IF q = s THEN d ELSE dir[q])
      /\ overtaken' \cup late' \subseteq Sessions
      /\ \A r \in Sessions : r \in overtaken' \cup late' =>
           r \in overtaken \cup late \/ reap[r].step \in {"read", "remove"}
      /\ JudgedInv' /\ ReadInv'
  BY <1>1, <1>6, <1>7, SetDirStep DEF IInv
<1>9. TypeOK' /\ OwnInv'
  BY <1>1, <1>7, <1>8 DEF TypeOK, IInv, OwnInv
<1>10. OwedInv' /\ PausedInv'
  <2>1. owed' \cup paused' \subseteq Sessions /\ owed' = owed /\ paused' = paused
    BY <1>1, <1>7 DEF TypeOK
  <2>2. /\ \A q \in owed' : /\ q \in owed \/ (q = s /\ "other" = "handoff")
                            /\ q = s => "other" # "consolidated"
        /\ \A q \in paused' : q \in paused \/ (q = s /\ "other" = "checkpoint")
    BY <2>1
  <2>3. d.journal = Written(dir[s].journal, "other")
    BY <1>3, <1>6
  <2> QED
    BY <1>1, <1>2, <1>6, <1>8, <2>1, <2>2, <2>3, WroteStep DEF IInv
<1>11. PruneInv'
  BY <1>7, PrunesStay DEF IInv
<1> QED
  BY <1>8, <1>9, <1>10, <1>11 DEF IInv

LEMMA TouchStep ==
  ASSUME IInv, NEW s \in Sessions, Touch(s)
  PROVE  IInv'
<1>1. TypeOK /\ dir[s] \in Dir
  BY DEF IInv, TypeOK
<1>2. PICK d : d = [dir[s] EXCEPT !.there = TRUE, !.context = TRUE, !.age = 0]
  OBVIOUS
<1>3. d \in Dir /\ d.there /\ d.journal = dir[s].journal
  <2>1. PICK d0 \in Dir : d0 = dir[s]
    BY <1>1
  <2>2. 0 \in 0..2
    OBVIOUS
  <2> QED
    BY <1>2, <2>1, <2>2 DEF Dir
<1>4. SetDir(s, d) /\ UNCHANGED <<run, teams, registry, reap, owed, paused, firm>>
  BY <1>2 DEF Touch
<1>5. /\ dir' \in [Sessions -> Dir]
      /\ \A q \in Sessions : dir'[q].there \/ dir'[q] = NoDir
      /\ \A q \in Sessions : dir'[q] = (IF q = s THEN d ELSE dir[q])
      /\ overtaken' \cup late' \subseteq Sessions
      /\ \A r \in Sessions : r \in overtaken' \cup late' =>
           r \in overtaken \cup late \/ reap[r].step \in {"read", "remove"}
      /\ JudgedInv' /\ ReadInv'
  BY <1>1, <1>3, <1>4, SetDirStep DEF IInv
<1>6. TypeOK' /\ OwnInv'
  BY <1>1, <1>4, <1>5 DEF TypeOK, IInv, OwnInv
<1>7. OwedInv' /\ PausedInv'
  <2>1. \A q \in Sessions : dir'[q].journal = dir[q].journal
    BY <1>3, <1>5
  <2> QED
    BY <1>1, <1>4, <2>1 DEF IInv, OwedInv, PausedInv, TypeOK
<1>8. PruneInv'
  BY <1>4, PrunesStay DEF IInv
<1> QED
  BY <1>5, <1>6, <1>7, <1>8 DEF IInv

\* A line more, and nothing else of the directory but that it is there.
LEMMA WriteStep ==
  ASSUME IInv, NEW s \in Sessions, NEW entry \in Entries, Write(s, entry),
         \A r \in Sessions : reap'[r].step \in {"read", "remove"} => reap'[r] = reap[r],
         owed' \cup paused' \subseteq Sessions,
         \A q \in owed' : /\ q \in owed \/ (q = s /\ entry = "handoff")
                          /\ q = s => entry # "consolidated",
         \A q \in paused' : q \in paused \/ (q = s /\ entry = "checkpoint")
  PROVE  /\ dir' \in [Sessions -> Dir]
         /\ \A q \in Sessions : dir'[q].there \/ dir'[q] = NoDir
         /\ overtaken' \cup late' \subseteq Sessions
         /\ \A r \in Sessions : r \in overtaken' \cup late' =>
              r \in overtaken \cup late \/ reap[r].step \in {"read", "remove"}
         /\ OwedInv' /\ PausedInv' /\ JudgedInv' /\ ReadInv'
<1>1. TypeOK /\ dir[s] \in Dir
  BY DEF IInv, TypeOK
<1>2. dir[s].journal \in Seq(Entries)
  BY <1>1 DEF Dir
<1>3. PICK journal : journal = Written(dir[s].journal, entry)
  OBVIOUS
<1>4. journal \in Seq(Entries)
  BY <1>2, <1>3, WrittenCases
<1>5. PICK d : d = [dir[s] EXCEPT !.there = TRUE, !.journal = journal]
  OBVIOUS
<1>6. d \in Dir /\ d.there /\ d.journal = journal
  BY <1>1, <1>4, <1>5 DEF Dir
<1>7. SetDir(s, d)
  <2>1. [dir[s] EXCEPT !.there = TRUE, !.journal = Written(@, entry)] = d
    BY <1>1, <1>3, <1>5 DEF Dir
  <2> QED
    BY <2>1 DEF Write
<1>8. /\ dir' \in [Sessions -> Dir]
      /\ \A q \in Sessions : dir'[q].there \/ dir'[q] = NoDir
      /\ \A q \in Sessions : dir'[q] = (IF q = s THEN d ELSE dir[q])
      /\ overtaken' \cup late' \subseteq Sessions
      /\ \A r \in Sessions : r \in overtaken' \cup late' =>
           r \in overtaken \cup late \/ reap[r].step \in {"read", "remove"}
      /\ JudgedInv' /\ ReadInv'
  BY <1>1, <1>6, <1>7, SetDirStep DEF IInv
<1>9. OwedInv' /\ PausedInv'
  BY <1>1, <1>3, <1>6, <1>8, WroteStep DEF IInv
<1> QED
  BY <1>8, <1>9

LEMMA RecordStep ==
  ASSUME IInv, NEW s \in Sessions,
         NEW entry \in {"handoff", "consolidated", "checkpoint", "cut"}, Record(s, entry)
  PROVE  IInv'
<1>1. entry \in Entries /\ TypeOK
  BY DEF Entries, IInv
<1>2. Write(s, entry) /\ UNCHANGED <<run, teams, registry, reap, firm>>
  BY DEF Record
<1>3. /\ owed' \cup paused' \subseteq Sessions
      /\ \A q \in owed' : /\ q \in owed \/ (q = s /\ entry = "handoff")
                          /\ q = s => entry # "consolidated"
      /\ \A q \in paused' : q \in paused \/ (q = s /\ entry = "checkpoint")
  <2>1. owed' = IF entry = "handoff" THEN owed \cup {s}
                ELSE IF entry = "consolidated" THEN owed \ {s} ELSE owed
    BY DEF Record
  <2>2. paused' = IF entry = "checkpoint" THEN paused \cup {s} ELSE paused
    BY DEF Record
  <2>3. owed \cup paused \subseteq Sessions
    BY <1>1 DEF TypeOK
  <2>4. owed' \cup paused' \subseteq Sessions
    BY <2>1, <2>2, <2>3
  <2>5. \A q \in owed' : q \in owed \/ (q = s /\ entry = "handoff")
    BY <2>1
  <2>6. \A q \in owed' : q = s => entry # "consolidated"
    BY <2>1
  <2>7. \A q \in paused' : q \in paused \/ (q = s /\ entry = "checkpoint")
    BY <2>2
  <2> QED
    BY <2>4, <2>5, <2>6, <2>7
<1>4. /\ dir' \in [Sessions -> Dir]
      /\ \A q \in Sessions : dir'[q].there \/ dir'[q] = NoDir
      /\ overtaken' \cup late' \subseteq Sessions
      /\ \A r \in Sessions : r \in overtaken' \cup late' =>
           r \in overtaken \cup late \/ reap[r].step \in {"read", "remove"}
      /\ OwedInv' /\ PausedInv' /\ JudgedInv' /\ ReadInv'
  BY <1>1, <1>2, <1>3, WriteStep
<1>5. TypeOK' /\ OwnInv'
  BY <1>1, <1>2, <1>3, <1>4 DEF TypeOK, IInv, OwnInv
<1>6. PruneInv'
  BY <1>2, PrunesStay DEF IInv
<1> QED
  BY <1>4, <1>5, <1>6 DEF IInv

-----------------------------------------------------------------------------
(* The registry's lines. *)

LEMMA AppendContains ==
  ASSUME NEW lines \in Seq(Sessions), NEW s \in Sessions, NEW more, more = Append(lines, s)
  PROVE  /\ more \in Seq(Sessions) /\ Contains(more, s)
         /\ \A q : Contains(lines, q) => Contains(more, q)
<1>1. PICK n \in Nat : n = Len(lines)
  OBVIOUS
<1>2. /\ more \in Seq(Sessions) /\ Len(more) = n + 1
      /\ more[n + 1] = s /\ \A i \in 1..n : more[i] = lines[i]
  BY <1>1
<1>3. n + 1 \in 1..(n + 1) /\ 1..n \subseteq 1..(n + 1)
  OBVIOUS
<1> QED
  BY <1>1, <1>2, <1>3 DEF Contains

\* A reaper moves and no directory changes.
LEMMA LooksHold ==
  ASSUME JudgedInv, ReadInv, dir' = dir, NEW r \in Sessions,
         \A q \in Sessions : q # r => /\ reap'[q] = reap[q]
                                      /\ q \in overtaken' <=> q \in overtaken
                                      /\ q \in late' <=> q \in late,
         (reap'[r].step \in {"read", "remove"} /\ r \notin overtaken' /\ InPlace(r)')
           => OldEnough(reap'[r].victim),
         (reap'[r].step = "remove" /\ r \notin late' /\ InPlace(r)')
           => Spent(dir[reap'[r].victim].journal)
  PROVE  JudgedInv' /\ ReadInv'
<1>1. \A v : OldEnough(v)' <=> OldEnough(v)
  BY DEF OldEnough
<1>2. ASSUME NEW q \in Sessions, reap'[q].step \in {"read", "remove"}, q \notin overtaken',
             InPlace(q)'
      PROVE  OldEnough(reap[q].victim)'
  <2>1. CASE q = r
    BY <1>2, <2>1 DEF OldEnough
  <2>2. CASE q # r
    <3>1. reap'[q] = reap[q] /\ q \notin overtaken /\ InPlace(q)
      BY <1>2, <2>2 DEF InPlace
    <3>2. OldEnough(reap[q].victim)
      BY <1>2, <3>1 DEF JudgedInv
    <3> QED
      BY <3>1, <3>2 DEF OldEnough
  <2> QED
    BY <2>1, <2>2
<1>3. ASSUME NEW q \in Sessions, reap'[q].step = "remove", q \notin late', InPlace(q)'
      PROVE  Spent(dir[reap[q].victim].journal)'
  <2>1. CASE q = r
    BY <1>3, <2>1
  <2>2. CASE q # r
    <3>1. reap'[q] = reap[q] /\ q \notin late /\ InPlace(q)
      BY <1>3, <2>2 DEF InPlace
    <3>2. Spent(dir[reap[q].victim].journal)
      BY <1>3, <3>1 DEF ReadInv
    <3> QED
      BY <3>1, <3>2
  <2> QED
    BY <2>1, <2>2
<1> QED
  BY <1>2, <1>3 DEF JudgedInv, ReadInv

LEMMA RegisterStep ==
  ASSUME IInv, NEW s \in Sessions, Register(s)
  PROVE  IInv'
<1>1. /\ TypeOK /\ registry \in Seq(Sessions) /\ registry' = Append(registry, s) /\ s \in teams
      /\ firm' = IF Pruning = {} THEN firm \cup {s} ELSE firm
      /\ UNCHANGED <<run, dir, teams, reap, owed, paused, overtaken, late>>
  BY DEF Register, IInv, TypeOK
<1>2. /\ registry' \in Seq(Sessions) /\ Contains(registry', s)
      /\ \A q : Contains(registry, q) => Contains(registry', q)
  BY <1>1, AppendContains
<1>3. TypeOK' /\ OwnInv'
  BY <1>1, <1>2 DEF TypeOK, IInv, OwnInv
<1>4. OwedInv' /\ PausedInv'
  BY <1>1 DEF IInv, OwedInv, PausedInv
<1>5. JudgedInv' /\ ReadInv'
  BY <1>1 DEF IInv, JudgedInv, ReadInv, InPlace, OldEnough
<1>6. PruneInv'
  <2>1. firm' \subseteq teams'
    BY <1>1 DEF IInv, PruneInv
  <2>2. \A r \in Pruning' : firm' \subseteq ToSet(reap'[r].kept)
    BY <1>1 DEF IInv, PruneInv, Pruning
  <2>3. RegistrationsKept'
    <3>1. ASSUME \A r \in Sessions : reap'[r].step # "write", NEW q \in firm'
          PROVE  Contains(registry', q)
      <4>1. q \in firm \/ q = s
        BY <1>1, <3>1
      <4>2. \A x \in firm : Contains(registry, x)
        BY <1>1, <3>1 DEF IInv, PruneInv, RegistrationsKept
      <4> QED
        BY <1>2, <4>1, <4>2
    <3> QED
      BY <3>1 DEF RegistrationsKept
  <2> QED
    BY <2>1, <2>2, <2>3 DEF PruneInv
<1> QED
  BY <1>3, <1>4, <1>5, <1>6 DEF IInv

LEMMA TearDownStep ==
  ASSUME IInv, NEW s \in Sessions, TearDown(s)
  PROVE  IInv'
<1>1. /\ TypeOK /\ teams' = teams \ {s} /\ firm' = firm \ {s}
      /\ UNCHANGED <<run, dir, registry, reap, owed, paused, overtaken, late>>
  BY DEF TearDown, IInv
<1>2. TypeOK' /\ OwnInv'
  BY <1>1 DEF TypeOK, IInv, OwnInv
<1>3. OwedInv' /\ PausedInv'
  BY <1>1 DEF IInv, OwedInv, PausedInv
<1>4. JudgedInv' /\ ReadInv'
  BY <1>1 DEF IInv, JudgedInv, ReadInv, InPlace, OldEnough
<1>5. PruneInv'
  BY <1>1 DEF IInv, PruneInv, Pruning, RegistrationsKept
<1> QED
  BY <1>2, <1>3, <1>4, <1>5 DEF IInv

-----------------------------------------------------------------------------
(* The reaper of a session that ends. *)

LEMMA SessionEndStep ==
  ASSUME IInv, NEW s \in Sessions, SessionEnd(s)
  PROVE  IInv'
<1>1. /\ TypeOK /\ run[s] = "on" /\ run' = [run EXCEPT ![s] = "ending"]
      /\ UNCHANGED <<teams, registry, owed, paused, firm>>
  BY DEF SessionEnd, IInv
<1>2. reap \in [Sessions -> Reaper] /\ reap[s] \in Reaper /\ reap[s].step = "off"
  BY <1>1 DEF TypeOK, Reaper
<1>3. PICK new \in Reaper : /\ reap' = [reap EXCEPT ![s] = new]
                            /\ new.step \in {"next", "prune"} /\ s \notin new.todo
  <2>1. CASE Known(s)
    <3>1. PICK new : new = [reap[s] EXCEPT !.step = "next", !.context = TRUE,
                                           !.todo = Sessions \ {s}]
      OBVIOUS
    <3>2. new \in Reaper /\ new.step = "next" /\ s \notin new.todo
      BY <1>2, <3>1 DEF Reaper, Steps
    <3>3. reap' = [reap EXCEPT ![s] = new]
      BY <1>2, <2>1, <3>1 DEF SessionEnd, Reaper
    <3> QED
      BY <3>2, <3>3
  <2>2. CASE ~Known(s)
    <3>1. PICK new : new = [reap[s] EXCEPT !.step = "prune"]
      OBVIOUS
    <3>2. new \in Reaper /\ new.step = "prune" /\ new.todo = reap[s].todo
      BY <1>2, <3>1 DEF Reaper, Steps
    <3>3. reap' = [reap EXCEPT ![s] = new]
      BY <1>2, <2>2, <3>1 DEF SessionEnd, Reaper
    <3> QED
      BY <3>2, <3>3 DEF IInv, OwnInv
  <2> QED
    BY <2>1, <2>2
<1>4. /\ reap' \in [Sessions -> Reaper]
      /\ \A q \in Sessions : reap'[q] = (IF q = s THEN new ELSE reap[q])
  BY <1>2, <1>3, ReapAt
<1>5. \A r \in Sessions : reap'[r].step \in {"read", "remove"} => reap'[r] = reap[r]
  BY <1>3, <1>4
<1>6. /\ dir' \in [Sessions -> Dir]
      /\ \A q \in Sessions : dir'[q].there \/ dir'[q] = NoDir
      /\ overtaken' \cup late' \subseteq Sessions
      /\ \A r \in Sessions : r \in overtaken' \cup late' =>
           r \in overtaken \cup late \/ reap[r].step \in {"read", "remove"}
      /\ OwedInv' /\ PausedInv' /\ JudgedInv' /\ ReadInv'
  <2>1. CASE Known(s)
    <3>1. Write(s, "other") /\ "other" \in Entries
      BY <2>1 DEF SessionEnd, Entries
    <3>2. /\ owed' \cup paused' \subseteq Sessions
          /\ \A q \in owed' : /\ q \in owed \/ (q = s /\ "other" = "handoff")
                              /\ q = s => "other" # "consolidated"
          /\ \A q \in paused' : q \in paused \/ (q = s /\ "other" = "checkpoint")
      BY <1>1 DEF TypeOK
    <3> QED
      BY <1>5, <3>1, <3>2, WriteStep
  <2>2. CASE ~Known(s)
    <3>1. UNCHANGED <<dir, overtaken, late>>
      BY <2>2 DEF SessionEnd
    <3>2. OwedInv' /\ PausedInv'
      BY <1>1, <3>1 DEF IInv, OwedInv, PausedInv
    <3>3. \A q \in Sessions : q # s => reap'[q] = reap[q]
      BY <1>4
    <3>4. reap'[s].step \notin {"read", "remove"}
      BY <1>3, <1>4
    <3>5. JudgedInv' /\ ReadInv'
      BY <3>1, <3>3, <3>4, LooksHold DEF IInv
    <3> QED
      BY <1>1, <3>1, <3>2, <3>5 DEF TypeOK
  <2> QED
    BY <2>1, <2>2
<1>7. TypeOK' /\ OwnInv'
  <2>1. \A q \in Sessions : /\ run'[q] = "ending" <=> reap'[q].step # "off"
                            /\ run'[q] \in {"off", "on", "ending"}
    BY <1>1, <1>3, <1>4 DEF TypeOK
  <2>2. \A q \in Sessions : q \in overtaken' \cup late' => q # s /\ reap[q].step \in {"read", "remove"}
    BY <1>1, <1>2, <1>6 DEF TypeOK
  <2>3. run' \in [Sessions -> {"off", "on", "ending"}]
    BY <1>1, <2>1 DEF TypeOK
  <2>4. \A q \in Sessions : reap'[q].step \in {"read", "remove"} =>
                              reap'[q].victim \in reap'[q].todo \ {q}
    BY <1>1, <1>3, <1>4 DEF TypeOK
  <2>5. OwnInv'
    BY <1>3, <1>4 DEF IInv, OwnInv
  <2> QED
    BY <1>1, <1>4, <1>6, <2>1, <2>2, <2>3, <2>4, <2>5 DEF TypeOK
<1>8. PruneInv'
  <2>1. \A r \in Sessions :
            \/ reap'[r].step \notin {"truncate", "write"} /\ reap[r].step # "write"
            \/ reap'[r].step = reap[r].step /\ reap'[r].kept = reap[r].kept
    BY <1>2, <1>3, <1>4
  <2> QED
    BY <1>1, <2>1, PrunesStay DEF IInv
<1> QED
  BY <1>6, <1>7, <1>8 DEF IInv

\* The reaper of r moves outside a prune, and the process of r goes on.
LEMMA ReaperType ==
  ASSUME IInv, NEW r \in Sessions, reap[r].step # "off",
         reap' \in [Sessions -> Reaper], reap'[r].step # "off",
         reap'[r].todo \subseteq reap[r].todo,
         reap'[r].step \in {"read", "remove"} => reap'[r].victim \in reap'[r].todo,
         \A q \in Sessions : q # r => reap'[q] = reap[q],
         dir' \in [Sessions -> Dir], \A q \in Sessions : dir'[q].there \/ dir'[q] = NoDir,
         UNCHANGED <<run, teams>>, registry' \in Seq(Sessions),
         owed' \subseteq owed, paused' \subseteq paused, firm' \subseteq firm,
         \/ overtaken' = overtaken \ {r} /\ late' = late \ {r}
         \/ UNCHANGED <<overtaken, late>> /\ reap'[r].step \in {"read", "remove"}
         \/ UNCHANGED <<overtaken, late>> /\ reap[r].step \notin {"read", "remove"}
  PROVE  TypeOK' /\ OwnInv'
<1>1. TypeOK /\ OwnInv
  BY DEF IInv
<1>2. OwnInv'
  BY <1>1 DEF OwnInv
<1>3. \A q \in Sessions : run'[q] = "ending" <=> reap'[q].step # "off"
  BY <1>1 DEF TypeOK
<1>4. \A q \in Sessions : reap'[q].step \in {"read", "remove"} =>
                            reap'[q].victim \in reap'[q].todo \ {q}
  BY <1>1, <1>2 DEF TypeOK, OwnInv
<1>5. \A q \in Sessions : q \in overtaken' \cup late' => reap'[q].step \in {"read", "remove"}
  BY <1>1 DEF TypeOK
<1>6. owed' \cup paused' \cup firm' \cup overtaken' \cup late' \subseteq Sessions
  BY <1>1 DEF TypeOK
<1> QED
  BY <1>1, <1>2, <1>3, <1>4, <1>5, <1>6 DEF TypeOK

LEMMA JudgeStep ==
  ASSUME IInv, NEW r \in Sessions, NEW v \in Sessions, Judge(r, v)
  PROVE  IInv'
<1>1. /\ TypeOK /\ reap[r].step = "next" /\ v \in reap[r].todo
      /\ UNCHANGED <<run, dir, teams, registry, owed, paused, firm>>
  BY DEF Judge, ReapOnly, IInv
<1>2. reap \in [Sessions -> Reaper] /\ reap[r] \in Reaper
  BY <1>1 DEF TypeOK
<1>3. OwedInv' /\ PausedInv'
  BY <1>1 DEF IInv, OwedInv, PausedInv
<1>4. CASE dir[v].there /\ OldEnough(v)
  <2>1. PICK new : new = [reap[r] EXCEPT !.step = "read", !.victim = v, !.old = dir[v].old]
    OBVIOUS
  <2>2. dir[v].old \in BOOLEAN
    BY <1>1 DEF TypeOK, Dir
  <2>3. /\ new \in Reaper /\ new.step = "read" /\ new.victim = v
        /\ new.todo = reap[r].todo /\ new.kept = reap[r].kept
    BY <1>2, <2>1, <2>2 DEF Reaper, Steps
  <2>4. reap' = [reap EXCEPT ![r] = new] /\ UNCHANGED <<overtaken, late>>
    BY <1>2, <1>4, <2>1 DEF Judge, Reaper
  <2>5. /\ reap' \in [Sessions -> Reaper]
        /\ \A q \in Sessions : reap'[q] = (IF q = r THEN new ELSE reap[q])
    BY <1>2, <2>3, <2>4, ReapAt
  <2>6. reap'[r] = new /\ \A q \in Sessions : q # r => reap'[q] = reap[q]
    BY <2>5
  <2>7. TypeOK' /\ OwnInv'
    <3>1. dir' \in [Sessions -> Dir] /\ \A q \in Sessions : dir'[q].there \/ dir'[q] = NoDir
      BY <1>1 DEF TypeOK
    <3>2. registry' \in Seq(Sessions)
      BY <1>1 DEF TypeOK
    <3> QED
      BY <1>1, <2>3, <2>4, <2>5, <2>6, <3>1, <3>2, ReaperType
  <2>8. JudgedInv' /\ ReadInv'
    BY <1>1, <1>4, <2>3, <2>4, <2>6, LooksHold DEF IInv
  <2>9. PruneInv'
    BY <1>1, <2>3, <2>6, PrunesStay DEF IInv
  <2> QED
    BY <1>3, <2>7, <2>8, <2>9 DEF IInv
<1>5. CASE ~(dir[v].there /\ OldEnough(v))
  <2>1. NextEntry(r, v)
    BY <1>5 DEF Judge
  <2>2. /\ reap' \in [Sessions -> Reaper] /\ reap'[r].step = "next"
        /\ \A q \in Sessions : q # r => reap'[q] = reap[q]
        /\ overtaken' = overtaken \ {r} /\ late' = late \ {r}
    BY <1>1, <2>1, Advanced
  <2>3. reap'[r].todo \subseteq reap[r].todo
    BY <1>2, <2>1 DEF NextEntry, Reaper
  <2>4. TypeOK' /\ OwnInv'
    <3>1. dir' \in [Sessions -> Dir] /\ \A q \in Sessions : dir'[q].there \/ dir'[q] = NoDir
      BY <1>1 DEF TypeOK
    <3>2. registry' \in Seq(Sessions)
      BY <1>1 DEF TypeOK
    <3> QED
      BY <1>1, <2>2, <2>3, <3>1, <3>2, ReaperType
  <2>5. JudgedInv' /\ ReadInv'
    BY <1>1, <2>2, LooksHold DEF IInv
  <2>6. PruneInv'
    BY <1>1, <2>2, PrunesStay DEF IInv
  <2> QED
    BY <1>3, <2>4, <2>5, <2>6 DEF IInv
<1> QED
  BY <1>4, <1>5

LEMMA ReadJournalStep ==
  ASSUME IInv, NEW r \in Sessions, ReadJournal(r)
  PROVE  IInv'
<1>1. /\ TypeOK /\ reap[r].step = "read"
      /\ UNCHANGED <<run, dir, teams, registry, owed, paused, firm>>
  BY DEF ReadJournal, ReapOnly, IInv
<1>2. reap \in [Sessions -> Reaper] /\ reap[r] \in Reaper
  BY <1>1 DEF TypeOK
<1>3. reap[r].victim \in reap[r].todo /\ reap[r].victim \in Sessions
  BY <1>1, <1>2 DEF TypeOK, Reaper
<1>4. OwedInv' /\ PausedInv'
  BY <1>1 DEF IInv, OwedInv, PausedInv
<1>5. dir' \in [Sessions -> Dir] /\ \A q \in Sessions : dir'[q].there \/ dir'[q] = NoDir
  BY <1>1 DEF TypeOK
<1>6. registry' \in Seq(Sessions)
  BY <1>1 DEF TypeOK
<1>7. CASE InPlace(r) => Spent(dir[reap[r].victim].journal)
  <2>1. PICK new : new = [reap[r] EXCEPT !.step = "remove"]
    OBVIOUS
  <2>2. /\ new \in Reaper /\ new.step = "remove" /\ new.victim = reap[r].victim
        /\ new.old = reap[r].old /\ new.todo = reap[r].todo /\ new.kept = reap[r].kept
    BY <1>2, <2>1 DEF Reaper, Steps
  <2>3. reap' = [reap EXCEPT ![r] = new] /\ UNCHANGED <<overtaken, late>>
    BY <1>2, <1>7, <2>1 DEF ReadJournal, Reaper
  <2>4. /\ reap' \in [Sessions -> Reaper]
        /\ \A q \in Sessions : reap'[q] = (IF q = r THEN new ELSE reap[q])
    BY <1>2, <2>2, <2>3, ReapAt
  <2>5. reap'[r] = new /\ \A q \in Sessions : q # r => reap'[q] = reap[q]
    BY <2>4
  <2>6. TypeOK' /\ OwnInv'
    BY <1>1, <1>3, <1>5, <1>6, <2>2, <2>3, <2>4, <2>5, ReaperType
  <2>7. InPlace(r)' => InPlace(r)
    BY <1>1, <2>2, <2>5 DEF InPlace
  <2>8. (reap'[r].step \in {"read", "remove"} /\ r \notin overtaken' /\ InPlace(r)')
          => OldEnough(reap'[r].victim)
    BY <1>1, <2>2, <2>3, <2>5, <2>7 DEF IInv, JudgedInv
  <2>9. (reap'[r].step = "remove" /\ r \notin late' /\ InPlace(r)')
          => Spent(dir[reap'[r].victim].journal)
    BY <1>7, <2>2, <2>5, <2>7
  <2>10. JudgedInv' /\ ReadInv'
    BY <1>1, <2>3, <2>5, <2>8, <2>9, LooksHold DEF IInv
  <2>11. PruneInv'
    BY <1>1, <2>2, <2>5, PrunesStay DEF IInv
  <2> QED
    BY <1>4, <2>6, <2>10, <2>11 DEF IInv
<1>8. CASE ~(InPlace(r) => Spent(dir[reap[r].victim].journal))
  <2>1. NextEntry(r, reap[r].victim)
    BY <1>8 DEF ReadJournal
  <2>2. /\ reap' \in [Sessions -> Reaper] /\ reap'[r].step = "next"
        /\ \A q \in Sessions : q # r => reap'[q] = reap[q]
        /\ overtaken' = overtaken \ {r} /\ late' = late \ {r}
    BY <1>1, <1>3, <2>1, Advanced
  <2>3. reap'[r].todo \subseteq reap[r].todo
    BY <1>2, <2>1 DEF NextEntry, Reaper
  <2>4. TypeOK' /\ OwnInv'
    BY <1>1, <1>5, <1>6, <2>2, <2>3, ReaperType
  <2>5. JudgedInv' /\ ReadInv'
    BY <1>1, <2>2, LooksHold DEF IInv
  <2>6. PruneInv'
    BY <1>1, <2>2, PrunesStay DEF IInv
  <2> QED
    BY <1>4, <2>4, <2>5, <2>6 DEF IInv
<1> QED
  BY <1>7, <1>8

LEMMA RemoveTreeStep ==
  ASSUME IInv, NEW r \in Sessions, RemoveTree(r)
  PROVE  IInv'
<1>1. /\ TypeOK /\ reap[r].step = "remove" /\ NextEntry(r, reap[r].victim)
      /\ UNCHANGED <<run, teams, registry, firm>>
  BY DEF RemoveTree, ReapOnly, IInv
<1>2. /\ reap \in [Sessions -> Reaper] /\ reap[r] \in Reaper /\ dir \in [Sessions -> Dir]
      /\ \A q \in Sessions : dir[q].there \/ dir[q] = NoDir
  BY <1>1 DEF TypeOK
<1>3. PICK v \in Sessions : v = reap[r].victim
  BY <1>2 DEF Reaper
<1>4. /\ reap' \in [Sessions -> Reaper] /\ reap'[r].step = "next"
      /\ \A q \in Sessions : q # r => reap'[q] = reap[q]
      /\ overtaken' = overtaken \ {r} /\ late' = late \ {r}
  BY <1>1, <1>3, Advanced
<1>5. reap'[r].todo \subseteq reap[r].todo
  BY <1>1, <1>2 DEF NextEntry, Reaper
<1>6. NoDir \in Dir /\ ~NoDir.there /\ NoDir.age \in Nat
  <2>1. <<>> \in Seq(Entries)
    OBVIOUS
  <2> QED
    BY <2>1 DEF NoDir, Dir
<1>7. \/ /\ dir' = [dir EXCEPT ![v] = NoDir] /\ owed' = owed \ {v} /\ paused' = paused \ {v}
      \/ UNCHANGED <<dir, owed, paused>>
  BY <1>3 DEF RemoveTree
<1>8. /\ owed' \subseteq owed /\ paused' \subseteq paused
      /\ \A q \in Sessions : \/ dir'[q] = dir[q]
                             \/ dir'[q] = NoDir /\ q \notin owed' /\ q \notin paused'
  BY <1>2, <1>7
<1>9. dir' \in [Sessions -> Dir] /\ \A q \in Sessions : dir'[q].there \/ dir'[q] = NoDir
  BY <1>2, <1>6, <1>7
<1>10. TypeOK' /\ OwnInv'
  <2>1. registry' \in Seq(Sessions)
    BY <1>1 DEF TypeOK
  <2> QED
    BY <1>1, <1>4, <1>5, <1>8, <1>9, <2>1, ReaperType
<1>11. OwedInv' /\ PausedInv'
  <2>1. owed \cup paused \subseteq Sessions
    BY <1>1 DEF TypeOK
  <2> QED
    BY <1>8, <2>1 DEF IInv, OwedInv, PausedInv
<1>12. JudgedInv' /\ ReadInv'
  <2>1. \A d \in Dir : d.age \in Nat /\ d.age >= d.age
    BY DEF Dir
  <2>2. \A s \in Sessions : dir[s].age \in Nat /\ dir'[s].age \in Nat
    BY <1>2, <1>9, <2>1
  <2>3. \A q \in Sessions :
           reap'[q].step \in {"read", "remove"} =>
             reap'[q] = reap[q] /\ reap[q].victim \in Sessions
    BY <1>2, <1>4 DEF Reaper
  <2>4. \A s \in Sessions :
          \/ /\ dir'[s].there = dir[s].there /\ dir'[s].old = dir[s].old
             /\ dir'[s].journal = dir[s].journal /\ dir'[s].age >= dir[s].age
          \/ ~dir'[s].there
    BY <1>2, <1>6, <1>8, <2>1
  <2>5. \A q \in Sessions :
           reap'[q].step \in {"read", "remove"} =>
             (q \in overtaken => q \in overtaken') /\ (q \in late => q \in late')
    BY <1>4
  <2> QED
    BY <2>2, <2>3, <2>4, <2>5, LooksStay DEF IInv
<1>13. PruneInv'
  BY <1>1, <1>4, PrunesStay DEF IInv
<1> QED
  BY <1>10, <1>11, <1>12, <1>13 DEF IInv

-----------------------------------------------------------------------------
(* The prune of the registry. *)

\* A registration that is live and was read is in what is left.
LEMMA LeftHas ==
  ASSUME NEW lines \in Seq(Sessions), NEW kept \in SeqOf(ToSet(lines), Len(lines)),
         LeftOf(lines, kept)
  PROVE  /\ kept \in Seq(Sessions)
         /\ \A s \in teams : Contains(lines, s) => s \in ToSet(kept)
<1>1. kept \in Seq(Sessions)
  <2>1. PICK n \in Nat : kept \in [1..n -> ToSet(lines)]
    BY DEF SeqOf
  <2>2. ToSet(lines) \subseteq Sessions
    BY DEF ToSet
  <2>3. kept \in [1..n -> Sessions]
    BY <2>1, <2>2
  <2> QED
    BY <2>3
<1>2. ASSUME NEW s \in teams, Contains(lines, s) PROVE s \in ToSet(kept)
  <2>1. PICK i \in DOMAIN lines : lines[i] = s
    BY <1>2 DEF Contains
  <2>2. PICK alive : alive = {k \in DOMAIN lines : Alive(lines[k])}
    OBVIOUS
  <2>3. i \in alive
    BY <1>2, <2>1, <2>2 DEF Alive
  <2>4. PICK at \in [DOMAIN kept -> alive] :
          /\ \A k \in alive : \E j \in DOMAIN kept : at[j] = k
          /\ \A j \in DOMAIN kept : kept[j] = lines[at[j]]
    BY <2>2 DEF LeftOf
  <2>5. PICK j \in DOMAIN kept : kept[j] = s
    BY <2>1, <2>3, <2>4
  <2> QED
    BY <2>5 DEF ToSet
<1> QED
  BY <1>1, <1>2

\* A prune moves on.
LEMMA PruneType ==
  ASSUME IInv, NEW r \in Sessions, NEW new \in Reaper,
         reap[r].step \notin {"off", "read", "remove"},
         reap' = [reap EXCEPT ![r] = new], new.todo = reap[r].todo,
         new.step \notin {"off", "read", "remove"}, registry' \in Seq(Sessions), firm' \subseteq firm,
         UNCHANGED <<run, dir, teams, owed, paused, overtaken, late>>
  PROVE  /\ reap'[r] = new /\ \A q \in Sessions : q # r => reap'[q] = reap[q]
         /\ TypeOK' /\ OwnInv' /\ OwedInv' /\ PausedInv' /\ JudgedInv' /\ ReadInv'
<1>1. reap \in [Sessions -> Reaper] /\ reap[r] \in Reaper
  BY DEF IInv, TypeOK
<1>2. /\ reap' \in [Sessions -> Reaper]
      /\ \A q \in Sessions : reap'[q] = (IF q = r THEN new ELSE reap[q])
  BY <1>1, ReapAt
<1>3. reap'[r] = new /\ \A q \in Sessions : q # r => reap'[q] = reap[q]
  BY <1>2
<1>4. dir' \in [Sessions -> Dir] /\ \A q \in Sessions : dir'[q].there \/ dir'[q] = NoDir
  BY DEF IInv, TypeOK
<1>5. TypeOK' /\ OwnInv'
  BY <1>2, <1>3, <1>4, ReaperType
<1>6. OwedInv' /\ PausedInv'
  BY DEF IInv, OwedInv, PausedInv
<1>7. JudgedInv' /\ ReadInv'
  BY <1>3, LooksHold DEF IInv
<1> QED
  BY <1>3, <1>5, <1>6, <1>7

LEMMA PruneReadStep ==
  ASSUME IInv, NEW r \in Sessions, PruneRead(r)
  PROVE  IInv'
<1>1. /\ reap[r].step \in {"prune", "next"}
      /\ UNCHANGED <<run, dir, teams, registry, owed, paused, overtaken, late>>
  BY DEF PruneRead, ReapOnly
<1>2. reap \in [Sessions -> Reaper] /\ reap[r] \in Reaper /\ registry \in Seq(Sessions)
  BY DEF IInv, TypeOK
<1>3. CASE \A i \in DOMAIN registry : Alive(registry[i])
  <2>1. PICK new : new = [reap[r] EXCEPT !.step = "summary"]
    OBVIOUS
  <2>2. new \in Reaper /\ new.step = "summary" /\ new.todo = reap[r].todo
    BY <1>2, <2>1 DEF Reaper, Steps
  <2>3. reap' = [reap EXCEPT ![r] = new] /\ firm' = firm
    BY <1>2, <1>3, <2>1 DEF PruneRead, Reaper
  <2>4. registry' \in Seq(Sessions)
    BY <1>1, <1>2
  <2>5. /\ reap'[r] = new /\ \A q \in Sessions : q # r => reap'[q] = reap[q]
        /\ TypeOK' /\ OwnInv' /\ OwedInv' /\ PausedInv' /\ JudgedInv' /\ ReadInv'
    BY <1>1, <2>2, <2>3, <2>4, PruneType
  <2>6. PruneInv'
    BY <1>1, <2>2, <2>3, <2>5, PrunesStay DEF IInv
  <2> QED
    BY <2>5, <2>6 DEF IInv
<1>4. CASE ~(\A i \in DOMAIN registry : Alive(registry[i]))
  <2>1. PICK kept \in SeqOf(ToSet(registry), Len(registry)) :
          /\ LeftOf(registry, kept)
          /\ reap' = [reap EXCEPT ![r].step = "truncate", ![r].kept = kept]
    BY <1>4 DEF PruneRead
  <2>2. kept \in Seq(Sessions) /\ \A s \in teams : Contains(registry, s) => s \in ToSet(kept)
    BY <1>2, <2>1, LeftHas
  <2>3. PICK new : new = [reap[r] EXCEPT !.step = "truncate", !.kept = kept]
    OBVIOUS
  <2>4. /\ new \in Reaper /\ new.step = "truncate" /\ new.todo = reap[r].todo
        /\ new.kept = kept
    BY <1>2, <2>2, <2>3 DEF Reaper, Steps
  <2>5. reap' = [reap EXCEPT ![r] = new]
    BY <1>2, <2>1, <2>3 DEF Reaper
  <2>6. firm' = IF \E q \in Sessions : reap[q].step = "write"
                THEN {s \in firm : Contains(registry, s)} ELSE firm
    BY <1>4 DEF PruneRead
  <2>7. registry' \in Seq(Sessions) /\ firm' \subseteq firm
    BY <1>1, <1>2, <2>6
  <2>8. /\ reap'[r] = new /\ \A q \in Sessions : q # r => reap'[q] = reap[q]
        /\ TypeOK' /\ OwnInv' /\ OwedInv' /\ PausedInv' /\ JudgedInv' /\ ReadInv'
    BY <1>1, <2>4, <2>5, <2>7, PruneType
  <2>9. firm' \subseteq teams /\ \A s \in firm' : Contains(registry, s)
    BY <2>6 DEF IInv, PruneInv, RegistrationsKept
  <2>10. \A q \in Pruning' : firm' \subseteq ToSet(reap'[q].kept)
    <3>1. firm' \subseteq ToSet(kept)
      BY <2>2, <2>9
    <3>2. ASSUME NEW q \in Pruning', q # r PROVE firm' \subseteq ToSet(reap'[q].kept)
      BY <2>7, <2>8, <3>2 DEF IInv, PruneInv, Pruning
    <3> QED
      BY <2>4, <2>8, <3>1, <3>2
  <2>11. PruneInv'
    BY <1>1, <2>9, <2>10 DEF PruneInv, RegistrationsKept
  <2> QED
    BY <2>8, <2>11 DEF IInv
<1> QED
  BY <1>3, <1>4

LEMMA PruneTruncateStep ==
  ASSUME IInv, NEW r \in Sessions, PruneTruncate(r)
  PROVE  IInv'
<1>1. /\ reap[r].step = "truncate" /\ registry' = <<>>
      /\ UNCHANGED <<run, dir, teams, owed, paused, firm, overtaken, late>>
  BY DEF PruneTruncate, ReapOnly, history
<1>2. reap \in [Sessions -> Reaper] /\ reap[r] \in Reaper
  BY DEF IInv, TypeOK
<1>3. PICK new : new = [reap[r] EXCEPT !.step = "write"]
  OBVIOUS
<1>4. /\ new \in Reaper /\ new.step = "write" /\ new.todo = reap[r].todo
      /\ new.kept = reap[r].kept
  BY <1>2, <1>3 DEF Reaper, Steps
<1>5. reap' = [reap EXCEPT ![r] = new]
  BY <1>2, <1>3 DEF PruneTruncate, Reaper
<1>6. registry' \in Seq(Sessions) /\ firm' \subseteq firm
  BY <1>1
<1>7. /\ reap'[r] = new /\ \A q \in Sessions : q # r => reap'[q] = reap[q]
      /\ TypeOK' /\ OwnInv' /\ OwedInv' /\ PausedInv' /\ JudgedInv' /\ ReadInv'
  BY <1>1, <1>4, <1>5, <1>6, PruneType
<1>8. PruneInv'
  BY <1>1, <1>4, <1>7 DEF IInv, PruneInv, Pruning, RegistrationsKept
<1> QED
  BY <1>7, <1>8 DEF IInv

\* A rewrite has the lines that were to be written.
LEMMA OverHas ==
  ASSUME NEW lines \in Seq(Sessions), NEW there \in Seq(Sessions), NEW new \in Over(lines, there)
  PROVE  new \in Seq(Sessions) /\ \A s \in ToSet(lines) : Contains(new, s)
<1>1. PICK beyond : beyond = SubSeq(there, Len(lines) + 1, Len(there))
  OBVIOUS
<1>2. beyond \in Seq(Sessions)
  BY <1>1
<1>3. beyond # <<>> => Tail(beyond) \in Seq(Sessions)
  BY <1>2
<1>4. new \in {lines \o beyond} \cup (IF beyond = <<>> THEN {} ELSE {lines \o Tail(beyond)})
  BY <1>1 DEF Over
<1>5. PICK rest \in Seq(Sessions) : new = lines \o rest
  BY <1>2, <1>3, <1>4
<1>6. PICK n \in Nat, m \in Nat : n = Len(lines) /\ m = Len(rest)
  OBVIOUS
<1>7. new \in Seq(Sessions) /\ Len(new) = n + m /\ \A i \in 1..n : new[i] = lines[i]
  BY <1>5, <1>6
<1>8. \A i \in 1..n : i \in 1..(n + m)
  OBVIOUS
<1>9. \A s \in ToSet(lines) : Contains(new, s)
  BY <1>6, <1>7, <1>8 DEF ToSet, Contains
<1> QED
  BY <1>7, <1>9

LEMMA PruneWriteStep ==
  ASSUME IInv, NEW r \in Sessions, PruneWrite(r)
  PROVE  IInv'
<1>1. /\ reap[r].step = "write" /\ registry' \in Over(reap[r].kept, registry)
      /\ UNCHANGED <<run, dir, teams, owed, paused, firm, overtaken, late>>
  BY DEF PruneWrite, ReapOnly, history
<1>2. reap \in [Sessions -> Reaper] /\ reap[r] \in Reaper /\ registry \in Seq(Sessions)
  BY DEF IInv, TypeOK
<1>3. PICK kept \in Seq(Sessions) : kept = reap[r].kept
  BY <1>2 DEF Reaper
<1>4. registry' \in Seq(Sessions) /\ \A s \in ToSet(kept) : Contains(registry', s)
  BY <1>1, <1>2, <1>3, OverHas
<1>5. PICK new : new = [reap[r] EXCEPT !.step = "summary", !.kept = <<>>]
  OBVIOUS
<1>6. new \in Reaper /\ new.step = "summary" /\ new.todo = reap[r].todo
  <2>1. <<>> \in Seq(Sessions)
    OBVIOUS
  <2> QED
    BY <1>2, <1>5, <2>1 DEF Reaper, Steps
<1>7. reap' = [reap EXCEPT ![r] = new]
  BY <1>2, <1>5 DEF PruneWrite, Reaper
<1>8. firm' \subseteq firm
  BY <1>1
<1>9. /\ reap'[r] = new /\ \A q \in Sessions : q # r => reap'[q] = reap[q]
      /\ TypeOK' /\ OwnInv' /\ OwedInv' /\ PausedInv' /\ JudgedInv' /\ ReadInv'
  BY <1>1, <1>4, <1>6, <1>7, <1>8, PruneType
<1>10. PruneInv'
  <2>1. firm \subseteq ToSet(kept)
    BY <1>1, <1>3 DEF IInv, PruneInv, Pruning
  <2>2. \A q \in Pruning' : q \in Pruning /\ reap'[q].kept = reap[q].kept
    BY <1>6, <1>9 DEF Pruning
  <2>3. RegistrationsKept'
    BY <1>1, <1>4, <2>1 DEF RegistrationsKept
  <2> QED
    BY <1>1, <2>2, <2>3 DEF IInv, PruneInv
<1> QED
  BY <1>9, <1>10 DEF IInv

\* A prune that fails before it has emptied the file leaves that; after it has,
\* nothing is firm any more.
LEMMA PruneFailsStep ==
  ASSUME IInv, NEW r \in Sessions, PruneFails(r)
  PROVE  IInv'
<1>1. /\ reap[r].step \in {"truncate", "write"}
      /\ reap[r].step = "truncate" => UNCHANGED <<registry, firm>>
      /\ reap[r].step = "write" => firm' = {}
      /\ UNCHANGED <<run, dir, teams, owed, paused, overtaken, late>>
  BY DEF PruneFails
<1>2. reap \in [Sessions -> Reaper] /\ reap[r] \in Reaper /\ registry \in Seq(Sessions)
  BY DEF IInv, TypeOK
<1>3. PICK kept \in Seq(Sessions) : kept = reap[r].kept
  BY <1>2 DEF Reaper
<1>4. registry' \in Seq(Sessions)
  <2>1. CASE reap[r].step = "truncate"
    BY <1>1, <1>2, <2>1
  <2>2. CASE reap[r].step = "write"
    <3>1. PICK n \in 0..Len(kept) : registry' \in Over(SubSeq(kept, 1, n), registry)
      BY <1>3, <2>2 DEF PruneFails
    <3>2. SubSeq(kept, 1, n) \in Seq(Sessions)
      BY <3>1
    <3> QED
      BY <1>2, <3>1, <3>2, OverHas
  <2> QED
    BY <1>1, <2>1, <2>2
<1>5. PICK new : new = [reap[r] EXCEPT !.step = "summary", !.kept = <<>>]
  OBVIOUS
<1>6. new \in Reaper /\ new.step = "summary" /\ new.todo = reap[r].todo
  <2>1. <<>> \in Seq(Sessions)
    OBVIOUS
  <2> QED
    BY <1>2, <1>5, <2>1 DEF Reaper, Steps
<1>7. reap' = [reap EXCEPT ![r] = new]
  BY <1>2, <1>5 DEF PruneFails, Reaper
<1>8. firm' \subseteq firm
  BY <1>1
<1>9. /\ reap'[r] = new /\ \A q \in Sessions : q # r => reap'[q] = reap[q]
      /\ TypeOK' /\ OwnInv' /\ OwedInv' /\ PausedInv' /\ JudgedInv' /\ ReadInv'
  BY <1>1, <1>4, <1>6, <1>7, <1>8, PruneType
<1>10. PruneInv'
  <2>1. CASE reap[r].step = "truncate"
    BY <1>1, <1>6, <1>9, <2>1, PrunesStay DEF IInv
  <2>2. CASE reap[r].step = "write"
    BY <1>1, <2>2 DEF PruneInv, RegistrationsKept
  <2> QED
    BY <1>1, <2>1, <2>2
<1> QED
  BY <1>9, <1>10 DEF IInv

-----------------------------------------------------------------------------
(* The end of the reaper, and the invariant. *)

\* The process of r is gone, and its reaper.
LEMMA GoneType ==
  ASSUME IInv, NEW r \in Sessions, run' = [run EXCEPT ![r] = "off"],
         reap' = [reap EXCEPT ![r] = NoReaper], UNCHANGED <<teams, registry, owed, paused>>,
         dir' \in [Sessions -> Dir], \A q \in Sessions : dir'[q].there \/ dir'[q] = NoDir,
         firm' \subseteq firm, overtaken' \cup late' \subseteq Sessions,
         \A q \in Sessions : q \in overtaken' \cup late' =>
                               q # r /\ reap[q].step \in {"read", "remove"}
  PROVE  TypeOK' /\ OwnInv'
<1>1. NoReaper \in Reaper /\ NoReaper.step = "off" /\ NoReaper.todo = {}
  BY NoReaperType DEF NoReaper
<1>2. TypeOK /\ OwnInv /\ reap \in [Sessions -> Reaper]
  BY DEF IInv, TypeOK
<1>3. /\ reap' \in [Sessions -> Reaper]
      /\ \A q \in Sessions : reap'[q] = (IF q = r THEN NoReaper ELSE reap[q])
  BY <1>1, <1>2, ReapAt
<1>4. /\ run' \in [Sessions -> {"off", "on", "ending"}]
      /\ \A q \in Sessions : run'[q] = "ending" <=> reap'[q].step # "off"
  BY <1>1, <1>2, <1>3 DEF TypeOK
<1>5. OwnInv'
  BY <1>1, <1>2, <1>3 DEF OwnInv
<1>6. \A q \in Sessions : reap'[q].step \in {"read", "remove"} =>
                            reap'[q].victim \in reap'[q].todo \ {q}
  BY <1>1, <1>2, <1>3 DEF TypeOK
<1>7. \A q \in Sessions : q \in overtaken' \cup late' => reap'[q].step \in {"read", "remove"}
  BY <1>3
<1>8. owed' \cup paused' \cup firm' \cup overtaken' \cup late' \subseteq Sessions
  BY <1>2 DEF TypeOK
<1> QED
  BY <1>2, <1>3, <1>4, <1>5, <1>6, <1>7, <1>8 DEF TypeOK

LEMMA SummaryStep ==
  ASSUME IInv, NEW r \in Sessions, Summary(r)
  PROVE  IInv'
<1>1. /\ TypeOK /\ reap[r].step = "summary" /\ run' = [run EXCEPT ![r] = "off"]
      /\ reap' = [reap EXCEPT ![r] = NoReaper]
      /\ UNCHANGED <<teams, registry, owed, paused, firm>>
  BY DEF Summary, IInv
<1>2. NoReaper.step = "off" /\ NoReaper \in Reaper
  BY NoReaperType
<1>3. \A q \in Sessions : reap'[q] = (IF q = r THEN NoReaper ELSE reap[q])
  BY <1>1 DEF TypeOK
<1>4. /\ dir' \in [Sessions -> Dir]
      /\ \A q \in Sessions : dir'[q].there \/ dir'[q] = NoDir
      /\ overtaken' \cup late' \subseteq Sessions
      /\ \A q \in Sessions : q \in overtaken' \cup late' =>
           q \in overtaken \cup late \/ reap[q].step \in {"read", "remove"}
      /\ OwedInv' /\ PausedInv' /\ JudgedInv' /\ ReadInv'
  <2>1. CASE reap[r].context
    <3>1. Write(r, "other") /\ "other" \in Entries
      BY <2>1 DEF Summary, Entries
    <3>2. /\ owed' \cup paused' \subseteq Sessions
          /\ \A q \in owed' : /\ q \in owed \/ (q = r /\ "other" = "handoff")
                              /\ q = r => "other" # "consolidated"
          /\ \A q \in paused' : q \in paused \/ (q = r /\ "other" = "checkpoint")
      BY <1>1 DEF TypeOK
    <3>3. \A q \in Sessions : reap'[q].step \in {"read", "remove"} => reap'[q] = reap[q]
      BY <1>2, <1>3
    <3> QED
      BY <3>1, <3>2, <3>3, WriteStep
  <2>2. CASE ~reap[r].context
    <3>1. UNCHANGED <<dir, overtaken, late>>
      BY <2>2 DEF Summary
    <3>2. OwedInv' /\ PausedInv'
      BY <1>1, <3>1 DEF IInv, OwedInv, PausedInv
    <3>3. \A q \in Sessions : q # r => reap'[q] = reap[q]
      BY <1>3
    <3>4. reap'[r].step \notin {"read", "remove"}
      BY <1>2, <1>3
    <3>5. JudgedInv' /\ ReadInv'
      BY <3>1, <3>3, <3>4, LooksHold DEF IInv
    <3> QED
      BY <1>1, <3>1, <3>2, <3>5 DEF TypeOK
  <2> QED
    BY <2>1, <2>2
<1>5. TypeOK' /\ OwnInv'
  <2>1. \A q \in Sessions : q \in overtaken' \cup late' =>
                              q # r /\ reap[q].step \in {"read", "remove"}
    BY <1>1, <1>4 DEF TypeOK
  <2> QED
    BY <1>1, <1>4, <2>1, GoneType
<1>6. PruneInv'
  BY <1>1, <1>2, <1>3, PrunesStay DEF IInv
<1> QED
  BY <1>4, <1>5, <1>6 DEF IInv

LEMMA DieStep ==
  ASSUME IInv, NEW s \in Sessions, Die(s)
  PROVE  IInv'
<1>1. /\ TypeOK /\ run' = [run EXCEPT ![s] = "off"]
      /\ reap' = [reap EXCEPT ![s] = NoReaper]
      /\ overtaken' = overtaken \ {s} /\ late' = late \ {s}
      /\ firm' = IF reap[s].step = "write" THEN {} ELSE firm
      /\ UNCHANGED <<dir, teams, registry, owed, paused>>
  BY DEF Die, IInv
<1>2. NoReaper.step = "off" /\ NoReaper \in Reaper
  BY NoReaperType
<1>3. \A q \in Sessions : reap'[q] = (IF q = s THEN NoReaper ELSE reap[q])
  BY <1>1 DEF TypeOK
<1>4. TypeOK' /\ OwnInv'
  <2>1. dir' \in [Sessions -> Dir] /\ \A q \in Sessions : dir'[q].there \/ dir'[q] = NoDir
    BY <1>1 DEF TypeOK
  <2>2. firm' \subseteq firm /\ overtaken' \cup late' \subseteq Sessions
    BY <1>1 DEF TypeOK
  <2>3. \A q \in Sessions : q \in overtaken' \cup late' =>
                              q # s /\ reap[q].step \in {"read", "remove"}
    BY <1>1 DEF TypeOK
  <2> QED
    BY <1>1, <2>1, <2>2, <2>3, GoneType
<1>5. OwedInv' /\ PausedInv'
  BY <1>1 DEF IInv, OwedInv, PausedInv
<1>6. JudgedInv' /\ ReadInv'
  <2>1. \A q \in Sessions : q # s => /\ reap'[q] = reap[q]
                                     /\ q \in overtaken' <=> q \in overtaken
                                     /\ q \in late' <=> q \in late
    BY <1>1, <1>3
  <2>2. reap'[s].step \notin {"read", "remove"}
    BY <1>2, <1>3
  <2> QED
    BY <1>1, <2>1, <2>2, LooksHold DEF IInv
<1>7. PruneInv'
  <2>1. CASE reap[s].step = "write"
    BY <1>1, <2>1 DEF PruneInv, RegistrationsKept
  <2>2. CASE reap[s].step # "write"
    BY <1>1, <1>2, <1>3, <2>2, PrunesStay DEF IInv
  <2> QED
    BY <2>1, <2>2
<1> QED
  BY <1>4, <1>5, <1>6, <1>7 DEF IInv

LEMMA InitIInv == Init => IInv
<1> SUFFICES ASSUME Init PROVE IInv
  OBVIOUS
<1>1. owed \subseteq Legacy /\ Legacy \subseteq Sessions
  BY LegacySessions DEF Init
<1>2. \A s \in Sessions : reap[s] = NoReaper /\ run[s] = "off"
  BY DEF Init
<1>3. \A s \in Sessions : NoReaper \in Reaper /\ NoReaper.step = "off"
  BY NoReaperType
<1>4. PICK bare, full : /\ bare = <<"other">> \o <<>> /\ full = <<"other">> \o <<"handoff">>
  OBVIOUS
<1>5. /\ bare \in Seq(Entries) /\ full \in Seq(Entries)
      /\ Len(full) = 2 /\ full[2] = "handoff"
  <2>1. <<"other">> \in Seq(Entries) /\ <<"handoff">> \in Seq(Entries) /\ <<>> \in Seq(Entries)
    BY DEF Entries
  <2> QED
    BY <1>4, <2>1
<1>6. Carries(full)
  <2>1. DOMAIN full = 1..2
    BY <1>5
  <2>2. 2 \in 1..2 /\ \A j \in 1..2 : ~(j > 2)
    OBVIOUS
  <2> QED
    BY <1>5, <2>1, <2>2 DEF Carries
<1>7. NoDir \in Dir
  <2>1. <<>> \in Seq(Entries)
    OBVIOUS
  <2> QED
    BY <2>1 DEF NoDir, Dir
<1>8. \A s \in Sessions :
        dir[s] = IF s \in Legacy
                 THEN [NoDir EXCEPT !.there = TRUE, !.old = TRUE, !.context = TRUE,
                         !.journal = IF s \in owed THEN full ELSE bare]
                 ELSE NoDir
  BY <1>4 DEF Init
<1>9. \A s \in Sessions :
        /\ dir[s] \in Dir /\ (dir[s].there \/ dir[s] = NoDir)
        /\ s \in owed => dir[s].journal = full
  <2> SUFFICES ASSUME NEW s \in Sessions
               PROVE  /\ dir[s] \in Dir /\ (dir[s].there \/ dir[s] = NoDir)
                      /\ s \in owed => dir[s].journal = full
    OBVIOUS
  <2>1. CASE s \in Legacy
    <3>1. PICK journal \in Seq(Entries) : /\ journal = IF s \in owed THEN full ELSE bare
      BY <1>5
    <3>2. dir[s] = [NoDir EXCEPT !.there = TRUE, !.old = TRUE, !.context = TRUE,
                                 !.journal = journal]
      BY <1>8, <2>1, <3>1
    <3> QED
      BY <1>7, <3>1, <3>2 DEF Dir
  <2>2. CASE s \notin Legacy
    BY <1>1, <1>7, <1>8, <2>2
  <2> QED
    BY <2>1, <2>2
<1>10. dir \in [Sessions -> Dir]
  BY <1>9 DEF Init
<1>11. reap \in [Sessions -> Reaper] /\ run \in [Sessions -> {"off", "on", "ending"}]
  BY <1>3 DEF Init
<1>12. TypeOK
  <2>1. teams = {} /\ registry \in Seq(Sessions)
    <3>1. <<>> \in Seq(Sessions) /\ \A s \in Sessions : <<s>> \in Seq(Sessions)
      OBVIOUS
    <3>2. teams = {} /\ registry \in {<<>>} \cup {<<s>> : s \in Legacy}
      BY DEF Init
    <3> QED
      BY <1>1, <3>1, <3>2
  <2>2. paused = {} /\ firm = {} /\ overtaken = {} /\ late = {}
    BY DEF Init
  <2> QED
    BY <1>1, <1>2, <1>3, <1>9, <1>10, <1>11, <2>1, <2>2 DEF TypeOK
<1>13. OwnInv /\ JudgedInv /\ ReadInv
  <2>1. NoReaper.todo = {} /\ NoReaper.step = "off"
    BY DEF NoReaper
  <2> QED
    BY <1>2, <2>1 DEF OwnInv, JudgedInv, ReadInv
<1>14. OwedInv /\ PausedInv
  BY <1>1, <1>6, <1>9 DEF OwedInv, PausedInv, Init
<1>15. PruneInv
  BY <1>2, <1>3 DEF PruneInv, Pruning, RegistrationsKept, Init
<1> QED
  BY <1>12, <1>13, <1>14, <1>15 DEF IInv

LEMMA StepIInv == IInv /\ [Next]_vars => IInv'
<1> SUFFICES ASSUME IInv, [Next]_vars PROVE IInv'
  OBVIOUS
<1>1. CASE Tick
  BY <1>1, TickStep
<1>2. ASSUME NEW s \in Sessions,
             \/ \E source \in {"start", "clear"}, written \in BOOLEAN :
                  SessionStart(s, source, written)
             \/ Touch(s) \/ Register(s) \/ TearDown(s)
             \/ \E entry \in {"handoff", "consolidated", "checkpoint", "cut"} :
                  Record(s, entry)
      PROVE  IInv'
  BY <1>2, SessionStartStep, TouchStep, RegisterStep, TearDownStep, RecordStep
<1>3. ASSUME NEW s \in Sessions,
             \/ SessionEnd(s)
             \/ \E v \in Sessions : Judge(s, v)
             \/ ReadJournal(s) \/ RemoveTree(s)
             \/ PruneRead(s) \/ PruneTruncate(s) \/ PruneWrite(s) \/ PruneFails(s)
             \/ Summary(s) \/ Die(s)
      PROVE  IInv'
  BY <1>3, SessionEndStep, JudgeStep, ReadJournalStep, RemoveTreeStep, PruneReadStep,
     PruneTruncateStep, PruneWriteStep, PruneFailsStep, SummaryStep, DieStep
<1>4. CASE UNCHANGED vars
  BY <1>4 DEF vars, history, counters, IInv, TypeOK, OwnInv, OwedInv, PausedInv, JudgedInv,
     ReadInv, PruneInv, Pruning, RegistrationsKept, InPlace, OldEnough
<1> QED
  BY <1>1, <1>2, <1>3, <1>4 DEF Next

-----------------------------------------------------------------------------
(* What follows. *)

LEMMA AlwaysIInv == Spec => []IInv
<1>1. Init => IInv
  BY InitIInv
<1>2. IInv /\ [Next]_vars => IInv'
  BY StepIInv
<1> QED
  BY <1>1, <1>2, PTL DEF Spec

\* Every variable has its type; a reaper never looks at the directory of its own
\* session, and one that has judged a directory is still at it.
THEOREM TypeCorrect == Spec => []TypeOK
<1>1. IInv => TypeOK
  BY DEF IInv
<1> QED
  BY <1>1, AlwaysIInv, PTL

\* A teammate whose team is there stays in the registry however many sessions
\* prune it at once, with the exceptions that RegistrationsKept names.
THEOREM TeammatesStay == Spec => []RegistrationsKept
<1>1. IInv => RegistrationsKept
  BY DEF IInv, PruneInv
<1> QED
  BY <1>1, AlwaysIInv, PTL

\* A reaper that removes a directory had found it where it still is.
LEMMA RemovesInPlace ==
  ASSUME TypeOK, [Next]_vars, NEW r \in Sessions, Removes(r)
  PROVE  InPlace(r)
<1>1. RemoveTree(r)
  <2>1. reap[r].step = "remove" /\ reap'[r] # reap[r] /\ reap'[r].step = "next"
    BY DEF Removes
  <2>2. run[r] = "ending" /\ reap \in [Sessions -> Reaper]
    BY <2>1 DEF TypeOK
  <2>3. ~(UNCHANGED reap)
    BY <2>1
  <2>4. NoReaper.step = "off"
    BY NoReaperType
  <2>5. ASSUME NEW s \in Sessions, NEW new, reap' = [reap EXCEPT ![s] = new]
        PROVE  s = r /\ new.step = "next"
    BY <2>1, <2>2, <2>5
  <2>6. \A s \in Sessions : ~SessionEnd(s)
    <3> SUFFICES ASSUME NEW s \in Sessions, SessionEnd(s) PROVE FALSE
      OBVIOUS
    <3>1. run[s] = "on" /\ s # r
      BY <2>2 DEF SessionEnd
    <3>2. PICK new : reap' = [reap EXCEPT ![s] = new]
      BY DEF SessionEnd
    <3> QED
      BY <2>5, <3>1, <3>2
  <2>7. ~Tick
    BY <2>3 DEF Tick
  <2>8. \A s \in Sessions :
          /\ ~(\E source \in {"start", "clear"}, written \in BOOLEAN :
                 SessionStart(s, source, written))
          /\ ~Touch(s) /\ ~Register(s) /\ ~TearDown(s)
          /\ ~(\E entry \in {"handoff", "consolidated", "checkpoint", "cut"} :
                 Record(s, entry))
    BY <2>3 DEF SessionStart, Touch, Register, TearDown, Record
  <2>9. \A s, v \in Sessions : ~Judge(s, v)
    <3> SUFFICES ASSUME NEW s \in Sessions, NEW v \in Sessions, Judge(s, v) PROVE FALSE
      OBVIOUS
    <3>1. reap[s].step = "next" /\ s # r
      BY <2>1 DEF Judge
    <3>2. PICK new : reap' = [reap EXCEPT ![s] = new]
      BY DEF Judge, NextEntry
    <3> QED
      BY <2>5, <3>1, <3>2
  <2>10. \A s \in Sessions : ~ReadJournal(s)
    <3> SUFFICES ASSUME NEW s \in Sessions, ReadJournal(s) PROVE FALSE
      OBVIOUS
    <3>1. reap[s].step = "read" /\ s # r
      BY <2>1 DEF ReadJournal
    <3>2. PICK new : reap' = [reap EXCEPT ![s] = new]
      BY DEF ReadJournal, NextEntry
    <3> QED
      BY <2>5, <3>1, <3>2
  <2>11. \A s \in Sessions : ~PruneRead(s)
    <3> SUFFICES ASSUME NEW s \in Sessions, PruneRead(s) PROVE FALSE
      OBVIOUS
    <3>1. reap[s].step \in {"prune", "next"} /\ s # r
      BY <2>1 DEF PruneRead
    <3>2. PICK new : reap' = [reap EXCEPT ![s] = new]
      BY DEF PruneRead
    <3> QED
      BY <2>5, <3>1, <3>2
  <2>12. \A s \in Sessions : ~PruneTruncate(s) /\ ~PruneWrite(s) /\ ~PruneFails(s)
    <3> SUFFICES ASSUME NEW s \in Sessions,
                        PruneTruncate(s) \/ PruneWrite(s) \/ PruneFails(s)
                 PROVE  FALSE
      OBVIOUS
    <3>1. reap[s].step \in {"truncate", "write"} /\ s # r
      BY <2>1 DEF PruneTruncate, PruneWrite, PruneFails
    <3>2. PICK new : reap' = [reap EXCEPT ![s] = new]
      BY DEF PruneTruncate, PruneWrite, PruneFails
    <3> QED
      BY <2>5, <3>1, <3>2
  <2>13. \A s \in Sessions : ~Summary(s) /\ ~Die(s)
    BY <2>4, <2>5 DEF Summary, Die
  <2>14. PICK s \in Sessions : RemoveTree(s)
    BY <2>3, <2>6, <2>7, <2>8, <2>9, <2>10, <2>11, <2>12, <2>13 DEF Next, vars
  <2>15. PICK new : reap' = [reap EXCEPT ![s] = new]
    BY <2>14 DEF RemoveTree, NextEntry
  <2> QED
    BY <2>5, <2>14, <2>15
<1>2. ~(UNCHANGED dir)
  BY DEF Removes
<1> QED
  BY <1>1, <1>2 DEF RemoveTree

\* A directory is removed with an owed handoff in it only if something was
\* written to it after the reaper had read its journal, or no line of that can
\* be read.
THEOREM HandoffsAreKept == Spec => HandoffsKept
<1>1. ASSUME IInv, [Next]_vars, NEW r \in Sessions, Removes(r), r \notin late,
             Legible(dir[reap[r].victim].journal) # {}
      PROVE  reap[r].victim \notin owed
  <2>1. InPlace(r) /\ reap[r].step = "remove"
    BY <1>1, RemovesInPlace DEF IInv, Removes
  <2>2. Spent(dir[reap[r].victim].journal)
    BY <1>1, <2>1 DEF IInv, ReadInv
  <2>3. ~Carries(dir[reap[r].victim].journal) /\ ~Damaged(dir[reap[r].victim].journal)
    BY <1>1, <2>2 DEF Spent
  <2> QED
    BY <1>1, <2>3 DEF IInv, OwedInv
<1>2. IInv /\ [Next]_vars =>
        [\A r \in Sessions :
           (Removes(r) /\ r \notin late /\ Legible(dir[reap[r].victim].journal) # {})
              => reap[r].victim \notin owed]_vars
  BY <1>1
<1> QED
  BY <1>2, AlwaysIInv, PTL DEF Spec, HandoffsKept

\* A directory that has changed since its journal was read has changed since it
\* was judged.
LateInv == late \subseteq overtaken

LEMMA AlwaysLateInv == Spec => []LateInv
<1>1. Init => LateInv
  BY DEF Init, LateInv
<1>2. LateInv /\ [Next]_vars => LateInv'
  <2> SUFFICES ASSUME LateInv, [Next]_vars PROVE LateInv'
    OBVIOUS
  <2>1. \A s, d : SetDir(s, d) => LateInv'
    BY DEF SetDir, Watching, LateInv
  <2>2. \A r, v : NextEntry(r, v) => LateInv'
    BY DEF NextEntry, LateInv
  <2>3. UNCHANGED <<overtaken, late>> => LateInv'
    BY DEF LateInv
  <2>4. CASE Tick
    BY <2>3, <2>4 DEF Tick, history
  <2>5. ASSUME NEW s \in Sessions,
               \/ \E source \in {"start", "clear"}, written \in BOOLEAN :
                    SessionStart(s, source, written)
               \/ Touch(s)
               \/ \E entry \in {"handoff", "consolidated", "checkpoint", "cut"} :
                    Record(s, entry)
        PROVE  LateInv'
    BY <2>1, <2>5 DEF SessionStart, Touch, Record, Write
  <2>6. ASSUME NEW s \in Sessions,
               \/ Register(s) \/ TearDown(s)
               \/ PruneRead(s) \/ PruneTruncate(s) \/ PruneWrite(s) \/ PruneFails(s)
        PROVE  LateInv'
    BY <2>3, <2>6 DEF Register, TearDown, PruneRead, PruneTruncate, PruneWrite, PruneFails,
                      history
  <2>7. ASSUME NEW s \in Sessions, SessionEnd(s) \/ Summary(s)
        PROVE  LateInv'
    BY <2>1, <2>3, <2>7 DEF SessionEnd, Summary, Write
  <2>8. ASSUME NEW s \in Sessions,
               (\E v \in Sessions : Judge(s, v)) \/ ReadJournal(s) \/ RemoveTree(s)
        PROVE  LateInv'
    BY <2>2, <2>3, <2>8 DEF Judge, ReadJournal, RemoveTree
  <2>9. ASSUME NEW s \in Sessions, Die(s)
        PROVE  LateInv'
    BY <2>9 DEF Die, LateInv
  <2>10. CASE UNCHANGED vars
    BY <2>3, <2>10 DEF vars, history
  <2> QED
    BY <2>4, <2>5, <2>6, <2>7, <2>8, <2>9, <2>10 DEF Next
<1> QED
  BY <1>1, <1>2, PTL DEF Spec

\* A directory is removed only when it has had its time, which is longer for a
\* session that was paused; or it changed after the reaper had judged it, or no
\* line of its journal can be read.
THEOREM LifetimesAreKept == Spec => LifetimesKept
<1>1. ASSUME IInv, LateInv, [Next]_vars, NEW r \in Sessions, Removes(r), r \notin overtaken,
             Legible(dir[reap[r].victim].journal) # {}
      PROVE  dir[reap[r].victim].age > (IF reap[r].victim \in paused THEN 1 ELSE 0)
  <2>1. InPlace(r) /\ reap[r].step = "remove" /\ r \notin late
    BY <1>1, RemovesInPlace DEF IInv, Removes, LateInv
  <2>2. PICK v \in Sessions : v = reap[r].victim
    BY <1>1 DEF IInv, TypeOK, Reaper
  <2>3. PICK age \in Nat : age = dir[v].age
    <3>1. dir[v] \in Dir
      BY <1>1 DEF IInv, TypeOK
    <3> QED
      BY <3>1 DEF Dir
  <2>4. ~Damaged(dir[v].journal)
    BY <1>1, <2>1, <2>2 DEF IInv, ReadInv, Spent
  <2>5. OldEnough(v)
    BY <1>1, <2>1, <2>2 DEF IInv, JudgedInv
  <2>6. v \in paused => Checkpointed(dir[v].journal)
    BY <1>1, <2>4 DEF IInv, PausedInv
  <2>7. age > (IF v \in paused THEN 1 ELSE 0)
    BY <2>3, <2>5, <2>6 DEF OldEnough
  <2> QED
    BY <2>2, <2>3, <2>7
<1>2. IInv /\ LateInv /\ [Next]_vars =>
        [\A r \in Sessions :
           (Removes(r) /\ r \notin overtaken /\ Legible(dir[reap[r].victim].journal) # {})
              => dir[reap[r].victim].age > (IF reap[r].victim \in paused THEN 1 ELSE 0)]_vars
  BY <1>1
<1> QED
  BY <1>2, AlwaysIInv, AlwaysLateInv, PTL DEF Spec, LifetimesKept

-----------------------------------------------------------------------------
(* The bootstrap gate, for any number of marker writers, clears, removals and
   faults.  WorkAfterSecretary is not inductive: that the gate is open must come
   from a marker, the marker from a writer that has seen a secretary, and what
   the writer saw from a task for it. *)

CONSTANTS Writers, MaxRemovals
VARIABLES desktop, gateRun, gateDir, team, spawned, called, writer, gateStarts,
          removals, gateFaults, asked, worked, failed

Gate == INSTANCE Bootstrap WITH run <- gateRun, dir <- gateDir, starts <- gateStarts,
                                faults <- gateFaults

\* Whoever could let the lead through has seen a task for a secretary.
Witnessed ==
  /\ team \in {"assigned", "joined"} => asked
  /\ gateDir.marker # "none" => asked
  /\ \A w \in Writers : writer[w] = "write" => asked
  /\ Gate!WorkAfterSecretary

GateInv == Gate!TypeOK /\ Witnessed

LEMMA InitEstablishes == Gate!Init => GateInv
<1> SUFFICES ASSUME Gate!Init
             PROVE  GateInv
  OBVIOUS
<1>1. Gate!TypeOK
  BY DEF Gate!Init, Gate!TypeOK, Gate!Dir, Gate!NoDir, Gate!Teams
<1>2. Witnessed
  BY DEF Gate!Init, Witnessed, Gate!WorkAfterSecretary, Gate!NoDir
<1> QED  BY <1>1, <1>2 DEF GateInv

LEMMA StartPreserves ==
  ASSUME GateInv,
         NEW source \in {"start", "clear", "compact"},
         NEW written \in BOOLEAN, NEW updated \in BOOLEAN,
         Gate!SessionStart(source, written, updated)
  PROVE  GateInv'
<1>1. Gate!TypeOK'
  BY DEF GateInv, Gate!TypeOK, Gate!SessionStart, Gate!Dir, Gate!NoDir, Gate!Teams
<1>2. Witnessed'
  BY DEF GateInv, Gate!TypeOK, Witnessed, Gate!WorkAfterSecretary, Gate!SessionStart,
     Gate!Dir, Gate!Teams
<1> QED  BY <1>1, <1>2 DEF GateInv

LEMMA StopPreserves == GateInv /\ Gate!Stop => GateInv'
<1> SUFFICES ASSUME GateInv, Gate!Stop
             PROVE  GateInv'
  OBVIOUS
<1>1. Gate!TypeOK'
  BY DEF GateInv, Gate!TypeOK, Gate!Stop, Gate!Dir, Gate!NoDir, Gate!Teams,
     Gate!counters, Gate!history
<1>2. Witnessed'
  BY DEF GateInv, Gate!TypeOK, Witnessed, Gate!WorkAfterSecretary, Gate!Stop, Gate!NoDir,
     Gate!counters, Gate!history
<1> QED  BY <1>1, <1>2 DEF GateInv

LEMMA RemovedPreserves == GateInv /\ Gate!Removed => GateInv'
<1> SUFFICES ASSUME GateInv, Gate!Removed
             PROVE  GateInv'
  OBVIOUS
<1>1. Gate!TypeOK'
  BY DEF GateInv, Gate!TypeOK, Gate!Removed, Gate!Dir, Gate!NoDir, Gate!Teams,
     Gate!counters, Gate!history
<1>2. Witnessed'
  BY DEF GateInv, Gate!TypeOK, Witnessed, Gate!WorkAfterSecretary, Gate!Removed,
     Gate!NoDir, Gate!counters, Gate!history
<1> QED  BY <1>1, <1>2 DEF GateInv

\* The lead works only through a marker that is valid, or unseen by the gate.
LEMMA LeadPreserves ==
  GateInv /\ (Gate!Assign \/ Gate!Spawn \/ Gate!Edit \/ Gate!Dispatch) => GateInv'
<1> SUFFICES ASSUME GateInv, Gate!Assign \/ Gate!Spawn \/ Gate!Edit \/ Gate!Dispatch
             PROVE  GateInv'
  OBVIOUS
<1> USE DEF GateInv, Gate!TypeOK, Witnessed, Gate!WorkAfterSecretary, Gate!Dir,
   Gate!NoDir, Gate!Teams, Gate!counters, Gate!history
<1>1. CASE Gate!Assign
  BY <1>1 DEF Gate!Assign
<1>2. CASE Gate!Spawn
  BY <1>2 DEF Gate!Spawn, Gate!DispatchAllowed
<1>3. CASE Gate!Edit
  BY <1>3 DEF Gate!Edit, Gate!Open
<1>4. CASE Gate!Dispatch
  BY <1>4 DEF Gate!Dispatch, Gate!Open
<1> QED  BY <1>1, <1>2, <1>3, <1>4

LEMMA WriterPreserves ==
  ASSUME GateInv, NEW w \in Writers,
         \/ Gate!PromptHook(w) \/ Gate!AgentHook(w)
         \/ Gate!Heal(w) \/ Gate!Look(w) \/ Gate!Align(w) \/ Gate!Ask(w)
         \/ Gate!WriteMarker(w) \/ Gate!WriteMarkerFails(w)
  PROVE  GateInv'
<1> USE DEF GateInv, Gate!TypeOK, Witnessed, Gate!WorkAfterSecretary, Gate!Dir,
   Gate!NoDir, Gate!Teams, Gate!counters, Gate!history
<1>1. CASE Gate!PromptHook(w)
  BY <1>1 DEF Gate!PromptHook, Gate!Goto
<1>2. CASE Gate!AgentHook(w)
  BY <1>2 DEF Gate!AgentHook, Gate!Goto
<1>3. CASE Gate!Heal(w)
  BY <1>3 DEF Gate!Heal, Gate!Goto, Gate!Fault
<1>4. CASE Gate!Look(w)
  BY <1>4 DEF Gate!Look, Gate!Goto
<1>5. CASE Gate!Align(w)
  BY <1>5 DEF Gate!Align, Gate!Goto
<1>6. CASE Gate!Ask(w)
  BY <1>6 DEF Gate!Ask, Gate!Goto, Gate!TeamHasSecretary
<1>7. CASE Gate!WriteMarker(w)
  BY <1>7 DEF Gate!WriteMarker, Gate!Goto
<1>8. CASE Gate!WriteMarkerFails(w)
  BY <1>8 DEF Gate!WriteMarkerFails, Gate!Goto
<1> QED  BY <1>1, <1>2, <1>3, <1>4, <1>5, <1>6, <1>7, <1>8

LEMMA NextPreserves == GateInv /\ [Gate!Next]_Gate!vars => GateInv'
<1> SUFFICES ASSUME GateInv, [Gate!Next]_Gate!vars
             PROVE  GateInv'
  OBVIOUS
<1>1. CASE UNCHANGED Gate!vars
  BY <1>1 DEF Gate!vars, Gate!counters, Gate!history, GateInv, Gate!TypeOK, Witnessed,
     Gate!WorkAfterSecretary
<1>2. CASE Gate!Next
  BY <1>2, StartPreserves, StopPreserves, RemovedPreserves, LeadPreserves,
     WriterPreserves DEF Gate!Next
<1> QED  BY <1>1, <1>2

\* The bootstrap's variables keep their types: a marker is never without its
\* directory, and no hook is due or at work in a session that has ended.
THEOREM BootstrapTypeCorrect == Gate!Spec => []Gate!TypeOK
<1>1. GateInv => Gate!TypeOK
  BY DEF GateInv
<1> QED  BY <1>1, InitEstablishes, NextPreserves, PTL DEF Gate!Spec

\* The gate lets no edit and no dispatch through in a session it knows before
\* there has been a task for a secretary.
THEOREM NoWorkBeforeSecretary == Gate!Spec => []Gate!WorkAfterSecretary
<1>1. GateInv => Gate!WorkAfterSecretary
  BY DEF GateInv, Witnessed
<1> QED  BY <1>1, InitEstablishes, NextPreserves, PTL DEF Gate!Spec

=============================================================================
