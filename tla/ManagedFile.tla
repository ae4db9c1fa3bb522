---------------------------- MODULE ManagedFile ----------------------------
(***************************************************************************)
(* CLAUDE.md and the processes that rewrite it: the steps of session start *)
(* (hooks/shared/claude_md_manager.py, session_resume.py, staleness.py),   *)
(* the pin marker writer, and the memory skill's copy of recent memories   *)
(* (skills/pact-memory/scripts/working_memory.py).  Each of them finds the *)
(* file, takes the lock of its directory for at most five seconds, reads,  *)
(* and replaces the file in one step.  Two of them plan outside the lock   *)
(* and compare inside it.  Users and the Edit tool take no lock.           *)
(***************************************************************************)
EXTENDS Integers, FiniteSets, Sequences

CONSTANTS
  Procs,        \* processes that run one operation at a time
  Notes,        \* what users write: a paragraph or a pin
  Sizes,        \* token counts of the memories that are saved
  HeadTokens,   \* the lines of a memory that are never cut: date and id
  NoteTokens,   \* what a note of a user adds to the memory it is written into
  MaxMemories, TokenBudget, CompressedCeiling,  \* constants of the source
  MaxSaves,     \* bound: memories saved
  MaxWrites,    \* bound: files replaced by the plugin
  MaxEdits,     \* bound: edits without the lock
  NoProc        \* no process

ASSUME NoProcAssumption == NoProc \notin Procs
ASSUME SizesAssumption == Sizes \subseteq Nat
ASSUME BoundsAssumption == /\ MaxWrites \in Nat /\ MaxEdits \in Nat
                           /\ MaxSaves \in Nat

VARIABLES
  doc,       \* per file: its content
  lock,      \* per file: the process that holds its sidecar lock
  pc, op,    \* per process: the next step of its operation
  file,      \* per process: the path it has resolved
  snap,      \* per process: the content its plan or its write starts from
  mem,       \* per process: the memories it came to write, newest first
  store,     \* the memories saved for the project, newest first
  writes, edits, saves, \* counters for the bounds; saves numbers the memories
  stale,     \* history: processes whose snapshot an unlocked edit has outdated
  noted,     \* history: per file, what users wrote and did not remove
  lost,      \* history: what a process in stale wrote over
  taken,     \* history: what stood in a part of the file that was rewritten
  longer,    \* history: sections where a user lengthened the head of a memory
  recorded   \* history: per file and section, the newest memories written to it

procVars == <<pc, op, file, snap, mem>>
counters == <<writes, edits, saves>>
history  == <<stale, noted, lost, taken, longer, recorded>>
vars == <<doc, lock, procVars, store, counters, history>>

\* .claude/CLAUDE.md and CLAUDE.md of the project, and the one of the home
\* directory, where only the block of an old version is removed.
ProjectFiles == {"dot_claude", "legacy"}
Files        == ProjectFiles \cup {"home"}
Sections     == {"working", "retrieved"}

\* The budget of the working memories has room for all of them compressed, and
\* what is never cut of a memory the plugin wrote fits into its share.
ASSUME BudgetAssumption ==
  /\ MaxMemories \in Nat \ {0} /\ CompressedCeiling \in Nat
  /\ HeadTokens \in Nat /\ NoteTokens \in Nat
  /\ TokenBudget \in [Sections -> Nat]
  /\ MaxMemories * CompressedCeiling <= TokenBudget["working"]
  /\ HeadTokens <= CompressedCeiling
  /\ MaxMemories * HeadTokens <= TokenBudget["retrieved"]

Planned   == {"staleness", "markers"}     \* plan first, then lock and compare
Creating  == {"ensure", "session"}        \* may write a file that is not there
Memorial  == Sections \cup {"project"}    \* "project" replaces the section
Ops == Planned \cup Creating \cup Memorial \cup {"migrate", "strip"}

Steps == {"idle", "dot_claude", "legacy", "plan", "lock", "read", "write"}

\* A memory in a section, with what users wrote into the lines that are never
\* cut and below them.
Entry == [id : Nat, tokens : Nat, head : SUBSET Notes, below : SUBSET Notes]
Doc == [exists  : BOOLEAN,
        managed : BOOLEAN,                   \* PACT_MANAGED_START ... END
        region  : BOOLEAN,                   \* the memory markers inside it
        block   : BOOLEAN,                   \* the Current Session block
        session : BOOLEAN,                   \* it names a session
        inblock : SUBSET Notes,              \* what users wrote into it
        shown   : [Sections -> Seq(Entry)],  \* newest first
        above   : [Sections -> SUBSET Notes],\* text before the first of them
        pins    : SUBSET Notes,
        aged    : SUBSET Notes,              \* pins that carry a STALE marker
        marked  : BOOLEAN,                   \* the pair around the pins
        text    : SUBSET Notes,
        kernel  : {"none", "pair", "broken"}]

NoFile == [exists |-> FALSE, managed |-> FALSE, region |-> FALSE,
           block |-> FALSE, session |-> FALSE, inblock |-> {},
           shown |-> [s \in Sections |-> <<>>],
           above |-> [s \in Sections |-> {}],
           pins |-> {}, aged |-> {}, marked |-> FALSE, text |-> {},
           kernel |-> "none"]

TypeOK ==
  /\ doc \in [Files -> Doc]
  /\ \A f \in Files, s \in Sections : Len(doc[f].shown[s]) <= MaxMemories
  /\ lock \in [Files -> Procs \cup {NoProc}]
  /\ pc \in [Procs -> Steps]
  /\ op \in [Procs -> Ops]
  /\ file \in [Procs -> Files]
  /\ snap \in [Procs -> Doc]
  /\ mem \in [Procs -> Seq(Nat)]
  /\ store \in Seq(Nat)
  /\ writes \in 0 .. MaxWrites /\ edits \in 0 .. MaxEdits
  /\ saves \in 0 .. MaxSaves
  /\ stale \subseteq Procs
  /\ noted \in [Files -> SUBSET Notes]
  /\ lost \subseteq Notes /\ taken \subseteq Notes
  /\ longer \subseteq Files \X Sections
  /\ recorded \in [Files -> [Sections -> Seq(Nat)]]

\* A project may have a CLAUDE.md with pins from an old version of the plugin.
Old(ns) == IF ns = {} THEN NoFile ELSE [NoFile EXCEPT !.exists = TRUE, !.pins = ns]

Init ==
  /\ \E ns \in SUBSET Notes :
       /\ doc = [f \in Files |-> IF f = "dot_claude" THEN Old(ns) ELSE NoFile]
       /\ noted = [f \in Files |-> IF f = "dot_claude" THEN ns ELSE {}]
  /\ lock = [f \in Files |-> NoProc]
  /\ pc = [p \in Procs |-> "idle"]
  /\ op = [p \in Procs |-> "ensure"]
  /\ file = [p \in Procs |-> "dot_claude"]
  /\ snap = [p \in Procs |-> NoFile]
  /\ mem = [p \in Procs |-> <<>>]
  /\ store = <<>>
  /\ writes = 0 /\ edits = 0 /\ saves = 0
  /\ stale = {} /\ lost = {} /\ taken = {} /\ longer = {}
  /\ recorded = [f \in Files |-> [s \in Sections |-> <<>>]]

----------------------------------------------------------------------------
(* What the operations make of a content. *)

Least(a, b)    == IF a < b THEN a ELSE b
Greatest(a, b) == IF a < b THEN b ELSE a
\* Mutant: one entry more than there is room for.
NewestAndOne(s) == SubSeq(s, 1, Least(MaxMemories + 1, Len(s)))

Newest(s)    == SubSeq(s, 1, Least(MaxMemories, Len(s)))
Tokens(s) ==
  LET sum[n \in 0 .. Len(s)] == IF n = 0 THEN 0 ELSE sum[n - 1] + s[n].tokens
  IN sum[Len(s)]
\* The lines with the date and the id of a memory stay; the others are dropped
\* from the end until the memory fits, or until none is left.
Uncut(e)    == HeadTokens + IF e.head = {} THEN 0 ELSE NoteTokens
Cut(e, cap) == IF e.tokens <= cap THEN e
               ELSE [e EXCEPT !.tokens = Greatest(cap, Uncut(e)), !.below = {}]
CapTokens(s, cap) == [i \in DOMAIN s |-> Cut(s[i], cap)]

\* The same lines and a summary of 120 characters.
Compressed(s) ==
  [i \in DOMAIN s |->
     [s[i] EXCEPT !.tokens = Least(@, Greatest(CompressedCeiling, Uncut(s[i]))),
                  !.below = {}]]

\* The part of the budget one entry may use: what the others leave when they
\* are compressed, or an equal share.
Ceiling(section) ==
  IF section = "working"
  THEN TokenBudget[section] - (MaxMemories - 1) * CompressedCeiling
  ELSE TokenBudget[section] \div MaxMemories

\* Drop from the end, but never the newest.
DropOldest(s, budget) ==
  LET fits == {n \in 1 .. Len(s) : n = 1 \/ Tokens(SubSeq(s, 1, n)) <= budget}
  IN SubSeq(s, 1, CHOOSE n \in fits : \A m \in fits : m <= n)

\* Mutant: working memories that do not fit are dropped like the retrieved ones.
FitUncompressed(section, entries) ==
  LET cut == CapTokens(Newest(entries), Ceiling(section))
      budget == TokenBudget[section]
  IN IF Tokens(cut) <= budget THEN cut ELSE DropOldest(cut, budget)

\* Working memories are compressed, all but the newest, before any is dropped.
Fit(section, entries) ==
  LET cut == CapTokens(Newest(entries), Ceiling(section))
      compressed == <<Head(cut)>> \o Compressed(Tail(cut))
      budget == TokenBudget[section]
  IN IF Tokens(cut) <= budget THEN cut
     ELSE DropOldest(IF section = "working" THEN compressed ELSE cut, budget)

Created == [NoFile EXCEPT !.exists = TRUE, !.managed = TRUE, !.region = TRUE,
                           !.block = TRUE]

\* The lines a memory may be written to: between the memory markers; without
\* them after the session block; anywhere in a file that is not managed.
WriteWindow(d) == ~d.managed \/ d.region \/ d.block

\* Some pin is old and carries no STALE marker yet (all pins are old here).
SomeUnaged(d) == d.exists /\ d.aged # d.pins

\* plan_insertion: a Pinned Context section in the memory region, unmarked.
Markable(d) == d.exists /\ d.managed /\ d.region /\ d.pins # {} /\ ~d.marked

\* Exactly one pair of the old kernel markers.
Strippable(d) == d.exists /\ d.kernel = "pair"

\* Whether an operation that reads d goes on to write.
Wanted(o, d) ==
  CASE o = "ensure"    -> ~d.exists
    [] o = "session"   -> TRUE
    [] o = "migrate"   -> d.exists /\ ~d.managed
    [] o \in Memorial  -> d.exists /\ WriteWindow(d)
    [] o = "staleness" -> SomeUnaged(d)
    [] o = "markers"   -> Markable(d)
    [] o = "strip"     -> Strippable(d)

SessionNamed(d) ==
  [(IF d.exists THEN d ELSE Created) EXCEPT !.session = TRUE, !.block = TRUE,
                                            !.inblock = {}]
Migrated(d)        == [d EXCEPT !.managed = TRUE, !.region = TRUE]

\* The memories with these ids, formatted.  A record may be updated between two
\* writes of it, so its size is chosen at each.
Entries(ids, sizes) ==
  [i \in DOMAIN ids |->
     [id |-> ids[i], tokens |-> sizes[i], head |-> {}, below |-> {}]]

\* A section is written anew from its memories: what is no part of one goes.  A
\* save or a search puts its memory first, a projection replaces them all.
Rebuilt(section, entries, d) ==
  [d EXCEPT !.shown[section] = Fit(section, entries), !.above[section] = {}]
Remembered(section, m, d) == Rebuilt(section, m \o d.shown[section], d)
Projected(m, d)           == Rebuilt("working", m, d)
Aged(d)     == [d EXCEPT !.aged = d.pins]
Marked(d)   == [d EXCEPT !.marked = TRUE]
Stripped(d) == [d EXCEPT !.kernel = "none"]

\* What it writes; m are the memories it came with.
Effect(o, m, d) ==
  CASE o = "ensure"    -> Created
    [] o = "session"   -> SessionNamed(d)
    [] o = "migrate"   -> Migrated(d)
    [] o \in Sections  -> Remembered(o, m, d)
    [] o = "project"   -> Projected(m, d)
    [] o = "staleness" -> Aged(d)
    [] o = "markers"   -> Marked(d)
    [] o = "strip"     -> Stripped(d)

\* The part of the file that an operation o rebuilds, and what users wrote there.
SectionOf(o) == IF o = "project" THEN "working" ELSE o
Inside(o, d) ==
  IF o = "session" THEN d.inblock
  ELSE IF o \in Memorial
  THEN LET s == SectionOf(o)
       IN d.above[s] \cup UNION {d.shown[s][i].head \cup d.shown[s][i].below :
                                    i \in DOMAIN d.shown[s]}
  ELSE {}
Written(d) == d.text \cup d.pins \cup UNION {Inside(o, d) : o \in Sections \cup {"session"}}

Ids(s) == [i \in DOMAIN s |-> s[i].id]

----------------------------------------------------------------------------
(* The steps of an operation. *)

Goto(p, step) == pc' = [pc EXCEPT ![p] = step]

\* The operation returns; closing the descriptor of the lock frees it.
End(p) ==
  /\ Goto(p, "idle")
  /\ lock' = [f \in Files |-> IF lock[f] = p THEN NoProc ELSE lock[f]]
  /\ snap' = [snap EXCEPT ![p] = NoFile]
  /\ op' = [op EXCEPT ![p] = "ensure"]
  /\ file' = [file EXCEPT ![p] = "dot_claude"]
  /\ mem' = [mem EXCEPT ![p] = <<>>]
  /\ stale' = stale \ {p}

\* A new memory is in the store before the file is looked for; a search brings
\* one of the store; a projection first lists the newest of the store.
Fetch(p, o) ==
  \/ /\ o = "working" /\ saves < MaxSaves
     /\ saves' = saves + 1
     /\ mem' = [mem EXCEPT ![p] = <<saves + 1>>]
     /\ store' = <<saves + 1>> \o store
  \/ /\ o = "retrieved"
     /\ \E i \in DOMAIN store : mem' = [mem EXCEPT ![p] = <<store[i]>>]
     /\ UNCHANGED <<store, saves>>
  \/ /\ o = "project" /\ store # <<>>
     /\ mem' = [mem EXCEPT ![p] = Newest(store)]
     /\ UNCHANGED <<store, saves>>
  \/ o \notin Memorial /\ UNCHANGED <<mem, store, saves>>

Start(p) ==
  /\ pc[p] = "idle"
  /\ writes + Cardinality({q \in Procs : pc[q] # "idle"}) < MaxWrites
  /\ \E o \in Ops :
       /\ op' = [op EXCEPT ![p] = o]
       /\ Fetch(p, o)
       /\ IF o = "strip"
          THEN /\ doc["home"].exists
               /\ file' = [file EXCEPT ![p] = "home"]
               /\ Goto(p, "lock")
          ELSE /\ Goto(p, "dot_claude")
               /\ UNCHANGED file
  /\ UNCHANGED <<doc, lock, snap, writes, edits, history>>

\* resolve_project_claude_md_path tests the two places one after the other.
Found(p, f) ==
  IF op[p] = "ensure"
  THEN End(p)
  ELSE /\ file' = [file EXCEPT ![p] = f]
       /\ Goto(p, IF op[p] \in Planned THEN "plan" ELSE "lock")
       /\ UNCHANGED <<lock, op, snap, mem, stale>>

LookDotClaude(p) ==
  /\ pc[p] = "dot_claude"
  /\ IF doc["dot_claude"].exists
     THEN Found(p, "dot_claude")
     ELSE Goto(p, "legacy") /\ UNCHANGED <<lock, op, file, snap, mem, stale>>
  /\ UNCHANGED <<doc, store, counters, noted, lost, taken, longer, recorded>>

LookLegacy(p) ==
  /\ pc[p] = "legacy"
  /\ IF doc["legacy"].exists
     THEN Found(p, "legacy")
     ELSE IF op[p] \in Creating
          THEN Goto(p, "lock") /\ UNCHANGED <<lock, op, file, snap, mem, stale>>
          ELSE End(p)
  /\ UNCHANGED <<doc, store, counters, noted, lost, taken, longer, recorded>>

\* check_pinned_staleness and _plan_and_write read before they lock.
PlanWrite(p) ==
  /\ pc[p] = "plan"
  /\ IF Wanted(op[p], doc[file[p]])
     THEN /\ snap' = [snap EXCEPT ![p] = doc[file[p]]]
          /\ Goto(p, "lock")
          /\ UNCHANGED <<lock, op, file, mem, stale>>
     ELSE End(p)
  /\ UNCHANGED <<doc, store, counters, noted, lost, taken, longer, recorded>>

Lock(p) ==
  /\ pc[p] = "lock" /\ lock[file[p]] = NoProc
  /\ lock' = [lock EXCEPT ![file[p]] = p]
  /\ Goto(p, "read")
  /\ UNCHANGED <<doc, op, file, snap, mem, store, counters, history>>

\* Mutant: after five seconds the process goes on without the lock.
LockFallsOpen(p) ==
  /\ pc[p] = "lock" /\ lock[file[p]] # NoProc
  /\ Goto(p, "read")
  /\ UNCHANGED <<doc, lock, op, file, snap, mem, store, counters, history>>

\* Mutant: there is no deadline; the process polls while the lock is held.
LockPolls(p) ==
  /\ pc[p] = "lock" /\ lock[file[p]] # NoProc
  /\ UNCHANGED vars

\* file_lock polls for _LOCK_TIMEOUT_SECONDS and raises: nothing is written.
LockTimesOut(p) ==
  /\ pc[p] = "lock" /\ lock[file[p]] # NoProc
  /\ End(p)
  /\ UNCHANGED <<doc, store, counters, noted, lost, taken, longer, recorded>>

\* Mutant: a file that was missing is created without looking again.
ReadUnchecked(p) ==
  /\ pc[p] = "read"
  /\ LET now == doc[file[p]] IN
     IF \/ op[p] = "ensure"
        \/ IF op[p] \in Planned THEN now = snap[p] ELSE Wanted(op[p], now)
     THEN /\ snap' = [snap EXCEPT ![p] = now]
          /\ Goto(p, "write")
          /\ UNCHANGED <<lock, op, file, mem, stale>>
     ELSE End(p)
  /\ UNCHANGED <<doc, store, counters, noted, lost, taken, longer, recorded>>

\* Under the lock: a planned write compares the file with its plan, the others
\* read it (ensure and session test again whether it exists).
Read(p) ==
  /\ pc[p] = "read"
  /\ LET now == doc[file[p]] IN
     IF IF op[p] \in Planned THEN now = snap[p] ELSE Wanted(op[p], now)
     THEN /\ snap' = [snap EXCEPT ![p] = now]
          /\ Goto(p, "write")
          /\ UNCHANGED <<lock, op, file, mem, stale>>
     ELSE End(p)
  /\ UNCHANGED <<doc, store, counters, noted, lost, taken, longer, recorded>>

\* _atomic_write_text: os.replace under the lock, which is then released.
Write(p) ==
  /\ pc[p] = "write"
  /\ \E sizes \in [DOMAIN mem[p] -> Sizes] :
       LET f == file[p]  o == op[p]
           new == Effect(o, Entries(mem[p], sizes), snap[p])
           kept == IF o \in Sections THEN recorded[f][o] ELSE <<>>
       IN /\ writes' = writes + 1
          /\ doc' = [doc EXCEPT ![f] = new]
          /\ IF p \in stale
             THEN /\ lost' = lost \cup (Written(doc[f]) \ Written(new))
                  /\ recorded' = [recorded EXCEPT
                                    ![f] = [s \in Sections |-> Ids(new.shown[s])]]
                  /\ UNCHANGED <<taken, longer>>
             ELSE /\ taken' = taken \cup (Inside(o, doc[f]) \ Written(new))
                  /\ longer' = longer \
                        (IF o = "project" THEN {<<f, "working">>} ELSE {})
                  /\ recorded' = IF o \in Memorial
                                 THEN [recorded EXCEPT ![f][SectionOf(o)] =
                                         Newest(mem[p] \o kept)]
                                 ELSE recorded
                  /\ UNCHANGED lost
  /\ End(p)
  /\ UNCHANGED <<store, edits, saves, noted>>

\* The process is killed, the disk fails, or the path leaves the project: the
\* temporary file is removed, the lock goes with its descriptor.
Fail(p) ==
  /\ pc[p] # "idle"
  /\ End(p)
  /\ UNCHANGED <<doc, store, counters, noted, lost, taken, longer, recorded>>

----------------------------------------------------------------------------
(* Writers without the lock: users, and the Edit tool. *)

Unlocked(f, new) ==
  /\ edits < MaxEdits
  /\ edits' = edits + 1
  /\ doc' = [doc EXCEPT ![f] = new]
  /\ stale' = stale \cup {p \in Procs : pc[p] = "write" /\ file[p] = f}
  /\ UNCHANGED <<lock, procVars, store, writes, saves, lost, taken>>

\* No other file has it, and it is none that was written over.
New(n) == n \notin lost \cup taken /\ \A g \in Files : n \notin noted[g]

WriteNote(f) ==
  /\ \E n \in Notes :
       /\ New(n)
       /\ \/ Unlocked(f, [doc[f] EXCEPT !.exists = TRUE, !.text = @ \cup {n}])
          \/ /\ f \in ProjectFiles
             /\ Unlocked(f, [doc[f] EXCEPT !.exists = TRUE, !.pins = @ \cup {n}])
          \/ /\ f = "home"
             /\ \E k \in {"pair", "broken"} :
                  Unlocked(f, [doc[f] EXCEPT !.exists = TRUE, !.kernel = k,
                                             !.text = @ \cup {n}])
          \/ /\ f \in ProjectFiles /\ doc[f].block
             /\ Unlocked(f, [doc[f] EXCEPT !.inblock = @ \cup {n}])
       /\ noted' = [noted EXCEPT ![f] = @ \cup {n}]
  /\ UNCHANGED <<longer, recorded>>

BelowMemory(e, n) == [e EXCEPT !.below = @ \cup {n}, !.tokens = @ + NoteTokens]
InHead(e, n)      == [e EXCEPT !.head = @ \cup {n}, !.tokens = @ + NoteTokens]

\* Into a section of memories: before the first of them, below one, or into the
\* line with its date.
WriteInSection(f) ==
  /\ f \in ProjectFiles /\ doc[f].exists
  /\ \E n \in Notes, s \in Sections :
       /\ New(n)
       /\ \/ /\ Unlocked(f, [doc[f] EXCEPT !.above[s] = @ \cup {n}])
             /\ UNCHANGED longer
          \/ \E i \in DOMAIN doc[f].shown[s] :
               /\ Unlocked(f, [doc[f] EXCEPT !.shown[s][i] = BelowMemory(@, n)])
               /\ UNCHANGED longer
          \/ \E i \in DOMAIN doc[f].shown[s] :
               /\ Unlocked(f, [doc[f] EXCEPT !.shown[s][i] = InHead(@, n)])
               /\ longer' = longer \cup {<<f, s>>}
       /\ noted' = [noted EXCEPT ![f] = @ \cup {n}]
  /\ UNCHANGED recorded

\* The memory markers go, and what they enclose stays.
BreakRegion(f) ==
  /\ doc[f].region
  /\ Unlocked(f, [doc[f] EXCEPT !.region = FALSE])
  /\ UNCHANGED <<noted, longer, recorded>>

Delete(f) ==
  /\ doc[f].exists
  /\ Unlocked(f, NoFile)
  /\ noted' = [noted EXCEPT ![f] = {}]
  /\ recorded' = [recorded EXCEPT ![f] = [s \in Sections |-> <<>>]]
  /\ UNCHANGED longer

\* A record is deleted from the store; what CLAUDE.md shows of it stays.
Forget ==
  /\ edits < MaxEdits
  /\ edits' = edits + 1
  /\ \E i \in DOMAIN store :
       store' = SubSeq(store, 1, i - 1) \o SubSeq(store, i + 1, Len(store))
  /\ UNCHANGED <<doc, lock, procVars, writes, saves, history>>

Step(p) ==
  \/ LookDotClaude(p) \/ LookLegacy(p) \/ PlanWrite(p) \/ Lock(p)
  \/ LockTimesOut(p) \/ Read(p) \/ Write(p)

Next ==
  \/ \E p \in Procs : Start(p) \/ Step(p) \/ Fail(p)
  \/ \E f \in Files :
       WriteNote(f) \/ WriteInSection(f) \/ BreakRegion(f) \/ Delete(f)
  \/ Forget

Spec == Init /\ [][Next]_vars

\* A process runs while it is not suspended; a suspended one keeps its lock.
CONSTANT Suspended
FairSpec == Spec /\ \A p \in Procs \ Suspended : WF_vars(Step(p))

----------------------------------------------------------------------------
\* A section shows the newest of the memories written to it (by saves one after
\* the other, or all at once by a projection), in order, never without the newest:
\* none is lost to another writer, and none that is older outlives a newer one.
\* It shows all of them, as many as MaxMemories (_apply_token_budget drops none),
\* unless a user lengthened a line there that is never cut, and it is within its
\* budget unless it holds text of users.
MemoriesShown ==
  \A f \in Files, s \in Sections :
    LET shown == doc[f].shown[s] IN
    /\ Len(shown) <= Len(recorded[f][s])
    /\ Ids(shown) = SubSeq(recorded[f][s], 1, Len(shown))
    /\ recorded[f][s] # <<>> => shown # <<>>
    /\ <<f, s>> \notin longer => Len(shown) = Len(recorded[f][s])
    /\ (\A i \in DOMAIN shown : shown[i].head \cup shown[i].below = {})
         => Tokens(shown) <= TokenBudget[s]

\* What users write stays, whatever the plugin's processes do at the same
\* time, unless it came after one of them had read the file under its lock, or
\* stood in the very part (section of memories, session block) that is rebuilt.
UserTextKept ==
  \A f \in Files : noted[f] \subseteq Written(doc[f]) \cup lost \cup taken

\* A write does to the file as it is what its operation does, and only where
\* that operation is wanted, as if it read and wrote in one step: no update of
\* another process is undone, no file is created over one that exists.
WritesAtomic ==
  [][\A p \in Procs :
       (Write(p) /\ p \notin stale) =>
          /\ Wanted(op[p], doc[file[p]])
          /\ \E sizes \in [DOMAIN mem[p] -> Sizes] :
               doc' = [doc EXCEPT ![file[p]] =
                         Effect(op[p], Entries(mem[p], sizes), @)]]_vars

\* Every operation of a process that is not suspended ends, even if one that is
\* suspended holds the lock.
OpsEnd == \A p \in Procs \ Suspended : (pc[p] # "idle") ~> (pc[p] = "idle")

\* Not so in the code: "managed region contains only plugin-generated content"
\* (claude_md_manager.py): users write inside it, and a write of their section
\* drops what they wrote.
SectionTextKept ==
  \A f \in Files : noted[f] \subseteq Written(doc[f]) \cup lost

\* Not so in the code: "Rebuild CLAUDE.md's Working Memory from this project's
\* newest 3 memories" (SKILL.md): the list is made before the lock is taken.
ProjectionCurrent ==
  [][\A p \in Procs : (Write(p) /\ op[p] = "project") => mem[p] = Newest(store)]_vars

=============================================================================
