--------------------------- MODULE SessionJournal ---------------------------
(***************************************************************************)
(* The session journal: an append-only file of one JSON event per line,    *)
(* written by many short processes.  append_event takes an flock around    *)
(* the writes of one entry; readers take no lock and skip malformed lines. *)
(*                                                                         *)
(* An entry reaches the file in one write, or in two when the first one is *)
(* short.  The file is the sequence of the pieces written: "all" and       *)
(* "tail" pieces end a line, a "head" piece does not.                      *)
(***************************************************************************)
EXTENDS Naturals, Sequences

CONSTANTS
    Writers,    \* processes
    Entries,    \* what an append writes; no two appends write the same entry
    Unlocked    \* the flock is free

ASSUME UnlockedAssumption == Unlocked \notin Writers

VARIABLES
    journal,    \* the pieces in the file
    flock,      \* the writer that holds the exclusive lock, or Unlocked
    appending,  \* appending[p]: where append_event is
    acked       \* history: entries whose append_event returned True

journalVars == <<journal, flock, appending, acked>>

Pieces == [entry : Entries, part : {"all", "head", "tail"}]
EndsLine(i) == i = 0 \/ journal[i].part # "head"

\* The entries on lines that parse: read_events returns these and no others.
Readable ==
    {journal[i].entry : i \in
        {i \in DOMAIN journal :
           \/ journal[i].part = "all" /\ EndsLine(i - 1)
           \/ /\ journal[i].part = "tail"
              /\ i > 1 /\ journal[i - 1].part = "head"
              /\ journal[i - 1].entry = journal[i].entry
              /\ EndsLine(i - 2)}}

JournalInit ==
    /\ journal = <<>>
    /\ flock = Unlocked
    /\ appending = [p \in Writers |-> "no"]
    /\ acked = {}

At(p, label) == appending' = [appending EXCEPT ![p] = label]

\* The entry is built and the file opened ...
AppendOpen(p) ==
    /\ appending[p] = "no"
    /\ At(p, "open")
    /\ UNCHANGED <<journal, flock, acked>>

\* ... or the event is rejected by its schema, there is no journal, or the
\* file cannot be opened or locked.
AppendRefused(p) ==
    /\ appending[p] = "no"
    /\ At(p, "failed")
    /\ UNCHANGED <<journal, flock, acked>>

\* Mutant: a shared lock.
AppendLockShared(p) ==
    /\ appending[p] = "open"
    /\ flock' = p
    /\ At(p, "locked")
    /\ UNCHANGED <<journal, acked>>

\* flock(LOCK_EX) waits for the lock.
AppendLock(p) ==
    /\ appending[p] = "open"
    /\ flock = Unlocked
    /\ flock' = p
    /\ At(p, "locked")
    /\ UNCHANGED <<journal, acked>>

Put(e, part) == journal' = Append(journal, [entry |-> e, part |-> part])

AppendAll(p, e) ==
    /\ appending[p] = "locked"
    /\ Put(e, "all")
    /\ At(p, "written")
    /\ UNCHANGED <<flock, acked>>

\* A short write.
AppendHead(p, e) ==
    /\ appending[p] = "locked"
    /\ Put(e, "head")
    /\ At(p, "rest")
    /\ UNCHANGED <<flock, acked>>

AppendTail(p, e) ==
    /\ appending[p] = "rest"
    /\ Put(e, "tail")
    /\ At(p, "written")
    /\ UNCHANGED <<flock, acked>>

\* write raises, or makes no progress: what it wrote before stays.
AppendBreaks(p) ==
    /\ appending[p] \in {"locked", "rest"}
    /\ At(p, "broken")
    /\ UNCHANGED <<journal, flock, acked>>

\* Mutant: the lock is kept when the write failed.
AppendUnlockWritten(p, e) ==
    /\ appending[p] \in {"written", "broken"}
    /\ IF appending[p] = "written"
       THEN At(p, "ok") /\ acked' = acked \cup {e} /\ flock' = Unlocked
       ELSE At(p, "failed") /\ UNCHANGED <<acked, flock>>
    /\ UNCHANGED journal

\* The lock is dropped, and append_event returns.
AppendUnlock(p, e) ==
    /\ appending[p] \in {"written", "broken"}
    /\ flock' = Unlocked
    /\ IF appending[p] = "written"
       THEN At(p, "ok") /\ acked' = acked \cup {e}
       ELSE At(p, "failed") /\ acked' = acked
    /\ UNCHANGED journal

Returned(p, result) ==
    /\ appending[p] = result
    /\ At(p, "no")
    /\ UNCHANGED <<journal, flock, acked>>

\* The kernel drops the lock of a killed process.
JournalKill(p) ==
    /\ At(p, "no")
    /\ flock' = IF flock = p THEN Unlocked ELSE flock
    /\ UNCHANGED <<journal, acked>>

-----------------------------------------------------------------------------
Appending == {"no", "open", "locked", "rest", "written", "broken", "ok", "failed"}

JournalTypeOK ==
    /\ journal \in Seq(Pieces)
    /\ flock \in Writers \cup {Unlocked}
    /\ appending \in [Writers -> Appending]
    /\ acked \subseteq Entries

\* The pieces of an entry are never separated by those of another, whatever
\* processes write, fail or are killed (_atomic_write).
PiecesTogether ==
    \A i \in DOMAIN journal :
        journal[i].part = "tail"
          => i > 1 /\ journal[i - 1] = [entry |-> journal[i].entry, part |-> "head"]

\* "A bad line corrupts at most its own line; every other event in the file is
\* still returned": an event whose append succeeded can be read.
AckedReadable == acked \subseteq Readable
=============================================================================
