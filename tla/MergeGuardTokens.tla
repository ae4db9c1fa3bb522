-------------------------- MODULE MergeGuardTokens --------------------------
(***************************************************************************)
(* The authorization tokens of the merge guard: one-shot hook processes    *)
(* that share nothing but the files merge-authorized-* of one directory.   *)
(*                                                                         *)
(*   - a Minter is merge_guard_post on AskUserQuestion: it retires the     *)
(*     unused tokens and creates a new one (write_token);                  *)
(*   - a Reader is merge_guard_pre on a destructive Bash command: it looks *)
(*     for a valid token and consumes one use of it;                       *)
(*   - a Retirer is merge_guard_post on a Bash command that succeeded: it  *)
(*     retires the token that authorized the command.                      *)
(*                                                                         *)
(* One action is one system call on the directory, together with the local *)
(* computation around it.  The identity of a command (operation, target    *)
(* and privileged flags) is a member of Commands: two commands match when  *)
(* they are equal.  `grants', `gone', `deadAtStart' and `spentAtStart' are  *)
(* history variables: no guard reads them.                                 *)
(***************************************************************************)
EXTENDS Integers, FiniteSets

CONSTANTS
    Readers, Minters, Retirers,  \* disjoint sets of hook processes
    Sessions,                    \* session ids; NoSession is the empty id
    NoSession,
    Commands,                    \* identities of destructive commands
    MaxUses,                     \* MAX_USES
    TTL,                         \* TOKEN_TTL, in clock ticks
    OrphanAge,                   \* ORPHAN_TOKEN_MAX_AGE_SECONDS
    MaxTime,                     \* bound: the clock stops here
    MaxMints,                    \* bound: number of tokens ever created
    NoFile                       \* a path at which no file exists

Procs == Readers \cup Minters \cup Retirers

ASSUME BoundsAssumption ==
    /\ MaxUses \in Nat \ {0}
    /\ TTL \in Nat
    /\ OrphanAge \in Nat
    /\ MaxTime \in Nat
    /\ MaxMints \in Nat

ASSUME InputsAssumption == NoSession \in Sessions /\ Commands # {}

Times == 0..MaxTime
Never == -1
Slots == 1..MaxUses
Ids == 1..MaxMints

\* merge-authorized-<second>, or merge-authorized-<second>-<ms> when that exists.
Paths == [ts : Times, alt : {0, 1}]
BasePath(t) == [ts |-> t, alt |-> 0]
AltPath(t) == [ts |-> t, alt |-> 1]

\* A token file.  It exists, empty, from its O_EXCL creation on and parses
\* (`ready') only once its JSON has been written.
Tokens == [id : Ids, ready : BOOLEAN, cmd : Commands, sess : Sessions,
           exp : 0..(MaxTime + TTL), mtime : Times]

ASSUME NoFileAssumption == NoFile \notin Tokens

\* The locals of a process that is not running.
NoPath == BasePath(0)
NoCommand == CHOOSE c \in Commands : TRUE

VARIABLES
    now,          \* the wall clock
    live,         \* live[q]: the token file at q, or NoFile
    consumed,     \* consumed[q]: mtime of q.consumed, or Never
    marker,       \* marker[q][k]: mtime of q.use-k, or Never
    running,      \* commands the guard let through that are still executing
    pc, sess, cmd,  \* of each hook process: control, session, command
    stamp,        \* its time.time()
    todo,         \* paths of its glob it has not visited
    doomed,       \* the path its scan is about to remove or rename
    path, found,  \* the token it works with: where, and as it was read
    slot,         \* the use slot it tries
    minted,       \* history: number of tokens created
    grants,       \* history: how often each slot of each path was granted
    gone,         \* history: tokens that were renamed or removed
    deadAtStart,  \* history: tokens already gone when a process started
    spentAtStart  \* history: paths with no free slot when it started

fs == <<live, consumed, marker>>
locals == <<pc, sess, cmd, stamp, todo, doomed, path, found, slot>>
history == <<minted, grants, deadAtStart, spentAtStart>>
vars == <<now, fs, running, locals, history, gone>>

-----------------------------------------------------------------------------
(* File system operations *)

LivePaths == {q \in Paths : live[q] # NoFile}
LiveIds == {live[q].id : q \in LivePaths}

\* os.rename(q, q.consumed); a missing source changes nothing.
Renamed(q) ==
    /\ live' = [live EXCEPT ![q] = NoFile]
    /\ consumed' = [consumed EXCEPT
                      ![q] = IF live[q] # NoFile THEN live[q].mtime ELSE @]

\* The same where a failure is ignored.
Rename(q) == Renamed(q) \/ UNCHANGED <<live, consumed>>

\* os.unlink(q); a missing file changes nothing, and a failure is ignored.
Unlink(q) == live' \in {live, [live EXCEPT ![q] = NoFile]}

Stale(t, age) == t # Never /\ now - t > age

\* cleanup_consumed_tokens: .consumed files and use markers past TOKEN_TTL.
CleanupConsumed ==
    /\ consumed' = [q \in Paths |-> IF Stale(consumed[q], TTL) THEN Never
                                                               ELSE consumed[q]]
    /\ marker' = [q \in Paths |-> [k \in Slots |->
                    IF Stale(marker[q][k], TTL) THEN Never ELSE marker[q][k]]]

\* cleanup_orphan_tokens: unconsumed tokens past twelve times TOKEN_TTL.
CleanupOrphans ==
    live' = [q \in Paths |->
               IF live[q] # NoFile /\ Stale(live[q].mtime, OrphanAge)
               THEN NoFile ELSE live[q]]

-----------------------------------------------------------------------------
Init ==
    /\ now = 0
    /\ live = [q \in Paths |-> NoFile]
    /\ consumed = [q \in Paths |-> Never]
    /\ marker = [q \in Paths |-> [k \in Slots |-> Never]]
    /\ running = {}
    /\ pc = [p \in Procs |-> "idle"]
    /\ sess = [p \in Procs |-> NoSession]
    /\ cmd = [p \in Procs |-> NoCommand]
    /\ stamp = [p \in Procs |-> 0]
    /\ todo = [p \in Procs |-> {}]
    /\ doomed = [p \in Procs |-> NoPath]
    /\ path = [p \in Procs |-> NoPath]
    /\ found = [p \in Procs |-> NoFile]
    /\ slot = [p \in Procs |-> 1]
    /\ minted = 0
    /\ grants = [q \in Paths |-> [k \in Slots |-> 0]]
    /\ gone = {}
    /\ deadAtStart = [p \in Procs |-> {}]
    /\ spentAtStart = [p \in Procs |-> {}]

Goto(p, label) == pc' = [pc EXCEPT ![p] = label]

\* The process is invoked: its input, its clock reading and its first glob.
Invoke(p, s, c, label) ==
    /\ pc[p] = "idle"
    /\ Goto(p, label)
    /\ sess' = [sess EXCEPT ![p] = s]
    /\ cmd' = [cmd EXCEPT ![p] = c]
    /\ stamp' = [stamp EXCEPT ![p] = now]

\* The process exits; its locals are gone with it.
Exit(p) ==
    /\ Goto(p, "idle")
    /\ todo' = [todo EXCEPT ![p] = {}]
    /\ doomed' = [doomed EXCEPT ![p] = NoPath]
    /\ path' = [path EXCEPT ![p] = NoPath]
    /\ found' = [found EXCEPT ![p] = NoFile]
    /\ slot' = [slot EXCEPT ![p] = 1]
    /\ sess' = [sess EXCEPT ![p] = NoSession]
    /\ cmd' = [cmd EXCEPT ![p] = NoCommand]
    /\ stamp' = [stamp EXCEPT ![p] = 0]
    /\ deadAtStart' = [deadAtStart EXCEPT ![p] = {}]
    /\ spentAtStart' = [spentAtStart EXCEPT ![p] = {}]

\* Exit with "deny", or without any decision.
Deny(p) == Exit(p) /\ UNCHANGED running

\* Exit with "allow": the command starts to run.
Allow(p) ==
    /\ Exit(p)
    /\ running' = running \cup {[sess |-> sess[p], cmd |-> cmd[p]]}

-----------------------------------------------------------------------------
(* merge_guard_pre: find_valid_token, then _consume_token *)

ReadStart(p, s, c) ==
    /\ Invoke(p, s, c, "scan")
    /\ todo' = [todo EXCEPT ![p] = LivePaths]
    /\ deadAtStart' = [deadAtStart EXCEPT ![p] = gone]
    /\ spentAtStart' = [spentAtStart EXCEPT ![p] =
                          {q \in Paths : \A k \in Slots : grants[q][k] > 0}]
    /\ UNCHANGED <<now, fs, running, doomed, path, found, slot,
                   minted, grants>>

\* An absent session id in the hook's own context accepts every token.
SessionAccepts(p, t) == sess[p] # NoSession => t.sess = sess[p]

\* Reading q fails (the file is gone or does not parse), or the token expired.
ScanUnusable(p, q) ==
    /\ pc[p] = "scan" /\ q \in todo[p]
    /\ \/ live[q] = NoFile
       \/ live[q] # NoFile /\ (~live[q].ready \/ live[q].exp < stamp[p])
    /\ Goto(p, "remove")
    /\ todo' = [todo EXCEPT ![p] = @ \ {q}]
    /\ doomed' = [doomed EXCEPT ![p] = q]
    /\ UNCHANGED <<now, fs, running, sess, cmd, stamp, path, found, slot,
                   history>>

Readable(p, q) == live[q] # NoFile /\ live[q].ready /\ live[q].exp >= stamp[p]

ScanForeign(p, q) ==
    /\ pc[p] = "scan" /\ q \in todo[p]
    /\ Readable(p, q) /\ ~SessionAccepts(p, live[q])
    /\ todo' = [todo EXCEPT ![p] = @ \ {q}]
    /\ UNCHANGED <<now, fs, running, pc, sess, cmd, stamp, doomed, path, found,
                   slot, history>>

\* Mutant: the scan does not look at the slots.
ScanUsableIgnoringSlots(p, q) ==
    /\ pc[p] = "scan" /\ q \in todo[p]
    /\ Readable(p, q) /\ SessionAccepts(p, live[q])
    /\ todo' = [todo EXCEPT ![p] = @ \ {q}]
    /\ path' = [path EXCEPT ![p] = q]
    /\ found' = [found EXCEPT ![p] = live[q]]
    /\ UNCHANGED <<now, fs, running, pc, sess, cmd, stamp, doomed, slot,
                   history>>

\* The token is usable unless every slot is claimed; a later one replaces an
\* earlier one.  The existence checks of the slots are one step: markers are
\* only ever added to a token that has not expired.
ScanUsable(p, q) ==
    /\ pc[p] = "scan" /\ q \in todo[p]
    /\ Readable(p, q) /\ SessionAccepts(p, live[q])
    /\ MaxUses > 1 => \E k \in Slots : marker[q][k] = Never
    /\ todo' = [todo EXCEPT ![p] = @ \ {q}]
    /\ path' = [path EXCEPT ![p] = q]
    /\ found' = [found EXCEPT ![p] = live[q]]
    /\ UNCHANGED <<now, fs, running, pc, sess, cmd, stamp, doomed, slot,
                   history>>

\* All slots are claimed but the last claimer did not get to its rename.
ScanFull(p, q) ==
    /\ pc[p] = "scan" /\ q \in todo[p]
    /\ Readable(p, q) /\ SessionAccepts(p, live[q])
    /\ MaxUses > 1 /\ \A k \in Slots : marker[q][k] # Never
    /\ Goto(p, "renameFull")
    /\ todo' = [todo EXCEPT ![p] = @ \ {q}]
    /\ doomed' = [doomed EXCEPT ![p] = q]
    /\ UNCHANGED <<now, fs, running, sess, cmd, stamp, path, found, slot, history>>

\* _safe_remove, and the rename of a token without free slots.
RemoveUnusable(p) ==
    /\ pc[p] = "remove"
    /\ Unlink(doomed[p])
    /\ Goto(p, "scan")
    /\ UNCHANGED <<now, consumed, marker, running, sess, cmd, stamp, todo,
                   doomed, path, found, slot, history>>

RenameFull(p) ==
    /\ pc[p] = "renameFull"
    /\ Rename(doomed[p])
    /\ Goto(p, "scan")
    /\ UNCHANGED <<now, marker, running, sess, cmd, stamp, todo, doomed, path,
                   found, slot, history>>

\* The end of find_valid_token: both sweeps of the directory.
Sweep(p) ==
    /\ pc[p] = "scan" /\ todo[p] = {}
    /\ CleanupConsumed
    /\ CleanupOrphans
    /\ Goto(p, "match")
    /\ UNCHANGED <<now, running, sess, cmd, stamp, todo, doomed, path, found,
                   slot, history>>

Matched(p) == found[p] # NoFile /\ found[p].cmd = cmd[p]

\* check_merge_authorization: no token, or one for another command.
MatchFails(p) ==
    /\ pc[p] = "match"
    /\ ~Matched(p)
    /\ Deny(p)
    /\ UNCHANGED <<now, fs, minted, grants>>

\* A step of one process that changes nothing but where it is.
Step(p, from, to) ==
    /\ pc[p] = from
    /\ Goto(p, to)
    /\ UNCHANGED <<now, fs, running, sess, cmd, stamp, todo, doomed, path, found,
                   slot, history>>

\* _consume_token reads the token again, for its max_uses.
ConsumeRead(p) ==
    /\ Matched(p)
    /\ live[path[p]] # NoFile /\ live[path[p]].ready
    /\ Step(p, "match", IF MaxUses > 1 THEN "claim" ELSE "rename")

ConsumeReadFails(p) ==
    /\ Matched(p)
    /\ live[path[p]] # NoFile => ~live[path[p]].ready
    /\ Step(p, "match", "probe")

\* The read failed: without a first marker the token passes for a single-use one.
ProbeClaimed(p) ==
    /\ pc[p] = "probe"
    /\ marker[path[p]][1] # Never
    /\ Deny(p)
    /\ UNCHANGED <<now, fs, minted, grants>>

ProbeUnclaimed(p) ==
    /\ marker[path[p]][1] = Never
    /\ Step(p, "probe", "rename")

\* Single-use tokens: the rename is the use...
RenameConsumes(p) ==
    /\ pc[p] = "rename"
    /\ live[path[p]] # NoFile
    /\ Renamed(path[p])
    /\ Allow(p)
    /\ UNCHANGED <<now, marker, minted, grants>>

\* It fails although the token is there.
RenameRefused(p) ==
    /\ pc[p] = "rename"
    /\ Deny(p)
    /\ UNCHANGED <<now, fs, minted, grants>>

RenameMissing(p) ==
    /\ live[path[p]] = NoFile
    /\ Step(p, "rename", "recheck")

\* ...and so is finding that another process has renamed it.
RecheckConsumed(p) ==
    /\ pc[p] = "recheck"
    /\ consumed[path[p]] # Never
    /\ Allow(p)
    /\ UNCHANGED <<now, fs, minted, grants>>

RecheckGone(p) ==
    /\ pc[p] = "recheck"
    /\ consumed[path[p]] = Never
    /\ Deny(p)
    /\ UNCHANGED <<now, fs, minted, grants>>

\* Mutant: the marker is opened without O_EXCL.
ClaimShared(p) ==
    /\ pc[p] = "claim"
    /\ slot[p] \in Slots
    /\ marker' = [marker EXCEPT ![path[p]][slot[p]] = now]
    /\ Goto(p, "body")
    /\ UNCHANGED <<now, live, consumed, running, sess, cmd, stamp, todo, doomed,
                   path, found, slot, history>>

\* Tokens of several uses: O_EXCL creation of the next marker.
Claim(p) ==
    /\ pc[p] = "claim"
    /\ slot[p] \in Slots
    /\ marker[path[p]][slot[p]] = Never
    /\ marker' = [marker EXCEPT ![path[p]][slot[p]] = now]
    /\ Goto(p, "body")
    /\ UNCHANGED <<now, live, consumed, running, sess, cmd, stamp, todo, doomed,
                   path, found, slot, history>>

\* The marker exists, or creating it fails: on to the next slot.
ClaimNext(p) ==
    /\ pc[p] = "claim"
    /\ slot[p] \in Slots
    /\ slot' = [slot EXCEPT ![p] = @ + 1]
    /\ UNCHANGED <<now, fs, running, pc, sess, cmd, stamp, todo, doomed, path,
                   found, history>>

ClaimExhausted(p) ==
    /\ pc[p] = "claim"
    /\ slot[p] \notin Slots
    /\ Deny(p)
    /\ UNCHANGED <<now, fs, minted, grants>>

\* The body of the marker is written: the slot is this process's use.
Grant(p) == grants' = [grants EXCEPT ![path[p]][slot[p]] = @ + 1]

WriteBody(p) ==
    /\ pc[p] = "body"
    /\ slot[p] # MaxUses
    /\ Grant(p)
    /\ Allow(p)
    /\ UNCHANGED <<now, fs, minted>>

\* Before it returns, the claimer of the last slot retires the token.
WriteLastBody(p) ==
    /\ pc[p] = "body"
    /\ slot[p] = MaxUses
    /\ Grant(p)
    /\ Goto(p, "renameLast")
    /\ UNCHANGED <<now, fs, running, sess, cmd, stamp, todo, doomed, path, found,
                   slot, minted, deadAtStart, spentAtStart>>

RenameLast(p) ==
    /\ pc[p] = "renameLast"
    /\ Rename(path[p])
    /\ Allow(p)
    /\ UNCHANGED <<now, marker, minted, grants>>

WriteBodyFails(p) == Step(p, "body", "unclaim")

\* The marker is unlinked, if it can be.
Unclaim(p) ==
    /\ pc[p] = "unclaim"
    /\ marker' \in {marker, [marker EXCEPT ![path[p]][slot[p]] = Never]}
    /\ slot' = [slot EXCEPT ![p] = @ + 1]
    /\ Goto(p, "claim")
    /\ UNCHANGED <<now, live, consumed, running, sess, cmd, stamp, todo, doomed,
                   path, found, history>>

ReadStep(p) ==
    \/ \E s \in Sessions, c \in Commands : ReadStart(p, s, c)
    \/ \E q \in todo[p] : \/ ScanUnusable(p, q)
                          \/ ScanForeign(p, q)
                          \/ ScanUsable(p, q)
                          \/ ScanFull(p, q)
    \/ RemoveUnusable(p) \/ RenameFull(p) \/ Sweep(p)
    \/ MatchFails(p) \/ ConsumeRead(p) \/ ConsumeReadFails(p)
    \/ ProbeClaimed(p) \/ ProbeUnclaimed(p)
    \/ RenameConsumes(p) \/ RenameRefused(p) \/ RenameMissing(p)
    \/ RecheckConsumed(p) \/ RecheckGone(p)
    \/ Claim(p) \/ ClaimNext(p) \/ ClaimExhausted(p)
    \/ WriteBody(p) \/ WriteLastBody(p) \/ RenameLast(p)
    \/ WriteBodyFails(p) \/ Unclaim(p)

-----------------------------------------------------------------------------
(* merge_guard_post on AskUserQuestion: write_token *)

MintStart(p, s, c) ==
    /\ minted < MaxMints
    /\ Invoke(p, s, c, "glob")
    /\ CleanupConsumed
    /\ UNCHANGED <<now, live, running, todo, doomed, path, found, slot, history>>

\* cleanup_unused_tokens: every token of every session is renamed.
MintGlob(p) ==
    /\ pc[p] = "glob"
    /\ todo' = [todo EXCEPT ![p] = LivePaths]
    /\ Goto(p, "retireUnused")
    /\ UNCHANGED <<now, fs, running, sess, cmd, stamp, doomed, path, found, slot,
                   history>>

MintRetire(p, q) ==
    /\ pc[p] = "retireUnused" /\ q \in todo[p]
    /\ Rename(q)
    /\ todo' = [todo EXCEPT ![p] = @ \ {q}]
    /\ UNCHANGED <<now, marker, running, pc, sess, cmd, stamp, doomed, path,
                   found, slot, history>>

\* The name is tried that the second gives, and then the other.
Tries(p, q) ==
    \/ pc[p] = "retireUnused" /\ todo[p] = {} /\ q = BasePath(stamp[p])
    \/ pc[p] = "retry" /\ q = AltPath(stamp[p])

\* O_EXCL creation of the token file, still empty.
MintCreate(p, q) ==
    /\ Tries(p, q)
    /\ minted < MaxMints
    /\ live[q] = NoFile
    /\ LET t == [id |-> minted + 1, ready |-> FALSE, cmd |-> cmd[p],
                 sess |-> sess[p], exp |-> stamp[p] + TTL, mtime |-> now]
       IN  /\ live' = [live EXCEPT ![q] = t]
           /\ found' = [found EXCEPT ![p] = t]
    /\ minted' = minted + 1
    /\ path' = [path EXCEPT ![p] = q]
    /\ Goto(p, "write")
    /\ UNCHANGED <<now, consumed, marker, running, sess, cmd, stamp, todo, doomed,
                   slot, grants, deadAtStart, spentAtStart>>

MintRetry(p) ==
    /\ Tries(p, BasePath(stamp[p])) /\ live[BasePath(stamp[p])] # NoFile
    /\ Step(p, "retireUnused", "retry")

\* The other is taken too, or the file cannot be created: no token.
MintBlocked(p) ==
    /\ \E q \in {BasePath(stamp[p]), AltPath(stamp[p])} : Tries(p, q)
    /\ Deny(p)
    /\ UNCHANGED <<now, fs, minted, grants>>

\* Mutant: the JSON is written by name, which brings a removed file back.
MintWriteByName(p) ==
    /\ pc[p] = "write"
    /\ live' = [live EXCEPT ![path[p]] = [found[p] EXCEPT !.ready = TRUE]]
    /\ Deny(p)
    /\ UNCHANGED <<now, consumed, marker, minted, grants>>

\* The JSON is written through the open descriptor: it reaches the token only
\* where the file created is still in place.
MintWrite(p) ==
    /\ pc[p] = "write"
    /\ live' = [live EXCEPT ![path[p]] =
                  IF @ = found[p] THEN [@ EXCEPT !.ready = TRUE] ELSE @]
    /\ Deny(p)
    /\ UNCHANGED <<now, consumed, marker, minted, grants>>

\* The write fails: the file is unlinked by name.
MintWriteFails(p) ==
    /\ pc[p] = "write"
    /\ Unlink(path[p])
    /\ Deny(p)
    /\ UNCHANGED <<now, consumed, marker, minted, grants>>

MintStep(p) ==
    \/ \E s \in Sessions, c \in Commands : MintStart(p, s, c)
    \/ MintGlob(p)
    \/ \E q \in todo[p] : MintRetire(p, q)
    \/ \E q \in {BasePath(stamp[p]), AltPath(stamp[p])} : MintCreate(p, q)
    \/ MintRetry(p) \/ MintBlocked(p) \/ MintWrite(p) \/ MintWriteFails(p)

-----------------------------------------------------------------------------
(* merge_guard_post on a Bash command that ended: _retire_token_for_command *)

\* The command r succeeded.
RetireStart(p, r) ==
    /\ Invoke(p, r.sess, r.cmd, "retireScan")
    /\ running' = running \ {r}
    /\ todo' = [todo EXCEPT ![p] = LivePaths]
    /\ UNCHANGED <<now, fs, doomed, path, found, slot, history>>

\* The command r failed, or its output does not show success: nothing is retired.
CommandFails(r) ==
    /\ running' = running \ {r}
    /\ UNCHANGED <<now, fs, locals, history>>

Matching(p, q) == /\ live[q] # NoFile
                  /\ live[q].ready
                  /\ live[q].cmd = cmd[p]
                  /\ SessionAccepts(p, live[q])

RetireSkip(p, q) ==
    /\ pc[p] = "retireScan" /\ q \in todo[p]
    /\ ~Matching(p, q)
    /\ todo' = [todo EXCEPT ![p] = @ \ {q}]
    /\ UNCHANGED <<now, fs, running, pc, sess, cmd, stamp, doomed, path, found,
                   slot, history>>

RetireMatch(p, q) ==
    /\ pc[p] = "retireScan" /\ q \in todo[p]
    /\ Matching(p, q)
    /\ path' = [path EXCEPT ![p] = q]
    /\ Goto(p, "retireRename")
    /\ UNCHANGED <<now, fs, running, sess, cmd, stamp, todo, doomed, found, slot,
                   history>>

RetireRename(p) ==
    /\ pc[p] = "retireRename"
    /\ Rename(path[p])
    /\ Deny(p)
    /\ UNCHANGED <<now, marker, minted, grants>>

RetireNone(p) ==
    /\ pc[p] = "retireScan" /\ todo[p] = {}
    /\ Deny(p)
    /\ UNCHANGED <<now, fs, minted, grants>>

RetireStep(p) ==
    \/ \E r \in running : RetireStart(p, r)
    \/ \E q \in todo[p] : RetireSkip(p, q) \/ RetireMatch(p, q)
    \/ RetireRename(p) \/ RetireNone(p)

-----------------------------------------------------------------------------
\* A hook process is killed (its host ends it, or it times out).
Crash(p) ==
    /\ pc[p] # "idle"
    /\ Deny(p)
    /\ UNCHANGED <<now, fs, minted, grants>>

Tick ==
    /\ now < MaxTime
    /\ now' = now + 1
    /\ UNCHANGED <<fs, running, locals, history>>

HookStep ==
    \/ \E p \in Readers : ReadStep(p)
    \/ \E p \in Minters : MintStep(p)
    \/ \E p \in Retirers : RetireStep(p)
    \/ \E r \in running : CommandFails(r)
    \/ \E p \in Procs : Crash(p)
    \/ Tick

\* What the step renamed or removed is remembered.
Remember == gone' = gone \cup (LiveIds \ LiveIds')

Next == HookStep /\ Remember

Spec == Init /\ [][Next]_vars

-----------------------------------------------------------------------------
(* Properties *)

Labels == {"idle", "scan", "remove", "renameFull", "match", "probe", "rename",
           "recheck", "claim", "body", "unclaim", "renameLast",
           "glob", "retireUnused", "retry", "write", "retireScan", "retireRename"}

\* Every variable keeps its type; in particular no process works on a slot past
\* MaxUses + 1.
TypeOK ==
    /\ now \in Times
    /\ live \in [Paths -> Tokens \cup {NoFile}]
    /\ consumed \in [Paths -> Times \cup {Never}]
    /\ marker \in [Paths -> [Slots -> Times \cup {Never}]]
    /\ running \subseteq [sess : Sessions, cmd : Commands]
    /\ pc \in [Procs -> Labels]
    /\ sess \in [Procs -> Sessions]
    /\ cmd \in [Procs -> Commands]
    /\ stamp \in [Procs -> Times]
    /\ todo \in [Procs -> SUBSET Paths]
    /\ doomed \in [Procs -> Paths]
    /\ path \in [Procs -> Paths]
    /\ found \in [Procs -> Tokens \cup {NoFile}]
    /\ slot \in [Procs -> 1..(MaxUses + 1)]
    /\ minted \in 0..MaxMints
    /\ grants \in [Paths -> [Slots -> Nat]]
    /\ gone \subseteq Ids
    /\ deadAtStart \in [Procs -> SUBSET Ids]
    /\ spentAtStart \in [Procs -> SUBSET Paths]

\* Until the token of a path expires, each of its use slots is granted to at
\* most one invocation, whatever readers, minters, failed body writes, sweeps
\* and kills interleave (_consume_token's O_EXCL claim against
\* cleanup_consumed_tokens' reaping of the markers).
SlotGrantedOnce ==
    \A q \in Paths, k \in Slots : now <= q.ts + TTL => grants[q][k] <= 1

\* An invocation that starts after a token was retired, removed or replaced
\* never selects it again (find_valid_token): the single-use fallback of
\* _consume_token can only serve invocations that were already under way.
NoReplay ==
    \A p \in Readers : found[p] # NoFile => found[p].id \notin deadAtStart[p]

\* An invocation that starts after the last use slot was granted does not
\* select that token before it expires, although the last claimer may have
\* been killed before its rename (the all-claimed check of find_valid_token).
NoUseAfterLast ==
    \A p \in Readers :
        (found[p] # NoFile /\ now <= path[p].ts + TTL)
            => path[p] \notin spentAtStart[p]

\* What cleanup_unused_tokens says of a rename that fails, "the invariant holds
\* either way", and does not hold: the directory has no more unused tokens than
\* approvals are being handled.
UnusedWithinMinters == Cardinality(LivePaths) <= Cardinality(Minters)

=============================================================================
