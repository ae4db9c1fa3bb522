----------------------- MODULE MergeGuardTokensProofs -----------------------
(* Theorems about MergeGuardTokens, for every value of its constants. *)
EXTENDS MergeGuardTokens, TLAPS

\* A process that holds a marker works on an existing slot, and one that has
\* created a token file knows what it is.
LabelsTyped ==
    \A p \in Procs : /\ pc[p] \in {"body", "unclaim"} => slot[p] \in Slots
                     /\ pc[p] = "write" => found[p] \in Tokens

\* The two halves of TypeOK: what belongs to one process, and what is shared.
LocalsTyped ==
    /\ pc \in [Procs -> Labels]
    /\ sess \in [Procs -> Sessions]
    /\ cmd \in [Procs -> Commands]
    /\ stamp \in [Procs -> Times]
    /\ todo \in [Procs -> SUBSET Paths]
    /\ doomed \in [Procs -> Paths]
    /\ path \in [Procs -> Paths]
    /\ found \in [Procs -> Tokens \cup {NoFile}]
    /\ slot \in [Procs -> 1..(MaxUses + 1)]
    /\ deadAtStart \in [Procs -> SUBSET Ids]
    /\ spentAtStart \in [Procs -> SUBSET Paths]
    /\ LabelsTyped

SharedTyped ==
    /\ now \in Times
    /\ live \in [Paths -> Tokens \cup {NoFile}]
    /\ consumed \in [Paths -> Times \cup {Never}]
    /\ marker \in [Paths -> [Slots -> Times \cup {Never}]]
    /\ running \subseteq [sess : Sessions, cmd : Commands]
    /\ minted \in 0..MaxMints
    /\ grants \in [Paths -> [Slots -> Nat]]

\* TypeOK with what the increments of `slot' need to preserve it.
TypeInv == LocalsTyped /\ SharedTyped

GoneTyped == gone \subseteq Ids

LEMMA TypeInvImpliesTypeOK == TypeInv /\ GoneTyped => TypeOK
BY DEF TypeInv, GoneTyped, TypeOK, LocalsTyped, SharedTyped

USE DEF Slots, Times, Ids, Never

-----------------------------------------------------------------------------
(* Typing of the operations the actions share *)

LEMMA RenameType ==
    ASSUME SharedTyped, NEW q \in Paths, Rename(q) \/ Renamed(q)
    PROVE  /\ live' \in [Paths -> Tokens \cup {NoFile}]
           /\ consumed' \in [Paths -> Times \cup {Never}]
<1>1. live[q] # NoFile => live[q].mtime \in Times
  BY DEF SharedTyped, Tokens
<1> QED
  BY <1>1 DEF SharedTyped, Rename, Renamed

LEMMA CleanupConsumedType ==
    ASSUME SharedTyped, CleanupConsumed
    PROVE  /\ consumed' \in [Paths -> Times \cup {Never}]
           /\ marker' \in [Paths -> [Slots -> Times \cup {Never}]]
BY DEF SharedTyped, CleanupConsumed

LEMMA CleanupOrphansType ==
    ASSUME SharedTyped, CleanupOrphans
    PROVE  live' \in [Paths -> Tokens \cup {NoFile}]
BY DEF SharedTyped, CleanupOrphans

LEMMA DefaultsType ==
    /\ NoCommand \in Commands
    /\ NoSession \in Sessions
    /\ NoPath \in Paths
    /\ 0 \in Times
    /\ 1 \in 1..(MaxUses + 1)
<1>1. NoCommand \in Commands
  BY InputsAssumption DEF NoCommand
<1>2. NoPath \in Paths
  BY BoundsAssumption DEF NoPath, BasePath, Paths
<1> QED
  BY <1>1, <1>2, BoundsAssumption, InputsAssumption

LEMMA ExitType ==
    ASSUME LocalsTyped, NEW p \in Procs, Exit(p)
    PROVE  LocalsTyped'
BY DefaultsType DEF LocalsTyped, LabelsTyped, Exit, Goto, Labels

LEMMA AllowType ==
    ASSUME TypeInv, NEW p \in Procs, Allow(p)
    PROVE  /\ LocalsTyped'
           /\ running' \subseteq [sess : Sessions, cmd : Commands]
<1>1. LocalsTyped'
  BY ExitType DEF TypeInv, Allow
<1>2. [sess |-> sess[p], cmd |-> cmd[p]] \in [sess : Sessions, cmd : Commands]
  BY DEF TypeInv, LocalsTyped
<1>3. running' \subseteq [sess : Sessions, cmd : Commands]
  BY <1>2 DEF TypeInv, SharedTyped, Allow
<1> QED
  BY <1>1, <1>3

LEMMA GrantType ==
    ASSUME SharedTyped, NEW p \in Procs, path[p] \in Paths, slot[p] \in Slots,
           Grant(p)
    PROVE  grants' \in [Paths -> [Slots -> Nat]]
<1>1. grants[path[p]] \in [Slots -> Nat]
  BY DEF SharedTyped
<1>2. \A g \in [Slots -> Nat], k \in Slots : [g EXCEPT ![k] = g[k] + 1] \in [Slots -> Nat]
  <2> SUFFICES ASSUME NEW g \in [Slots -> Nat], NEW k \in Slots
               PROVE  [g EXCEPT ![k] = g[k] + 1] \in [Slots -> Nat]
    OBVIOUS
  <2>1. g[k] \in Nat
    OBVIOUS
  <2>2. g[k] + 1 \in Nat
    BY <2>1
  <2> QED
    BY <2>2
<1>3. [grants[path[p]] EXCEPT ![slot[p]] = @ + 1] \in [Slots -> Nat]
  BY <1>1, <1>2
<1> QED
  BY <1>3 DEF SharedTyped, Grant

LEMMA DenyType ==
    ASSUME TypeInv, NEW p \in Procs, Deny(p), UNCHANGED <<now, fs, minted, grants>>
    PROVE  TypeInv'
<1>1. LocalsTyped'
  BY ExitType DEF TypeInv, Deny
<1>2. SharedTyped'
  BY DEF TypeInv, Deny, SharedTyped, fs
<1> QED
  BY <1>1, <1>2 DEF TypeInv

LEMMA StepType ==
    ASSUME TypeInv, NEW p \in Procs, NEW from \in Labels, NEW to \in Labels,
           Step(p, from, to), to = "unclaim" => from = "body",
           to \notin {"body", "write"}
    PROVE  TypeInv'
<1>1. LocalsTyped'
  BY DEF TypeInv, LocalsTyped, LabelsTyped, Step, Goto, history
<1>2. SharedTyped'
  BY DEF TypeInv, Step, SharedTyped, fs, history
<1> QED
  BY <1>1, <1>2 DEF TypeInv

-----------------------------------------------------------------------------
(* Type correctness *)

LEMMA InitType == Init => TypeInv /\ GoneTyped
BY DefaultsType, BoundsAssumption
   DEF Init, TypeInv, GoneTyped, LocalsTyped, SharedTyped, LabelsTyped, Labels

LEMMA ReadType ==
    ASSUME TypeInv, GoneTyped, NEW p \in Procs, ReadStep(p)
    PROVE  TypeInv'
<1> USE DEF TypeInv, LocalsTyped, SharedTyped, LabelsTyped, fs, history, Goto
<1>1. ASSUME NEW s \in Sessions, NEW c \in Commands, ReadStart(p, s, c)
      PROVE  TypeInv'
  <2>1. gone \in SUBSET Ids
    BY DEF GoneTyped
  <2>2. LivePaths \in SUBSET Paths
    BY DEF LivePaths
  <2> QED
    BY <1>1, <2>1, <2>2 DEF ReadStart, Invoke, Labels
<1>2. ASSUME NEW q \in todo[p], ScanUnusable(p, q)
      PROVE  TypeInv'
  BY <1>2 DEF ScanUnusable, Labels
<1>3. ASSUME NEW q \in todo[p], ScanForeign(p, q)
      PROVE  TypeInv'
  BY <1>3 DEF ScanForeign
<1>4. ASSUME NEW q \in todo[p], ScanUsable(p, q)
      PROVE  TypeInv'
  BY <1>4 DEF ScanUsable
<1>5. ASSUME NEW q \in todo[p], ScanFull(p, q)
      PROVE  TypeInv'
  BY <1>5 DEF ScanFull, Labels
<1>6. CASE RemoveUnusable(p)
  BY <1>6 DEF RemoveUnusable, Unlink, Labels
<1>7. CASE RenameFull(p)
  BY <1>7, RenameType DEF RenameFull, Labels
<1>8. CASE Sweep(p)
  BY <1>8, CleanupConsumedType, CleanupOrphansType DEF Sweep, Labels
<1>9. CASE MatchFails(p)
  BY <1>9, DenyType DEF MatchFails
<1>10. CASE ConsumeRead(p) \/ ConsumeReadFails(p)
  BY <1>10, StepType DEF ConsumeRead, ConsumeReadFails, Labels
<1>11. CASE ProbeClaimed(p)
  BY <1>11, DenyType DEF ProbeClaimed
<1>12. CASE ProbeUnclaimed(p) \/ RenameMissing(p)
  BY <1>12, StepType DEF ProbeUnclaimed, RenameMissing, Labels
<1>13. CASE RenameConsumes(p)
  BY <1>13, RenameType, AllowType DEF RenameConsumes
<1>14. CASE RecheckConsumed(p)
  BY <1>14, AllowType DEF RecheckConsumed
<1>15. CASE RecheckGone(p)
  BY <1>15, DenyType DEF RecheckGone
<1>16. CASE Claim(p)
  BY <1>16 DEF Claim, Labels
<1>17. CASE ClaimNext(p)
  <2>1. slot[p] + 1 \in 1..(MaxUses + 1)
    BY <1>17, BoundsAssumption DEF ClaimNext
  <2>2. slot' \in [Procs -> 1..(MaxUses + 1)]
    BY <1>17, <2>1 DEF ClaimNext
  <2>3. LabelsTyped'
    BY <1>17 DEF ClaimNext
  <2> QED
    BY <1>17, <2>2, <2>3 DEF ClaimNext
<1>18. CASE ClaimExhausted(p)
  BY <1>18, DenyType DEF ClaimExhausted
<1>19. CASE WriteBody(p)
  <2>1. grants' \in [Paths -> [Slots -> Nat]]
    BY <1>19, GrantType DEF WriteBody
  <2> QED
    BY <1>19, <2>1, AllowType DEF WriteBody
<1>20. CASE WriteLastBody(p)
  BY <1>20, GrantType DEF WriteLastBody, Labels
<1>21. CASE RenameLast(p)
  BY <1>21, RenameType, AllowType DEF RenameLast
<1>22. CASE WriteBodyFails(p)
  BY <1>22, StepType DEF WriteBodyFails, Labels
<1>24. CASE RenameRefused(p)
  BY <1>24, DenyType DEF RenameRefused
<1>23. CASE Unclaim(p)
  <2>1. slot[p] + 1 \in 1..(MaxUses + 1)
    BY <1>23, BoundsAssumption DEF Unclaim
  <2>2. slot' \in [Procs -> 1..(MaxUses + 1)]
    BY <1>23, <2>1 DEF Unclaim
  <2>3. marker' \in [Paths -> [Slots -> Times \cup {Never}]]
    <3>1. path[p] \in Paths /\ slot[p] \in Slots
      BY <1>23 DEF Unclaim
    <3>2. \/ marker' = marker
          \/ marker' = [marker EXCEPT ![path[p]][slot[p]] = Never]
      BY <1>23 DEF Unclaim
    <3>3. CASE marker' = [marker EXCEPT ![path[p]][slot[p]] = Never]
      BY <3>1, <3>3
    <3> QED
      BY <3>2, <3>3
  <2>4. LabelsTyped'
    BY <1>23 DEF Unclaim
  <2> QED
    BY <1>23, <2>2, <2>3, <2>4 DEF Unclaim, Labels
<1> QED
  BY <1>1, <1>2, <1>3, <1>4, <1>5, <1>6, <1>7, <1>8, <1>9, <1>10, <1>11, <1>12,
     <1>13, <1>14, <1>15, <1>16, <1>17, <1>18, <1>19, <1>20, <1>21, <1>22, <1>23,
     <1>24 DEF ReadStep

LEMMA MintType ==
    ASSUME TypeInv, NEW p \in Procs, MintStep(p)
    PROVE  TypeInv'
<1> USE DEF TypeInv, LocalsTyped, SharedTyped, LabelsTyped, fs, history, Goto
<1>1. ASSUME NEW s \in Sessions, NEW c \in Commands, MintStart(p, s, c)
      PROVE  TypeInv'
  BY <1>1, CleanupConsumedType DEF MintStart, Invoke, Labels
<1>2. CASE MintGlob(p)
  BY <1>2 DEF MintGlob, LivePaths, Labels
<1>3. ASSUME NEW q \in todo[p], MintRetire(p, q)
      PROVE  TypeInv'
  BY <1>3, RenameType DEF MintRetire
<1>4. ASSUME NEW q \in {BasePath(stamp[p]), AltPath(stamp[p])}, MintCreate(p, q)
      PROVE  TypeInv'
  <2>1. q \in Paths
    BY DEF BasePath, AltPath, Paths
  <2> DEFINE t == [id |-> minted + 1, ready |-> FALSE, cmd |-> cmd[p],
                   sess |-> sess[p], exp |-> stamp[p] + TTL, mtime |-> now]
  <2>2. t \in Tokens
    BY <1>4, BoundsAssumption DEF MintCreate, Tokens
  <2>3. minted + 1 \in 0..MaxMints
    BY <1>4, BoundsAssumption DEF MintCreate
  <2> HIDE DEF t
  <2>4. /\ live' = [live EXCEPT ![q] = t]
        /\ found' = [found EXCEPT ![p] = t]
    BY <1>4 DEF MintCreate, t
  <2>5. live' \in [Paths -> Tokens \cup {NoFile}]
    BY <2>1, <2>2, <2>4
  <2>6. found' \in [Procs -> Tokens \cup {NoFile}]
    BY <2>2, <2>4
  <2>7. LabelsTyped'
    BY <1>4, <2>2, <2>4 DEF MintCreate
  <2>8. LocalsTyped'
    BY <1>4, <2>1, <2>6, <2>7 DEF MintCreate, Labels
  <2>9. SharedTyped'
    BY <1>4, <2>3, <2>5 DEF MintCreate
  <2> QED
    BY <2>8, <2>9
<1>5. CASE MintBlocked(p)
  BY <1>5, DenyType DEF MintBlocked
<1>6. CASE MintWrite(p)
  <2>1. \A t \in Tokens : [t EXCEPT !.ready = TRUE] \in Tokens
    BY DEF Tokens
  <2>2. live' \in [Paths -> Tokens \cup {NoFile}]
    <3>1. found[p] \in Tokens
      BY <1>6 DEF MintWrite
    <3>2. CASE live[path[p]] = found[p]
      BY <1>6, <2>1, <3>1, <3>2 DEF MintWrite
    <3>3. CASE live[path[p]] # found[p]
      BY <1>6, <3>3 DEF MintWrite
    <3> QED
      BY <3>2, <3>3
  <2> QED
    BY <1>6, <2>2, ExitType DEF MintWrite, Deny
<1>7. CASE MintWriteFails(p)
  BY <1>7, ExitType DEF MintWriteFails, Deny, Unlink
<1>8. CASE MintRetry(p)
  BY <1>8, StepType DEF MintRetry, Labels
<1> QED
  BY <1>1, <1>2, <1>3, <1>4, <1>5, <1>6, <1>7, <1>8 DEF MintStep

LEMMA RetireType ==
    ASSUME TypeInv, NEW p \in Procs, RetireStep(p)
    PROVE  TypeInv'
<1> USE DEF TypeInv, LocalsTyped, SharedTyped, LabelsTyped, fs, history, Goto
<1>1. ASSUME NEW r \in running, RetireStart(p, r)
      PROVE  TypeInv'
  BY <1>1 DEF RetireStart, Invoke, LivePaths, Labels
<1>2. ASSUME NEW q \in todo[p], RetireSkip(p, q)
      PROVE  TypeInv'
  BY <1>2 DEF RetireSkip
<1>3. ASSUME NEW q \in todo[p], RetireMatch(p, q)
      PROVE  TypeInv'
  BY <1>3 DEF RetireMatch, Labels
<1>4. CASE RetireRename(p)
  BY <1>4, RenameType, ExitType DEF RetireRename, Deny
<1>5. CASE RetireNone(p)
  BY <1>5, DenyType DEF RetireNone
<1> QED
  BY <1>1, <1>2, <1>3, <1>4, <1>5 DEF RetireStep

LEMMA NextType == TypeInv /\ GoneTyped /\ [Next]_vars => TypeInv' /\ GoneTyped'
<1> SUFFICES ASSUME TypeInv, GoneTyped, [Next]_vars
             PROVE  TypeInv' /\ GoneTyped'
  OBVIOUS
<1>0. GoneTyped'
  <2>1. LiveIds \subseteq Ids
    BY DEF LiveIds, LivePaths, Tokens, TypeInv, SharedTyped
  <2> QED
    BY <2>1 DEF GoneTyped, Next, Remember, vars
<1> SUFFICES TypeInv'
  BY <1>0
<1>1. ASSUME NEW p \in Readers, ReadStep(p)
      PROVE  TypeInv'
  BY <1>1, ReadType DEF Procs
<1>2. ASSUME NEW p \in Minters, MintStep(p)
      PROVE  TypeInv'
  BY <1>2, MintType DEF Procs
<1>3. ASSUME NEW p \in Retirers, RetireStep(p)
      PROVE  TypeInv'
  BY <1>3, RetireType DEF Procs
<1>4. ASSUME NEW r \in running, CommandFails(r)
      PROVE  TypeInv'
  BY <1>4 DEF CommandFails, TypeInv, LocalsTyped, SharedTyped, LabelsTyped, fs,
              locals, history
<1>5. ASSUME NEW p \in Procs, Crash(p)
      PROVE  TypeInv'
  BY <1>5, DenyType DEF Crash
<1>6. CASE Tick
  <2>1. now' \in Times
    BY <1>6, BoundsAssumption DEF Tick, TypeInv, SharedTyped
  <2> QED
    BY <1>6, <2>1 DEF Tick, TypeInv, LocalsTyped, SharedTyped, LabelsTyped, fs,
                      locals, history
<1>7. CASE UNCHANGED vars
  BY <1>7 DEF vars, TypeInv, LocalsTyped, SharedTyped, LabelsTyped, fs, locals,
              history
<1> QED
  BY <1>1, <1>2, <1>3, <1>4, <1>5, <1>6, <1>7 DEF Next, HookStep

\* Every variable keeps its type through every interleaving of the hook
\* processes of merge_guard_pre and merge_guard_post.
THEOREM TypeCorrect == Spec => []TypeOK
<1>1. Spec => [](TypeInv /\ GoneTyped)
  BY InitType, NextType, PTL DEF Spec
<1>2. TypeInv /\ GoneTyped => TypeOK
  BY TypeInvImpliesTypeOK
<1> QED
  BY <1>1, <1>2, PTL

-----------------------------------------------------------------------------
(* Each use slot is granted at most once before the token expires *)

\* p has created the marker of slot k at q and has not yet been granted it.
Holds(p, q, k) == pc[p] \in {"body", "unclaim"} /\ path[p] = q /\ slot[p] = k

\* A path names a second that has passed, and its markers are younger than it.
ClockInv ==
    /\ \A q \in Paths : live[q] # NoFile => q.ts <= now
    /\ \A p \in Procs : path[p].ts <= now /\ stamp[p] <= now
    /\ \A q \in Paths, k \in Slots : marker[q][k] # Never => q.ts <= marker[q][k]

\* A slot has one holder, or was granted once, and either way its marker exists.
SlotOwned(q, k) ==
    /\ grants[q][k] <= 1
    /\ grants[q][k] > 0 => marker[q][k] # Never
    /\ \A p \in Procs : Holds(p, q, k) => marker[q][k] # Never /\ grants[q][k] = 0
    /\ \A p, r \in Procs : Holds(p, q, k) /\ Holds(r, q, k) => p = r

OwnInv == \A q \in Paths, k \in Slots : now <= q.ts + TTL => SlotOwned(q, k)

SlotInv == TypeInv /\ GoneTyped /\ ClockInv /\ OwnInv

\* Steps that leave the markers alone and take hold of none.
LEMMA OwnFrame ==
    ASSUME OwnInv, UNCHANGED <<marker, grants, now>>,
           \A p \in Procs, q \in Paths, k \in Slots : Holds(p, q, k)' => Holds(p, q, k)
    PROVE  OwnInv'
BY DEF OwnInv, SlotOwned

\* An exiting process holds no marker and its path is NoPath.
LEMMA OwnExit ==
    ASSUME TypeInv, ClockInv, OwnInv, NEW p \in Procs, Exit(p),
           UNCHANGED <<marker, grants, now>>,
           \A q \in Paths : live'[q] # NoFile => live[q] # NoFile
    PROVE  ClockInv' /\ OwnInv'
<1>1. ClockInv'
  <2>1. NoPath.ts <= now /\ 0 <= now
    BY BoundsAssumption DEF NoPath, BasePath, TypeInv, SharedTyped
  <2>2. \A r \in Procs : path'[r].ts <= now /\ stamp'[r] <= now
    BY <2>1 DEF Exit, TypeInv, LocalsTyped, ClockInv
  <2> QED
    BY <2>2 DEF ClockInv
<1>2. \A r \in Procs, q \in Paths, k \in Slots : Holds(r, q, k)' => Holds(r, q, k)
  BY DEF Holds, Exit, Goto, TypeInv, LocalsTyped
<1> QED
  BY <1>1, <1>2, OwnFrame

\* Reaping a marker past TTL touches no slot of a token that has not expired.
LEMMA OwnCleanup ==
    ASSUME TypeInv, ClockInv, OwnInv, CleanupConsumed, UNCHANGED <<grants, now>>,
           \A p \in Procs, q \in Paths, k \in Slots : Holds(p, q, k)' => Holds(p, q, k)
    PROVE  /\ OwnInv'
           /\ \A q \in Paths, k \in Slots : marker'[q][k] # Never => q.ts <= marker'[q][k]
<1>1. \A q \in Paths, k \in Slots :
         marker'[q][k] = IF Stale(marker[q][k], TTL) THEN Never ELSE marker[q][k]
  BY DEF CleanupConsumed
<1>2. ASSUME NEW q \in Paths, NEW k \in Slots, now <= q.ts + TTL
      PROVE  marker'[q][k] = marker[q][k]
  <2>1. /\ now \in Int /\ q.ts \in Int /\ marker[q][k] \in Int /\ TTL \in Int
        /\ marker[q][k] # Never => q.ts <= marker[q][k]
    <3>1. marker[q] \in [Slots -> Times \cup {Never}] /\ now \in Times
      BY DEF TypeInv, SharedTyped
    <3>2. marker[q][k] \in Times \cup {Never}
      BY <3>1
    <3>3. q.ts \in Times
      BY DEF Paths
    <3> QED
      BY <3>1, <3>2, <3>3, BoundsAssumption DEF ClockInv
  <2> QED
    BY <1>1, <1>2, <2>1 DEF Stale
<1>3. \A q \in Paths, k \in Slots : marker'[q][k] # Never => q.ts <= marker'[q][k]
  BY <1>1 DEF ClockInv
<1> QED
  BY <1>2, <1>3 DEF OwnInv, SlotOwned

LEMMA InitSlot == Init => SlotInv
<1> SUFFICES ASSUME Init
             PROVE  SlotInv
  OBVIOUS
<1>1. ClockInv
  BY BoundsAssumption DEF Init, ClockInv, NoPath, BasePath
<1>2. OwnInv
  BY DEF Init, OwnInv, SlotOwned, Holds
<1> QED
  BY <1>1, <1>2, InitType DEF SlotInv

LEMMA ReadSlot ==
    ASSUME SlotInv, NEW p \in Procs, ReadStep(p)
    PROVE  ClockInv' /\ OwnInv'
<1> USE DEF SlotInv, TypeInv, LocalsTyped, SharedTyped, fs, history, Goto, Rename, Renamed
<1>1. ASSUME NEW s \in Sessions, NEW c \in Commands, ReadStart(p, s, c)
      PROVE  ClockInv' /\ OwnInv'
  BY <1>1, OwnFrame DEF ReadStart, Invoke, Holds, ClockInv
<1>2. ASSUME NEW q \in todo[p], \/ ScanUnusable(p, q)
                               \/ ScanForeign(p, q)
                               \/ ScanFull(p, q)
      PROVE  ClockInv' /\ OwnInv'
  BY <1>2, OwnFrame DEF ScanUnusable, ScanForeign, ScanFull, Holds, ClockInv
<1>3. ASSUME NEW q \in todo[p], ScanUsable(p, q)
      PROVE  ClockInv' /\ OwnInv'
  <2>1. q \in Paths /\ live[q] # NoFile
    BY <1>3 DEF ScanUsable, Readable
  <2> QED
    BY <1>3, <2>1, OwnFrame DEF ScanUsable, Holds, ClockInv
<1>4. CASE RemoveUnusable(p) \/ RenameFull(p)
  BY <1>4, OwnFrame DEF RemoveUnusable, RenameFull, Unlink, Holds, ClockInv
<1>5. CASE Sweep(p)
  <2>1. \A r \in Procs, q \in Paths, k \in Slots : Holds(r, q, k)' => Holds(r, q, k)
    BY <1>5 DEF Sweep, Holds
  <2>2. \A q \in Paths : live'[q] # NoFile => live[q] # NoFile
    BY <1>5 DEF Sweep, CleanupOrphans
  <2> QED
    BY <1>5, <2>1, <2>2, OwnCleanup DEF Sweep, ClockInv
<1>6. CASE \/ MatchFails(p) \/ ProbeClaimed(p) \/ RecheckGone(p)
           \/ ClaimExhausted(p) \/ RecheckConsumed(p) \/ RenameConsumes(p)
           \/ RenameRefused(p) \/ RenameLast(p)
  BY <1>6, OwnExit DEF MatchFails, ProbeClaimed, RecheckGone, ClaimExhausted,
     RecheckConsumed, RenameConsumes, RenameRefused, RenameLast, Deny, Allow
<1>7. CASE \/ ConsumeRead(p) \/ ConsumeReadFails(p) \/ ProbeUnclaimed(p)
           \/ RenameMissing(p) \/ WriteBodyFails(p)
  BY <1>7, OwnFrame DEF ConsumeRead, ConsumeReadFails, ProbeUnclaimed,
     RenameMissing, WriteBodyFails, Step, Holds, ClockInv
<1>8. CASE ClaimNext(p)
  BY <1>8, OwnFrame DEF ClaimNext, Holds, ClockInv
<1>9. CASE Claim(p)
  <2> DEFINE a == path[p]  b == slot[p]
  <2>1. a \in Paths /\ b \in Slots /\ marker[a][b] = Never /\ now # Never
    BY <1>9, BoundsAssumption DEF Claim
  <2>2. \A q \in Paths, k \in Slots :
           marker'[q][k] = IF q = a /\ k = b THEN now ELSE marker[q][k]
    BY <1>9 DEF Claim
  <2>3. \A r \in Procs, q \in Paths, k \in Slots :
           Holds(r, q, k)' <=> Holds(r, q, k) \/ (r = p /\ q = a /\ k = b)
    BY <1>9 DEF Claim, Holds
  <2>4. ClockInv'
    BY <1>9, <2>2 DEF Claim, ClockInv
  <2>5. OwnInv'
    BY <1>9, <2>1, <2>2, <2>3 DEF Claim, OwnInv, SlotOwned
  <2> QED
    BY <2>4, <2>5
<1>10. CASE WriteBody(p) \/ WriteLastBody(p)
  <2> DEFINE a == path[p]  b == slot[p]
  <2>1. a \in Paths /\ b \in Slots /\ Holds(p, a, b)
    BY <1>10 DEF WriteBody, WriteLastBody, LabelsTyped, Holds
  <2>2. \A q \in Paths, k \in Slots :
           grants'[q][k] = IF q = a /\ k = b THEN grants[q][k] + 1 ELSE grants[q][k]
    <3>1. /\ grants \in [Paths -> [Slots -> Nat]]
          /\ grants' = [grants EXCEPT ![a][b] = @ + 1]
      BY <1>10 DEF WriteBody, WriteLastBody, Grant
    <3> HIDE DEF a, b
    <3> QED
      BY <2>1, <3>1
  <2>3. \A r \in Procs, q \in Paths, k \in Slots :
           Holds(r, q, k)' => Holds(r, q, k) /\ r # p
    <3>1. CASE WriteBody(p)
      BY <3>1 DEF WriteBody, Allow, Exit, Goto, Holds
    <3>2. CASE WriteLastBody(p)
      BY <3>2 DEF WriteLastBody, Goto, Holds
    <3> QED
      BY <1>10, <3>1, <3>2
  <2>4. NoPath.ts <= now /\ 0 <= now
    BY BoundsAssumption DEF NoPath, BasePath
  <2>5. ClockInv'
    <3>1. CASE WriteBody(p)
      <4>1. /\ UNCHANGED <<now, live, marker>>
            /\ path' = [path EXCEPT ![p] = NoPath]
            /\ stamp' = [stamp EXCEPT ![p] = 0]
        BY <3>1 DEF WriteBody, Allow, Exit, fs
      <4> QED
        BY <4>1, <2>4 DEF ClockInv
    <3>2. CASE WriteLastBody(p)
      BY <3>2 DEF WriteLastBody, ClockInv
    <3> QED
      BY <1>10, <3>1, <3>2
  <2>6. OwnInv'
    <3>1. UNCHANGED <<now, marker>>
      BY <1>10 DEF WriteBody, WriteLastBody
    <3>2. ASSUME NEW q \in Paths, NEW k \in Slots, now <= q.ts + TTL
          PROVE  SlotOwned(q, k)'
      <4>1. SlotOwned(q, k) /\ grants[q][k] \in Nat
        <5>1. grants[q] \in [Slots -> Nat]
          OBVIOUS
        <5>2. SlotOwned(q, k)
          BY <3>2 DEF OwnInv
        <5> QED
          BY <5>1, <5>2
      <4>2. CASE q = a /\ k = b
        BY <2>1, <2>2, <2>3, <3>1, <4>1, <4>2 DEF SlotOwned
      <4>3. CASE ~(q = a /\ k = b)
        BY <2>2, <2>3, <3>1, <4>1, <4>3 DEF SlotOwned
      <4> QED
        BY <4>2, <4>3
    <3> QED
      BY <3>1, <3>2 DEF OwnInv
  <2> QED
    BY <2>5, <2>6
<1>11. CASE Unclaim(p)
  <2> DEFINE a == path[p]  b == slot[p]
  <2>1. a \in Paths /\ b \in Slots /\ Holds(p, a, b)
    BY <1>11 DEF Unclaim, LabelsTyped, Holds
  <2>2. \A q \in Paths, k \in Slots :
           \/ marker'[q][k] = marker[q][k]
           \/ marker'[q][k] = Never /\ q = a /\ k = b
    <3>1. marker \in [Paths -> [Slots -> Times \cup {Never}]]
      OBVIOUS
    <3>2. \/ marker' = marker
          \/ marker' = [marker EXCEPT ![a][b] = Never]
      BY <1>11 DEF Unclaim
    <3> HIDE DEF a, b
    <3>3. CASE marker' = [marker EXCEPT ![a][b] = Never]
      BY <2>1, <3>1, <3>3
    <3> QED
      BY <3>2, <3>3
  <2>3. \A r \in Procs, q \in Paths, k \in Slots :
           Holds(r, q, k)' => Holds(r, q, k) /\ r # p
    BY <1>11 DEF Unclaim, Holds
  <2>4. ClockInv'
    BY <1>11, <2>2 DEF Unclaim, ClockInv
  <2>5. OwnInv'
    <3>1. UNCHANGED <<now, grants>>
      BY <1>11 DEF Unclaim
    <3>2. ASSUME NEW q \in Paths, NEW k \in Slots, now <= q.ts + TTL
          PROVE  SlotOwned(q, k)'
      <4>1. SlotOwned(q, k)
        BY <3>2 DEF OwnInv
      <4>2. CASE q = a /\ k = b
        BY <2>1, <2>3, <3>1, <4>1, <4>2 DEF SlotOwned
      <4>3. CASE ~(q = a /\ k = b)
        BY <2>2, <2>3, <3>1, <4>1, <4>3 DEF SlotOwned
      <4> QED
        BY <4>2, <4>3
    <3> QED
      BY <3>1, <3>2 DEF OwnInv
  <2> QED
    BY <2>4, <2>5
<1> QED
  BY <1>1, <1>2, <1>3, <1>4, <1>5, <1>6, <1>7, <1>8, <1>9, <1>10, <1>11
     DEF ReadStep

LEMMA NextSlot == SlotInv /\ [Next]_vars => SlotInv'
<1> SUFFICES ASSUME SlotInv, [Next]_vars
             PROVE  ClockInv' /\ OwnInv'
  BY NextType DEF SlotInv
<1> USE DEF SlotInv, TypeInv, LocalsTyped, SharedTyped, fs, history, Goto
<1>1. ASSUME NEW p \in Readers, ReadStep(p)
      PROVE  ClockInv' /\ OwnInv'
  BY <1>1, ReadSlot DEF Procs
<1>2. ASSUME NEW p \in Minters, MintStep(p)
      PROVE  ClockInv' /\ OwnInv'
  <2> p \in Procs
    BY DEF Procs
  <2>1. ASSUME NEW s \in Sessions, NEW c \in Commands, MintStart(p, s, c)
        PROVE  ClockInv' /\ OwnInv'
    <3>1. \A r \in Procs, q \in Paths, k \in Slots : Holds(r, q, k)' => Holds(r, q, k)
      BY <2>1 DEF MintStart, Invoke, Holds
    <3>2. CleanupConsumed /\ UNCHANGED <<now, live, path, grants>>
      BY <2>1 DEF MintStart, Invoke
    <3>3. stamp' = [stamp EXCEPT ![p] = now]
      BY <2>1 DEF MintStart, Invoke
    <3>4. OwnInv' /\ \A q \in Paths, k \in Slots : marker'[q][k] # Never => q.ts <= marker'[q][k]
      BY <3>1, <3>2, OwnCleanup
    <3>5. \A r \in Procs : stamp'[r] <= now
      BY <3>3 DEF ClockInv
    <3>6. ClockInv'
      <4> HIDE DEF TypeInv, LocalsTyped, SharedTyped
      <4> QED
        BY <3>2, <3>4, <3>5 DEF ClockInv
    <3> QED
      BY <3>4, <3>6
  <2>2. CASE MintGlob(p)
    BY <2>2, OwnFrame DEF MintGlob, Holds, ClockInv
  <2>3. ASSUME NEW q \in todo[p], MintRetire(p, q)
        PROVE  ClockInv' /\ OwnInv'
    BY <2>3, OwnFrame DEF MintRetire, Rename, Renamed, Holds, ClockInv
  <2>4. ASSUME NEW q \in {BasePath(stamp[p]), AltPath(stamp[p])}, MintCreate(p, q)
        PROVE  ClockInv' /\ OwnInv'
    <3>1. q \in Paths /\ q.ts = stamp[p]
      BY DEF BasePath, AltPath, Paths
    <3>2. \A r \in Procs, x \in Paths, k \in Slots : Holds(r, x, k)' => Holds(r, x, k)
      BY <2>4 DEF MintCreate, Holds
    <3>3. \A x \in Paths : live'[x] # NoFile => x = q \/ live[x] # NoFile
      BY <2>4 DEF MintCreate
    <3>4. \A r \in Procs : path'[r].ts <= now
      BY <2>4, <3>1 DEF MintCreate, ClockInv
    <3>5. ClockInv'
      BY <2>4, <3>1, <3>3, <3>4 DEF MintCreate, ClockInv
    <3> QED
      BY <2>4, <3>2, <3>5, OwnFrame DEF MintCreate
  <2>5. CASE MintBlocked(p)
    BY <2>5, OwnExit DEF MintBlocked, Deny
  <2>6. CASE MintWrite(p)
    <3>1. \A q \in Paths : live'[q] # NoFile => live[q] # NoFile
      BY <2>6, NoFileAssumption DEF MintWrite, LabelsTyped
    <3> QED
      BY <2>6, <3>1, OwnExit DEF MintWrite, Deny
  <2>7. CASE MintWriteFails(p)
    BY <2>7, OwnExit DEF MintWriteFails, Unlink, Deny
  <2>8. CASE MintRetry(p)
    BY <2>8, OwnFrame DEF MintRetry, Step, Holds, ClockInv
  <2> QED
    BY <1>2, <2>1, <2>2, <2>3, <2>4, <2>5, <2>6, <2>7, <2>8 DEF MintStep
<1>3. ASSUME NEW p \in Retirers, RetireStep(p)
      PROVE  ClockInv' /\ OwnInv'
  <2> p \in Procs
    BY DEF Procs
  <2>1. ASSUME NEW r \in running, RetireStart(p, r)
        PROVE  ClockInv' /\ OwnInv'
    BY <2>1, OwnFrame DEF RetireStart, Invoke, Holds, ClockInv
  <2>2. ASSUME NEW q \in todo[p], RetireSkip(p, q)
        PROVE  ClockInv' /\ OwnInv'
    BY <2>2, OwnFrame DEF RetireSkip, Holds, ClockInv
  <2>3. ASSUME NEW q \in todo[p], RetireMatch(p, q)
        PROVE  ClockInv' /\ OwnInv'
    <3>1. q \in Paths /\ live[q] # NoFile
      BY <2>3 DEF RetireMatch, Matching
    <3> QED
      BY <2>3, <3>1, OwnFrame DEF RetireMatch, Holds, ClockInv
  <2>4. CASE RetireRename(p) \/ RetireNone(p)
    BY <2>4, OwnExit DEF RetireRename, RetireNone, Rename, Renamed, Deny
  <2> QED
    BY <1>3, <2>1, <2>2, <2>3, <2>4 DEF RetireStep
<1>4. ASSUME NEW r \in running, CommandFails(r)
      PROVE  ClockInv' /\ OwnInv'
  BY <1>4, OwnFrame DEF CommandFails, locals, Holds, ClockInv
<1>5. ASSUME NEW p \in Procs, Crash(p)
      PROVE  ClockInv' /\ OwnInv'
  BY <1>5, OwnExit DEF Crash, Deny
<1>6. CASE Tick
  <2>1. now' = now + 1 /\ now \in Int
    BY <1>6 DEF Tick
  <2>2. \A q \in Paths : q.ts \in Int
    BY DEF Paths
  <2>3. ClockInv'
    BY <1>6, <2>1, <2>2 DEF Tick, locals, ClockInv
  <2>4. \A q \in Paths, k \in Slots : SlotOwned(q, k) => SlotOwned(q, k)'
    BY <1>6 DEF Tick, locals, SlotOwned, Holds
  <2>5. \A q \in Paths : now' <= q.ts + TTL => now <= q.ts + TTL
    BY <2>1, <2>2, BoundsAssumption
  <2> QED
    BY <2>3, <2>4, <2>5 DEF OwnInv
<1>7. CASE UNCHANGED vars
  BY <1>7, OwnFrame DEF vars, locals, Holds, ClockInv
<1> QED
  BY <1>1, <1>2, <1>3, <1>4, <1>5, <1>6, <1>7 DEF Next, HookStep

\* Before a token expires none of its use slots is granted twice, for any number
\* of hook processes and any interleaving of their system calls, failures and
\* kills (_consume_token's O_EXCL markers and cleanup_consumed_tokens).
THEOREM SlotsGrantedOnce == Spec => []SlotGrantedOnce
<1>1. Spec => []SlotInv
  BY InitSlot, NextSlot, PTL DEF Spec
<1>2. SlotInv => SlotGrantedOnce
  BY DEF SlotInv, OwnInv, SlotOwned, SlotGrantedOnce
<1> QED
  BY <1>1, <1>2, PTL

-----------------------------------------------------------------------------
(* A token that is gone is not selected by a later invocation *)

\* No step brings a token back under its id.
NoneReturns ==
    \A q \in Paths : live'[q] # NoFile => live[q] # NoFile /\ live'[q].id = live[q].id

\* The tokens there are and those that are gone were minted, and differ.
MintedInv ==
    /\ \A q \in Paths : live[q] # NoFile => live[q].id <= minted /\ live[q].id \notin gone
    /\ \A i \in gone : i <= minted

\* What was gone when a process started is still gone, and not what it found.
FoundInv ==
    \A p \in Procs : /\ deadAtStart[p] \subseteq gone
                     /\ found[p] # NoFile => found[p].id \notin deadAtStart[p]
                     /\ pc[p] = "idle" => found[p] = NoFile

GoneInv == MintedInv /\ FoundInv

ReplayInv == TypeInv /\ GoneTyped /\ GoneInv

LEMMA InitReplay == Init => ReplayInv
<1> SUFFICES ASSUME Init PROVE GoneInv
  BY InitType DEF ReplayInv
<1> QED
  BY DEF Init, GoneInv, MintedInv, FoundInv

LEMMA GoneMinted ==
    ASSUME TypeInv, MintedInv, NoneReturns, minted' = minted, Remember
    PROVE  MintedInv'
<1>1. \A i \in LiveIds : i <= minted
  BY DEF LiveIds, LivePaths, MintedInv
<1>2. \A q \in Paths : live'[q] # NoFile => live'[q].id \in LiveIds'
  BY DEF LiveIds, LivePaths
<1>3. \A q \in Paths : live'[q] # NoFile =>
         live'[q].id = live[q].id /\ live[q].id <= minted /\ live[q].id \notin gone
  BY DEF MintedInv, NoneReturns
<1> QED
  BY <1>1, <1>2, <1>3 DEF MintedInv, Remember

LEMMA GoneFrame ==
    ASSUME TypeInv, GoneInv, NoneReturns, Remember, UNCHANGED <<minted, deadAtStart, found>>,
           \A p \in Procs : pc'[p] = "idle" => pc[p] = "idle"
    PROVE  GoneInv'
BY GoneMinted DEF GoneInv, FoundInv, Remember

LEMMA GoneExit ==
    ASSUME TypeInv, GoneInv, NoneReturns, Remember, minted' = minted,
           NEW p \in Procs, Exit(p)
    PROVE  GoneInv'
<1>1. /\ found' = [found EXCEPT ![p] = NoFile]
      /\ deadAtStart' = [deadAtStart EXCEPT ![p] = {}]
      /\ pc' = [pc EXCEPT ![p] = "idle"]
  BY DEF Exit, Goto
<1> QED
  BY <1>1, GoneMinted DEF GoneInv, FoundInv, Remember, TypeInv, LocalsTyped

LEMMA RenameReturns ==
    ASSUME TypeInv, NEW q, Rename(q) \/ Renamed(q) \/ Unlink(q)
    PROVE  NoneReturns
BY DEF Rename, Renamed, Unlink, NoneReturns, TypeInv, SharedTyped

LEMMA SameReturns ==
    ASSUME live' = live
    PROVE  NoneReturns
BY DEF NoneReturns

LEMMA ReadGone ==
    ASSUME ReplayInv, Remember, NEW p \in Procs, ReadStep(p)
    PROVE  GoneInv'
<1> USE DEF ReplayInv, Goto, fs
<1>1. ASSUME NEW s \in Sessions, NEW c \in Commands, ReadStart(p, s, c)
      PROVE  GoneInv'
  <2>1. /\ pc[p] = "idle" /\ pc' = [pc EXCEPT ![p] = "scan"]
        /\ deadAtStart' = [deadAtStart EXCEPT ![p] = gone]
        /\ UNCHANGED <<live, minted, found>>
    BY <1>1 DEF ReadStart, Invoke
  <2> QED
    BY <2>1, SameReturns, GoneMinted DEF GoneInv, FoundInv, Remember, TypeInv, LocalsTyped
<1>2. ASSUME NEW q \in todo[p], ScanUsable(p, q)
      PROVE  GoneInv'
  <2>1. /\ found' = [found EXCEPT ![p] = live[q]] /\ live[q] # NoFile
        /\ UNCHANGED <<live, minted, pc, deadAtStart>> /\ pc[p] = "scan"
    BY <1>2 DEF ScanUsable, Readable, history
  <2>2. q \in Paths
    BY DEF TypeInv, LocalsTyped
  <2>3. live[q].id \notin deadAtStart[p]
    BY <2>1, <2>2 DEF GoneInv, MintedInv, FoundInv
  <2> QED
    BY <2>1, <2>3, SameReturns, GoneMinted
       DEF GoneInv, FoundInv, Remember, TypeInv, LocalsTyped
<1>3. ASSUME NEW q \in todo[p], ScanUnusable(p, q) \/ ScanForeign(p, q) \/ ScanFull(p, q)
      PROVE  GoneInv'
  BY <1>3, GoneFrame, SameReturns
     DEF ScanUnusable, ScanForeign, ScanFull, history, TypeInv, LocalsTyped
<1>4. CASE RemoveUnusable(p) \/ RenameFull(p)
  <2>1. NoneReturns
    BY <1>4, RenameReturns DEF RemoveUnusable, RenameFull
  <2> QED
    BY <1>4, <2>1, GoneFrame DEF RemoveUnusable, RenameFull, history, TypeInv, LocalsTyped
<1>5. CASE Sweep(p)
  <2>1. NoneReturns
    BY <1>5 DEF Sweep, CleanupOrphans, NoneReturns
  <2> QED
    BY <1>5, <2>1, GoneFrame DEF Sweep, history, TypeInv, LocalsTyped
<1>6. CASE \/ ConsumeRead(p) \/ ConsumeReadFails(p) \/ ProbeUnclaimed(p)
           \/ RenameMissing(p) \/ WriteBodyFails(p)
  <2>1. /\ UNCHANGED <<live, minted, deadAtStart, found>>
        /\ \E to \in {"claim", "rename", "probe", "recheck", "unclaim"} :
             pc' = [pc EXCEPT ![p] = to]
    BY <1>6 DEF ConsumeRead, ConsumeReadFails, ProbeUnclaimed, RenameMissing,
       WriteBodyFails, Step, history
  <2> QED
    BY <2>1, GoneFrame, SameReturns DEF TypeInv, LocalsTyped
<1>7. CASE Claim(p) \/ ClaimNext(p) \/ WriteLastBody(p) \/ Unclaim(p)
  <2>1. /\ UNCHANGED <<live, minted, deadAtStart, found>>
        /\ \/ pc' = pc
           \/ \E to \in {"body", "renameLast", "claim"} : pc' = [pc EXCEPT ![p] = to]
    BY <1>7 DEF Claim, ClaimNext, WriteLastBody, Unclaim, history
  <2> QED
    BY <2>1, GoneFrame, SameReturns DEF TypeInv, LocalsTyped
<1>8. CASE \/ MatchFails(p) \/ ProbeClaimed(p) \/ RecheckConsumed(p) \/ RecheckGone(p)
           \/ ClaimExhausted(p) \/ WriteBody(p) \/ RenameRefused(p)
  BY <1>8, GoneExit, SameReturns DEF MatchFails, ProbeClaimed, RecheckConsumed,
     RecheckGone, ClaimExhausted, WriteBody, RenameRefused, Allow, Deny
<1>9. CASE RenameConsumes(p) \/ RenameLast(p)
  BY <1>9, GoneExit, RenameReturns DEF RenameConsumes, RenameLast, Allow
<1> QED
  BY <1>1, <1>2, <1>3, <1>4, <1>5, <1>6, <1>7, <1>8, <1>9 DEF ReadStep

LEMMA MintGone ==
    ASSUME ReplayInv, Remember, NEW p \in Procs, MintStep(p)
    PROVE  GoneInv'
<1> USE DEF ReplayInv, Goto, fs
<1>1. ASSUME NEW s \in Sessions, NEW c \in Commands, MintStart(p, s, c)
      PROVE  GoneInv'
  BY <1>1, GoneFrame, SameReturns DEF MintStart, Invoke, history, TypeInv, LocalsTyped
<1>2. CASE MintGlob(p)
  BY <1>2, GoneFrame, SameReturns DEF MintGlob, history, TypeInv, LocalsTyped
<1>3. ASSUME NEW q \in todo[p], MintRetire(p, q)
      PROVE  GoneInv'
  BY <1>3, GoneFrame, RenameReturns DEF MintRetire, history
<1>4. ASSUME NEW q \in {BasePath(stamp[p]), AltPath(stamp[p])}, MintCreate(p, q)
      PROVE  GoneInv'
  <2> DEFINE t == [id |-> minted + 1, ready |-> FALSE, cmd |-> cmd[p],
                   sess |-> sess[p], exp |-> stamp[p] + TTL, mtime |-> now]
  <2>1. /\ pc' = [pc EXCEPT ![p] = "write"]
        /\ live' = [live EXCEPT ![q] = t] /\ live[q] = NoFile
        /\ found' = [found EXCEPT ![p] = t]
        /\ minted' = minted + 1 /\ deadAtStart' = deadAtStart
    BY <1>4 DEF MintCreate
  <2>2. t.id = minted + 1 /\ minted \in Nat /\ q \in Paths
    BY BoundsAssumption DEF TypeInv, LocalsTyped, SharedTyped, BasePath, AltPath, Paths
  <2> HIDE DEF t
  <2>3. gone' = gone
    <3>1. \A r \in Paths : live[r] # NoFile => live'[r] = live[r]
      BY <2>1 DEF TypeInv, SharedTyped
    <3>2. LiveIds \subseteq LiveIds'
      BY <3>1 DEF LiveIds, LivePaths
    <3> QED
      BY <3>2 DEF Remember
  <2>4. \A r \in Paths : live[r] # NoFile => live[r].id \in Int
    BY DEF TypeInv, SharedTyped, Tokens
  <2>5. \A i \in gone : i \in Int /\ i <= minted
    BY DEF GoneTyped, GoneInv, MintedInv
  <2>6. MintedInv'
    BY <2>1, <2>2, <2>3, <2>4, <2>5 DEF GoneInv, MintedInv, TypeInv, SharedTyped
  <2>7. FoundInv'
    BY <2>1, <2>2, <2>3, <2>5 DEF GoneInv, FoundInv, TypeInv, LocalsTyped
  <2> QED
    BY <2>6, <2>7 DEF GoneInv
<1>5. CASE MintBlocked(p)
  BY <1>5, GoneExit, SameReturns DEF MintBlocked, Deny
<1>6. CASE MintWrite(p)
  <2>1. \A q \in Paths : /\ live'[q] # NoFile => live[q] # NoFile
                         /\ live'[q] \in {live[q], [live[q] EXCEPT !.ready = TRUE]}
    BY <1>6, NoFileAssumption DEF MintWrite, TypeInv, LocalsTyped, LabelsTyped, SharedTyped
  <2>2. NoneReturns
    BY <2>1 DEF NoneReturns, TypeInv, SharedTyped, Tokens
  <2> QED
    BY <1>6, <2>2, GoneExit DEF MintWrite, Deny
<1>7. CASE MintWriteFails(p)
  BY <1>7, GoneExit, RenameReturns DEF MintWriteFails, Deny
<1>8. CASE MintRetry(p)
  BY <1>8, GoneFrame, SameReturns DEF MintRetry, Step, history, TypeInv, LocalsTyped
<1> QED
  BY <1>1, <1>2, <1>3, <1>4, <1>5, <1>6, <1>7, <1>8 DEF MintStep

LEMMA NextReplay == ReplayInv /\ [Next]_vars => ReplayInv'
<1> SUFFICES ASSUME ReplayInv, [Next]_vars PROVE GoneInv'
  BY NextType DEF ReplayInv
<1> USE DEF ReplayInv, Goto, fs
<1>0. Remember
  <2>1. CASE UNCHANGED vars
    <3>1. LiveIds' = LiveIds
      BY <2>1 DEF vars, LiveIds, LivePaths
    <3> QED
      BY <2>1, <3>1 DEF vars, Remember
  <2> QED
    BY <2>1 DEF Next
<1>1. ASSUME NEW p \in Readers, ReadStep(p)
      PROVE  GoneInv'
  BY <1>0, <1>1, ReadGone DEF Procs
<1>2. ASSUME NEW p \in Minters, MintStep(p)
      PROVE  GoneInv'
  BY <1>0, <1>2, MintGone DEF Procs
<1>3. ASSUME NEW p \in Retirers, RetireStep(p)
      PROVE  GoneInv'
  <2> p \in Procs
    BY DEF Procs
  <2>1. ASSUME NEW r \in running, RetireStart(p, r)
        PROVE  GoneInv'
    BY <1>0, <2>1, GoneFrame, SameReturns DEF RetireStart, Invoke, history, TypeInv, LocalsTyped
  <2>2. ASSUME NEW q \in todo[p], RetireSkip(p, q) \/ RetireMatch(p, q)
        PROVE  GoneInv'
    BY <1>0, <2>2, GoneFrame, SameReturns DEF RetireSkip, RetireMatch, history, TypeInv, LocalsTyped
  <2>3. CASE RetireRename(p)
    BY <1>0, <2>3, GoneExit, RenameReturns DEF RetireRename, Deny
  <2>4. CASE RetireNone(p)
    BY <1>0, <2>4, GoneExit, SameReturns DEF RetireNone, Deny
  <2> QED
    BY <1>3, <2>1, <2>2, <2>3, <2>4 DEF RetireStep
<1>4. CASE (\E r \in running : CommandFails(r)) \/ Tick \/ UNCHANGED vars
  BY <1>0, <1>4, GoneFrame, SameReturns DEF CommandFails, Tick, vars, locals, history
<1>5. ASSUME NEW p \in Procs, Crash(p)
      PROVE  GoneInv'
  BY <1>0, <1>5, GoneExit, SameReturns DEF Crash, Deny
<1> QED
  BY <1>1, <1>2, <1>3, <1>4, <1>5 DEF Next, HookStep

\* A token that was retired, removed or replaced is never selected by an
\* invocation that starts later (find_valid_token).
THEOREM GoneNotSelected == Spec => []NoReplay
<1>1. Spec => []ReplayInv
  BY InitReplay, NextReplay, PTL DEF Spec
<1>2. ReplayInv => NoReplay
  BY DEF ReplayInv, GoneInv, FoundInv, NoReplay, Procs
<1> QED
  BY <1>1, <1>2, PTL

-----------------------------------------------------------------------------
(* A token without free slots is not selected by a later invocation *)

ReaderLabels == {"scan", "remove", "renameFull", "match", "probe", "rename", "recheck",
                 "claim", "body", "unclaim", "renameLast"}

\* What was spent when a reader started is still spent, and not what it found.
SpentInv ==
    \A p \in Procs :
        /\ pc[p] \notin ReaderLabels => spentAtStart[p] = {}
        /\ pc[p] = "idle" => found[p] = NoFile
        /\ \A q \in spentAtStart[p] :
             /\ \A k \in Slots : grants[q][k] > 0
             /\ now <= q.ts + TTL => ~(found[p] # NoFile /\ path[p] = q)

\* Tokens of a single use have no markers.
SingleInv ==
    MaxUses = 1 =>
      /\ \A p \in Procs : pc[p] \notin {"claim", "body", "unclaim", "renameLast"}
      /\ \A q \in Paths, k \in Slots : grants[q][k] = 0

LastInv == SlotInv /\ SpentInv /\ SingleInv

LEMMA InitLast == Init => LastInv
<1> SUFFICES ASSUME Init PROVE SpentInv /\ SingleInv
  BY InitSlot DEF LastInv
<1> QED
  BY DEF Init, SpentInv, SingleInv

\* Steps of p that select no token and grant no slot.
LEMMA SpentFrame ==
    ASSUME LastInv, UNCHANGED <<spentAtStart, found, path, now, grants>>,
           NEW p \in Procs, NEW to \in Labels, pc' = [pc EXCEPT ![p] = to],
           to # "idle",
           to \in ReaderLabels \/ pc[p] \notin ReaderLabels,
           to \in {"claim", "body", "unclaim", "renameLast"} =>
             MaxUses > 1 \/ pc[p] \in {"claim", "body", "unclaim", "renameLast"}
    PROVE  SpentInv' /\ SingleInv'
<1>1. \A r \in Procs : pc'[r] = IF r = p THEN to ELSE pc[r]
  BY DEF LastInv, SlotInv, TypeInv, LocalsTyped
<1>2. SpentInv'
  BY <1>1 DEF LastInv, SpentInv
<1>3. SingleInv'
  BY <1>1 DEF LastInv, SingleInv
<1> QED
  BY <1>2, <1>3

LEMMA SpentSame ==
    ASSUME LastInv, UNCHANGED <<spentAtStart, found, path, now, grants, pc>>
    PROVE  SpentInv' /\ SingleInv'
BY DEF LastInv, SpentInv, SingleInv

\* An exiting process forgets what it found.
LEMMA SpentExit ==
    ASSUME LastInv, NEW p \in Procs, Exit(p), UNCHANGED <<now, grants>>
    PROVE  SpentInv' /\ SingleInv'
<1>1. /\ pc' = [pc EXCEPT ![p] = "idle"] /\ path' = [path EXCEPT ![p] = NoPath]
      /\ found' = [found EXCEPT ![p] = NoFile]
      /\ spentAtStart' = [spentAtStart EXCEPT ![p] = {}]
  BY DEF Exit, Goto
<1>2. \A r \in Procs : IF r = p THEN pc'[r] = "idle" /\ found'[r] = NoFile /\ spentAtStart'[r] = {}
                                ELSE /\ pc'[r] = pc[r] /\ found'[r] = found[r]
                                     /\ path'[r] = path[r] /\ spentAtStart'[r] = spentAtStart[r]
  BY <1>1 DEF LastInv, SlotInv, TypeInv, LocalsTyped
<1>3. SpentInv'
  BY <1>2 DEF LastInv, SpentInv
<1>4. SingleInv'
  BY <1>2 DEF LastInv, SingleInv
<1> QED
  BY <1>3, <1>4

\* A granted slot: it was not free to the others.
LEMMA GrantKeeps ==
    ASSUME LastInv, NEW p \in Procs, pc[p] = "body", Grant(p)
    PROVE  /\ \A q \in Paths, k \in Slots : grants[q][k] > 0 => grants'[q][k] > 0
           /\ MaxUses # 1
<1>1. slot[p] \in Slots /\ path[p] \in Paths /\ grants \in [Paths -> [Slots -> Nat]]
  BY DEF LastInv, SlotInv, TypeInv, LocalsTyped, SharedTyped, LabelsTyped
<1>2. PICK c \in Nat : c = grants[path[p]][slot[p]] + 1 /\ c > 0
  <2>1. grants[path[p]] \in [Slots -> Nat]
    BY <1>1
  <2>2. PICK g \in Nat : g = grants[path[p]][slot[p]]
    BY <1>1, <2>1
  <2>3. g + 1 \in Nat /\ g + 1 > 0
    OBVIOUS
  <2> QED
    BY <2>2, <2>3
<1>3. grants' = [grants EXCEPT ![path[p]][slot[p]] = c]
  BY <1>2 DEF Grant
<1> QED
  BY <1>1, <1>2, <1>3 DEF LastInv, SingleInv

LEMMA ReadSpent ==
    ASSUME LastInv, NEW p \in Procs, ReadStep(p)
    PROVE  SpentInv' /\ SingleInv'
<1> USE DEF Goto
<1>0. /\ pc \in [Procs -> Labels] /\ spentAtStart \in [Procs -> SUBSET Paths]
      /\ path \in [Procs -> Paths] /\ found \in [Procs -> Tokens \cup {NoFile}]
      /\ todo \in [Procs -> SUBSET Paths]
      /\ grants \in [Paths -> [Slots -> Nat]] /\ marker \in [Paths -> [Slots -> Times \cup {Never}]]
  BY DEF LastInv, SlotInv, TypeInv, LocalsTyped, SharedTyped
<1>1. ASSUME NEW s \in Sessions, NEW c \in Commands, ReadStart(p, s, c)
      PROVE  SpentInv' /\ SingleInv'
  <2>1. /\ pc[p] = "idle" /\ pc' = [pc EXCEPT ![p] = "scan"]
        /\ spentAtStart' = [spentAtStart EXCEPT
                              ![p] = {q \in Paths : \A k \in Slots : grants[q][k] > 0}]
        /\ UNCHANGED <<now, path, found, grants>>
    BY <1>1 DEF ReadStart, Invoke
  <2>2. \A r \in Procs : IF r = p
          THEN /\ pc'[r] = "scan" /\ found[r] = NoFile
               /\ \A q \in spentAtStart'[r] : \A k \in Slots : grants[q][k] > 0
          ELSE pc'[r] = pc[r] /\ spentAtStart'[r] = spentAtStart[r]
    BY <1>0, <2>1 DEF LastInv, SpentInv
  <2>3. SpentInv'
    BY <2>1, <2>2 DEF LastInv, SpentInv, ReaderLabels
  <2>4. SingleInv'
    BY <2>1, <2>2 DEF LastInv, SingleInv
  <2> QED
    BY <2>3, <2>4
<1>2. ASSUME NEW q \in todo[p], ScanUsable(p, q)
      PROVE  SpentInv' /\ SingleInv'
  <2>1. /\ pc[p] = "scan" /\ q \in Paths
        /\ path' = [path EXCEPT ![p] = q] /\ found' = [found EXCEPT ![p] = live[q]]
        /\ UNCHANGED <<now, pc, spentAtStart, grants>>
        /\ MaxUses > 1 => \E k \in Slots : marker[q][k] = Never
    BY <1>0, <1>2 DEF ScanUsable, history
  <2>2. q \in spentAtStart[p] => ~(now <= q.ts + TTL)
    <3> SUFFICES ASSUME q \in spentAtStart[p], now <= q.ts + TTL PROVE FALSE
      OBVIOUS
    <3>1. \A k \in Slots : grants[q][k] > 0
      BY DEF LastInv, SpentInv
    <3>2. CASE MaxUses > 1
      BY <2>1, <3>1, <3>2 DEF LastInv, SlotInv, OwnInv, SlotOwned
    <3>3. CASE MaxUses = 1
      BY <2>1, <3>1, <3>3 DEF LastInv, SingleInv
    <3> QED
      BY <3>2, <3>3, BoundsAssumption
  <2>3. SpentInv'
    BY <1>0, <2>1, <2>2 DEF LastInv, SpentInv
  <2>4. SingleInv'
    BY <2>1 DEF LastInv, SingleInv
  <2> QED
    BY <2>3, <2>4
<1>3. ASSUME NEW q \in todo[p], ScanForeign(p, q)
      PROVE  SpentInv' /\ SingleInv'
  BY <1>3, SpentSame DEF ScanForeign, history
<1>4. CASE ClaimNext(p)
  BY <1>4, SpentSame DEF ClaimNext, history
<1>5. ASSUME \/ \E q \in todo[p] : ScanUnusable(p, q) \/ ScanFull(p, q)
             \/ RemoveUnusable(p) \/ RenameFull(p) \/ Sweep(p)
             \/ ConsumeRead(p) \/ ConsumeReadFails(p) \/ ProbeUnclaimed(p)
             \/ RenameMissing(p) \/ Claim(p) \/ WriteBodyFails(p) \/ Unclaim(p)
      PROVE  SpentInv' /\ SingleInv'
  <2>1. UNCHANGED <<spentAtStart, found, path, now, grants>>
    BY <1>5 DEF ScanUnusable, ScanFull, RemoveUnusable, RenameFull, Sweep, ConsumeRead,
       ConsumeReadFails, ProbeUnclaimed, RenameMissing, Claim, WriteBodyFails, Unclaim, Step,
       history
  <2>2. \E to \in ReaderLabels :
          /\ pc' = [pc EXCEPT ![p] = to]
          /\ to \in {"claim", "body", "unclaim", "renameLast"} =>
               MaxUses > 1 \/ pc[p] \in {"claim", "body", "unclaim", "renameLast"}
    BY <1>5 DEF ScanUnusable, ScanFull, RemoveUnusable, RenameFull, Sweep, ConsumeRead,
       ConsumeReadFails, ProbeUnclaimed, RenameMissing, Claim, WriteBodyFails, Unclaim, Step,
       ReaderLabels
  <2>3. PICK to \in ReaderLabels :
          /\ pc' = [pc EXCEPT ![p] = to]
          /\ to \in {"claim", "body", "unclaim", "renameLast"} =>
               MaxUses > 1 \/ pc[p] \in {"claim", "body", "unclaim", "renameLast"}
    BY <2>2
  <2>4. to \in Labels /\ to # "idle"
    BY DEF ReaderLabels, Labels
  <2> QED
    BY <2>1, <2>3, <2>4, SpentFrame
<1>6. CASE \/ MatchFails(p) \/ ProbeClaimed(p) \/ RecheckConsumed(p) \/ RecheckGone(p)
           \/ ClaimExhausted(p) \/ RenameConsumes(p) \/ RenameRefused(p) \/ RenameLast(p)
  BY <1>6, SpentExit DEF MatchFails, ProbeClaimed, RecheckConsumed, RecheckGone,
     ClaimExhausted, RenameConsumes, RenameRefused, RenameLast, Allow, Deny
<1>7. CASE WriteBody(p) \/ WriteLastBody(p)
  <2>1. /\ pc[p] = "body" /\ Grant(p) /\ now' = now
        /\ \/ Exit(p)
           \/ pc' = [pc EXCEPT ![p] = "renameLast"] /\ UNCHANGED <<path, found, spentAtStart>>
    BY <1>7 DEF WriteBody, WriteLastBody, Allow
  <2>2. /\ \A q \in Paths, k \in Slots : grants[q][k] > 0 => grants'[q][k] > 0
        /\ MaxUses # 1
    BY <2>1, GrantKeeps
  <2>3. \A r \in Procs :
          \/ /\ found'[r] = found[r] /\ path'[r] = path[r]
             /\ spentAtStart'[r] = spentAtStart[r]
             /\ pc'[r] = pc[r] \/ (pc[r] \in ReaderLabels /\ pc'[r] = "renameLast")
          \/ found'[r] = NoFile /\ spentAtStart'[r] = {}
    BY <1>0, <2>1 DEF Exit, ReaderLabels
  <2>4. SpentInv'
    <3>1. \A r \in Procs : spentAtStart[r] \subseteq Paths
      BY <1>0
    <3> QED
      BY <2>1, <2>2, <2>3, <3>1 DEF LastInv, SpentInv, ReaderLabels
  <2> QED
    BY <2>2, <2>4 DEF SingleInv
<1> QED
  BY <1>1, <1>2, <1>3, <1>4, <1>5, <1>6, <1>7 DEF ReadStep

LEMMA MintRetireSpent ==
    ASSUME LastInv, NEW p \in Procs, MintStep(p) \/ RetireStep(p)
    PROVE  SpentInv' /\ SingleInv'
<1> USE DEF Goto
<1>0. /\ pc \in [Procs -> Labels] /\ spentAtStart \in [Procs -> SUBSET Paths]
      /\ path \in [Procs -> Paths] /\ found \in [Procs -> Tokens \cup {NoFile}]
  BY DEF LastInv, SlotInv, TypeInv, LocalsTyped
<1>1. ASSUME \/ \E s \in Sessions, c \in Commands : MintStart(p, s, c)
             \/ MintGlob(p)
             \/ \E r \in running : RetireStart(p, r)
      PROVE  SpentInv' /\ SingleInv'
  <2>1. /\ UNCHANGED <<spentAtStart, found, path, now, grants>>
        /\ pc[p] \in {"idle", "glob"}
        /\ \E to \in {"glob", "retireUnused", "retireScan"} : pc' = [pc EXCEPT ![p] = to]
    BY <1>1 DEF MintStart, MintGlob, RetireStart, Invoke, history
  <2> QED
    BY <2>1, SpentFrame DEF Labels, ReaderLabels
<1>2. ASSUME \/ \E q \in todo[p] : MintRetire(p, q)
             \/ \E q \in todo[p] : RetireSkip(p, q)
      PROVE  SpentInv' /\ SingleInv'
  BY <1>2, SpentSame DEF MintRetire, RetireSkip, history
<1>3. ASSUME \/ \E q \in {BasePath(stamp[p]), AltPath(stamp[p])} : MintCreate(p, q)
             \/ \E q \in todo[p] : RetireMatch(p, q)
      PROVE  SpentInv' /\ SingleInv'
  <2>1. /\ UNCHANGED <<spentAtStart, now, grants>>
        /\ pc[p] \in {"retireUnused", "retry", "retireScan"}
        /\ \E to \in {"write", "retireRename"} : pc' = [pc EXCEPT ![p] = to]
        /\ \A r \in Procs \ {p} : found'[r] = found[r] /\ path'[r] = path[r]
    BY <1>0, <1>3 DEF MintCreate, Tries, RetireMatch, history
  <2>2. /\ spentAtStart[p] = {}
        /\ \A r \in Procs : IF r = p THEN pc'[r] \in {"write", "retireRename"} ELSE pc'[r] = pc[r]
    BY <1>0, <2>1 DEF LastInv, SpentInv, ReaderLabels
  <2>3. SpentInv'
    BY <2>1, <2>2 DEF LastInv, SpentInv
  <2>4. SingleInv'
    BY <2>1, <2>2 DEF LastInv, SingleInv
  <2> QED
    BY <2>3, <2>4
<1>4. CASE MintBlocked(p) \/ MintWrite(p) \/ MintWriteFails(p) \/ RetireRename(p) \/ RetireNone(p)
  BY <1>4, SpentExit DEF MintBlocked, MintWrite, MintWriteFails, RetireRename, RetireNone, Deny
<1>5. CASE MintRetry(p)
  <2>1. /\ UNCHANGED <<spentAtStart, found, path, now, grants>>
        /\ pc[p] = "retireUnused" /\ pc' = [pc EXCEPT ![p] = "retry"]
    BY <1>5 DEF MintRetry, Step, history
  <2> QED
    BY <2>1, SpentFrame DEF Labels, ReaderLabels
<1> QED
  BY <1>1, <1>2, <1>3, <1>4, <1>5 DEF MintStep, RetireStep

LEMMA NextLast == LastInv /\ [Next]_vars => LastInv'
<1> SUFFICES ASSUME LastInv, [Next]_vars PROVE SpentInv' /\ SingleInv'
  BY NextSlot DEF LastInv
<1>1. ASSUME NEW p \in Procs, ReadStep(p) \/ MintStep(p) \/ RetireStep(p)
      PROVE  SpentInv' /\ SingleInv'
  BY <1>1, ReadSpent, MintRetireSpent
<1>2. CASE (\E r \in running : CommandFails(r)) \/ UNCHANGED vars
  BY <1>2, SpentSame DEF CommandFails, vars, locals, history
<1>3. ASSUME NEW p \in Procs, Crash(p)
      PROVE  SpentInv' /\ SingleInv'
  BY <1>3, SpentExit DEF Crash, Deny
<1>4. CASE Tick
  <2>1. /\ UNCHANGED <<spentAtStart, found, path, grants, pc>>
        /\ now' = now + 1 /\ now \in Int
    BY <1>4 DEF Tick, locals, history, LastInv, SlotInv, TypeInv, SharedTyped
  <2>2. \A p \in Procs : \A q \in spentAtStart[p] : q.ts \in Int
    BY DEF LastInv, SlotInv, TypeInv, LocalsTyped, Paths
  <2>3. \A p \in Procs : \A q \in spentAtStart[p] : now' <= q.ts + TTL => now <= q.ts + TTL
    BY <2>1, <2>2, BoundsAssumption
  <2>4. SpentInv'
    BY <2>1, <2>3 DEF LastInv, SpentInv
  <2> QED
    BY <2>1, <2>4 DEF LastInv, SingleInv
<1> QED
  BY <1>1, <1>2, <1>3, <1>4 DEF Next, HookStep, Procs

\* An invocation that starts after the last use slot of a token was granted does
\* not select it before it expires, even if the last claimer was killed before it
\* renamed the file (find_valid_token's all-claimed check).
THEOREM SpentNotSelected == Spec => []NoUseAfterLast
<1>1. Spec => []LastInv
  BY InitLast, NextLast, PTL DEF Spec
<1>2. LastInv => NoUseAfterLast
  BY DEF LastInv, SpentInv, NoUseAfterLast, Procs
<1> QED
  BY <1>1, <1>2, PTL

=============================================================================
