------------------------------ MODULE PinGates ------------------------------
(***************************************************************************)
(* The pinned section of CLAUDE.md, the two gates on the lead's Edit and   *)
(* Write calls (hooks/pin_caps_gate.py, hooks/pin_staleness_gate.py), the  *)
(* marker of a session that has stale pins (session_init.py,               *)
(* track_files.py), and the archive of a pin before it is removed          *)
(* (scripts/archive_pin.py as /PACT:prune-memory uses it).  A gate judges  *)
(* the document that a call would produce; the call runs later, on the     *)
(* document as it is then.                                                 *)
(***************************************************************************)
EXTENDS Integers, FiniteSets, SequencesExt

CONSTANTS
  Sessions,       \* lead sessions on one project
  Names,          \* headings of pins
  FirstSections,  \* what the section holds when the first session starts
  AskedKinds,     \* kinds of pins the lead writes
  FoundKinds,     \* kinds of pins that users and teammates write
  CountCap, SizeCap, StaleThreshold,  \* constants of pin_caps.py
  MaxPins,        \* bound: length of the section
  MaxCalls,       \* bound: tool calls of the leads and session starts
  MaxUngated,     \* bound: edits that no gate sees
  MaxFaults       \* bound: reads and saves that fail

VARIABLES
  doc,      \* the pins, in the order of the section
  memory,   \* the blocks archived in long-term memory
  marker,   \* sessions with the stale-pins marker in their directory
  pc, call, pending, prune, \* per session: its step, call, gates to come, prune
  calls, ungated, faults,   \* counters for the bounds
  moved,    \* history: sessions whose document changed after a gate read it
  unread    \* history: sessions with a gate that could not read

sessionVars == <<pc, call, pending, prune>>
counters == <<calls, ungated, faults>>
vars == <<doc, memory, marker, sessionVars, counters, moved, unread>>

\* "allowed" is oversized with a valid override, "bad" with an invalid one.
Kinds == {"small", "undated", "allowed", "bad", "big", "huge"}
Pin == [name : Names, kind : Kinds, stale : BOOLEAN]
Gates == {"caps", "stale"}
Steps == {"off", "starting", "idle", "gates", "run", "post",
          "archive", "save", "count"}

\* An Edit replaces the first occurrence of old by new, with replace_all each of
\* them ("edit_all"); <<>> for old is text behind the last pin, not the empty string,
\* which the tool refuses.  A Write puts content in place of everything.
NoCall == [tool |-> "none", old |-> <<>>, new |-> <<>>]
NoPrune == [on |-> FALSE, index |-> 0, chosen |-> CHOOSE n \in Names : TRUE,
            block |-> <<>>]

ASSUME NamesAssumption == Names # {}
ASSUME KindsAssumption == AskedKinds \cup FoundKinds \subseteq Kinds
ASSUME CapsAssumption == CountCap \in Nat /\ SizeCap \in Nat
ASSUME BoundsAssumption ==
  MaxPins \in Nat /\ MaxCalls \in Nat /\ MaxUngated \in Nat /\ MaxFaults \in Nat
ASSUME SectionsAssumption ==
  \A pins \in FirstSections : pins \in Seq(Pin) /\ Len(pins) <= MaxPins

SessionOK(s) ==
  /\ pc[s] \in Steps
  /\ pending[s] \subseteq Gates
  /\ pc[s] \in {"gates", "run", "post"} <=> call[s] # NoCall
  /\ pc[s] # "gates" => pending[s] = {}
  /\ pc[s] \in {"archive", "save", "count"} => prune[s].on
  /\ pc[s] \in {"off", "starting", "idle"} => prune[s] = NoPrune
  /\ Len(prune[s].block) <= 1

TypeOK ==
  /\ doc \in Seq(Pin) /\ Len(doc) <= MaxPins
  /\ memory \subseteq Pin
  /\ marker \subseteq Sessions
  /\ \A s \in Sessions : SessionOK(s)
  /\ calls \in 0 .. MaxCalls /\ ungated \in 0 .. MaxUngated
  /\ faults \in 0 .. MaxFaults
  /\ moved \cup unread \subseteq Sessions

Init ==
  /\ doc \in FirstSections
  /\ memory = {} /\ marker = {}
  /\ pc = [s \in Sessions |-> "off"]
  /\ call = [s \in Sessions |-> NoCall]
  /\ pending = [s \in Sessions |-> {}]
  /\ prune = [s \in Sessions |-> NoPrune]
  /\ calls = 0 /\ ungated = 0 /\ faults = 0
  /\ moved = {} /\ unread = {}

-----------------------------------------------------------------------------
(* What the gates compute. *)

Chars(p) == CASE p.kind \in {"small", "undated"} -> SizeCap
              [] p.kind = "huge" -> SizeCap + 2
              [] OTHER -> SizeCap + 1

Oversized(pins) ==
  {i \in DOMAIN pins : Chars(pins[i]) > SizeCap /\ pins[i].kind # "allowed"}

Occurrences(pins, p) == Cardinality({i \in DOMAIN pins : pins[i] = p})

\* By how much a section is over a cap; 0 when it is within.
Amount(pins, axis) ==
  IF axis = "count"
  THEN IF Len(pins) > CountCap THEN Len(pins) ELSE 0
  ELSE IF Oversized(pins) = {} THEN 0
       ELSE Max({Chars(pins[i]) : i \in Oversized(pins)})

\* evaluate_full_state: the count is looked at first.
Violation(pins) ==
  CASE Amount(pins, "count") > 0 -> "count"
    [] Amount(pins, "count") = 0 /\ Amount(pins, "size") > 0 -> "size"
    [] OTHER -> "none"

\* What simulate_post_edit and the tools make of the section.
Apply(pins, c) ==
  CASE c.tool = "write" -> c.new
    [] c.tool = "edit" /\ c.old = <<>> -> pins \o c.new
    [] c.tool = "edit" /\ c.old # <<>> /\ Contains(pins, c.old[1]) ->
         LET i == SelectInSeq(pins, LAMBDA p : p = c.old[1])
         IN SubSeq(pins, 1, i - 1) \o c.new \o SubSeq(pins, i + 1, Len(pins))
    [] c.tool = "edit_all" /\ c.old # <<>> /\ c.new # <<>> ->
         [i \in DOMAIN pins |-> IF pins[i] = c.old[1] THEN c.new[1] ELSE pins[i]]
    [] OTHER -> pins

\* A new heading without a date comment above it.
Smuggled(pre, post) ==
  \E i \in DOMAIN post : /\ post[i].kind = "undated"
                         /\ \A j \in DOMAIN pre : pre[j].name # post[i].name

\* Only the first override comment of the new text is validated.
InvalidOverride(c) ==
  LET overrides == SelectSeq(c.new, LAMBDA p : p.kind \in {"allowed", "bad"})
  IN overrides # <<>> /\ Head(overrides).kind = "bad"

OtherAxis(axis) == IF axis = "count" THEN "size" ELSE "count"

OtherAxisWorse(pre, post, axis) ==
  /\ Amount(post, axis) > 0
  /\ Amount(pre, axis) = 0 \/ Amount(post, axis) > Amount(pre, axis)

\* Mutant: a section over one cap may trade it for the other.
DeniesOneAxis(pre, post) ==
  LET kind == Violation(post) IN
  \/ Smuggled(pre, post)
  \/ /\ kind # "none"
     /\ \/ Violation(pre) = "none"
        \/ Amount(post, kind) > Amount(pre, kind) /\ kind = Violation(pre)

\* Mutant: a violation of another kind than before is always new.
DeniesOtherKind(pre, post) ==
  LET kind == Violation(post) IN
  \/ Smuggled(pre, post)
  \/ /\ kind # "none"
     /\ \/ Violation(pre) # kind
        \/ Amount(post, kind) > Amount(pre, kind)
        \/ OtherAxisWorse(pre, post, OtherAxis(kind))

\* compute_deny_reason.
Denies(pre, post) ==
  LET kind == Violation(post) IN
  \/ Smuggled(pre, post)
  \/ /\ kind # "none"
     /\ \/ Violation(pre) = "none"
        \/ Violation(pre) # kind /\ Amount(pre, kind) = 0
        \/ Amount(post, kind) > Amount(pre, kind)
        \/ OtherAxisWorse(pre, post, OtherAxis(kind))

\* _evaluate_write_as_fresh_start: without a baseline a Write must be clean.
FreshStartDenies(c) == c.tool = "write" /\ Violation(c.new) # "none"

Dated(pins) == Cardinality({i \in DOMAIN pins : pins[i].kind # "undated"})

AddShaped(pre, c) == Dated(Apply(pre, c)) > Dated(pre)

StaleBlock(pins) ==
  Cardinality({i \in DOMAIN pins : pins[i].stale}) >= StaleThreshold

-----------------------------------------------------------------------------
Goto(s, step) == pc' = [pc EXCEPT ![s] = step]

\* The document changes under the sessions whose gates have read it.
Change(new) ==
  /\ doc' = new
  /\ moved' = IF new = doc THEN moved
              ELSE moved \cup {s \in Sessions :
                                 \/ pc[s] = "run"
                                 \/ (pc[s] = "gates" /\ pending[s] # Gates)}

\* Mutant: a prune that stops halfway is not forgotten.
EndCallPruning(s) ==
  /\ call' = [call EXCEPT ![s] = NoCall]
  /\ pending' = [pending EXCEPT ![s] = {}]
  /\ moved' = moved \ {s}
  /\ unread' = unread \ {s}
  /\ Goto(s, "idle")
  /\ UNCHANGED prune

EndCall(s) ==
  /\ call' = [call EXCEPT ![s] = NoCall]
  /\ pending' = [pending EXCEPT ![s] = {}]
  /\ prune' = [prune EXCEPT ![s] = NoPrune]
  /\ moved' = moved \ {s}
  /\ unread' = unread \ {s}
  /\ Goto(s, "idle")

Fault == faults < MaxFaults /\ faults' = faults + 1

(* A session starts (or resumes, or is compacted): the pins that have grown
   old are marked, then the marker is created or removed. *)
StartSession(s) ==
  /\ pc[s] \in {"off", "idle"}
  /\ calls < MaxCalls /\ calls' = calls + 1
  /\ \/ Change(doc)
     \/ Change([i \in DOMAIN doc |-> [doc[i] EXCEPT !.stale = TRUE]])
  /\ Goto(s, "starting")
  /\ UNCHANGED <<memory, marker, call, pending, prune, ungated, faults,
                 unread>>

SetMarker(s) ==
  /\ pc[s] = "starting"
  /\ marker' = IF StaleBlock(doc) THEN marker \cup {s} ELSE marker \ {s}
  /\ Goto(s, "idle")
  /\ UNCHANGED <<doc, memory, call, pending, prune, counters, moved,
                 unread>>

(* The lead calls Edit or Write on CLAUDE.md. *)
Submit(s, c) ==
  /\ call' = [call EXCEPT ![s] = c]
  /\ pending' = [pending EXCEPT ![s] = Gates]
  /\ Goto(s, "gates")

NewPins == [name : Names, kind : AskedKinds, stale : {FALSE}]

Edits ==
  {[tool |-> "edit", old |-> <<>>, new |-> <<p>>] : p \in NewPins} \cup
  {[tool |-> t, old |-> <<doc[i]>>, new |-> <<p>>] :
     t \in {"edit", "edit_all"}, i \in DOMAIN doc, p \in NewPins}

AskTool(s) ==
  /\ pc[s] = "idle"
  /\ calls < MaxCalls /\ calls' = calls + 1
  /\ \E e \in Edits :
       \E c \in {e, [tool |-> "write", old |-> <<>>, new |-> Apply(doc, e)]} :
         Submit(s, c)
  /\ UNCHANGED <<doc, memory, marker, prune, ungated, faults, moved, unread>>

Passes(s, gate, readable) ==
  /\ pending' = [pending EXCEPT ![s] = @ \ {gate}]
  /\ IF pending[s] = {gate} THEN Goto(s, "run") ELSE UNCHANGED pc
  /\ unread' = IF readable THEN unread ELSE unread \cup {s}
  /\ UNCHANGED <<call, prune, moved>>

CapsDeny(s) == InvalidOverride(call[s]) \/ Denies(doc, Apply(doc, call[s]))

\* pin_caps_gate: reads under the lock of the file, and times out like any
\* other; then an Edit passes.
GateCaps(s) ==
  /\ pc[s] = "gates" /\ "caps" \in pending[s]
  /\ \/ /\ IF CapsDeny(s) THEN EndCall(s) ELSE Passes(s, "caps", TRUE)
        /\ UNCHANGED faults
     \/ /\ IF InvalidOverride(call[s]) \/ FreshStartDenies(call[s])
           THEN EndCall(s)
           ELSE Passes(s, "caps", FALSE)
        /\ Fault
  /\ UNCHANGED <<doc, memory, marker, calls, ungated>>

StaleDenies(s) == s \in marker /\ AddShaped(doc, call[s])

\* pin_staleness_gate: reads without the lock, and only if the marker is there.
GateStale(s) ==
  /\ pc[s] = "gates" /\ "stale" \in pending[s]
  /\ \/ /\ IF StaleDenies(s) THEN EndCall(s) ELSE Passes(s, "stale", TRUE)
        /\ UNCHANGED faults
     \/ /\ s \in marker /\ Passes(s, "stale", FALSE)
        /\ Fault
  /\ UNCHANGED <<doc, memory, marker, calls, ungated>>

\* The old text of an Edit is there once; with replace_all, at least once.
Applicable(c) ==
  \/ c.tool = "write" \/ c.old = <<>>
  \/ c.tool = "edit" /\ Occurrences(doc, c.old[1]) = 1
  \/ c.tool = "edit_all" /\ Occurrences(doc, c.old[1]) # 0

\* The tool runs.
RunTool(s) ==
  /\ pc[s] = "run"
  /\ LET c == call[s] IN
     IF ~Applicable(c) \/ Len(Apply(doc, c)) > MaxPins
     THEN EndCall(s) /\ UNCHANGED doc
     ELSE /\ Change(Apply(doc, c))
          /\ Goto(s, "post")
          /\ UNCHANGED <<call, pending, prune, unread>>
  /\ UNCHANGED <<memory, marker, counters>>

\* Mutant: the marker goes when a session starts, and only then.
ClearNever(s) == UNCHANGED <<marker, faults>>

\* clear_pin_staleness_marker_if_resolved: a file that cannot be read clears
\* nothing.
Clear(s) ==
  \/ marker' = (IF StaleBlock(doc) THEN marker ELSE marker \ {s}) /\ UNCHANGED faults
  \/ s \in marker /\ Fault /\ UNCHANGED marker

PostEdit(s) ==
  /\ pc[s] = "post"
  /\ Clear(s)
  /\ EndCall(s)
  /\ UNCHANGED <<doc, memory, calls, ungated>>

(* /PACT:prune-memory: list, choose, archive, check, remove. *)
ChoosePin(s) ==
  /\ pc[s] = "idle"
  /\ \E i \in DOMAIN doc :
       prune' = [prune EXCEPT ![s] = [on |-> TRUE, index |-> i,
                                      chosen |-> doc[i].name, block |-> <<>>]]
  /\ Goto(s, "archive")
  /\ UNCHANGED <<doc, memory, marker, call, pending, counters, moved,
                 unread>>

\* archive_pin resolves the index against the file as it is now.
ReadBlock(s) ==
  /\ pc[s] = "archive"
  /\ IF prune[s].index \in DOMAIN doc
     THEN /\ prune' = [prune EXCEPT ![s].block = <<doc[prune[s].index]>>]
          /\ Goto(s, "save")
          /\ UNCHANGED <<call, pending, moved, unread>>
     ELSE EndCall(s)
  /\ UNCHANGED <<doc, memory, marker, counters>>

\* Mutant: the block is removed although it was not saved.
SaveUnchecked(s) ==
  /\ pc[s] = "save"
  /\ \/ memory' = memory \cup {prune[s].block[1]} /\ UNCHANGED faults
     \/ Fault /\ UNCHANGED memory
  /\ Goto(s, "count")
  /\ UNCHANGED <<doc, marker, call, pending, prune, calls, ungated, moved, unread>>

\* The save, and the re-fetch that compares the block with the record.
SaveBlock(s) ==
  /\ pc[s] = "save"
  /\ \/ /\ memory' = memory \cup {prune[s].block[1]}
        /\ Goto(s, "count")
        /\ UNCHANGED <<call, pending, prune, moved, unread, faults>>
     \/ /\ Fault
        /\ EndCall(s)
        /\ UNCHANGED memory
  /\ UNCHANGED <<doc, marker, calls, ungated>>

\* ARCHIVED, with the heading the curator chose.
Removable(s) ==
  /\ Occurrences(doc, prune[s].block[1]) = 1
  /\ prune[s].block[1].name = prune[s].chosen

\* The verdict; the hook that runs after it looks at the pins; and the removal.
CountBlock(s) ==
  /\ pc[s] = "count"
  /\ Clear(s)
  /\ IF Removable(s)
     THEN /\ Submit(s, [tool |-> "edit", old |-> prune[s].block, new |-> <<>>])
          /\ UNCHANGED <<prune, moved, unread>>
     ELSE EndCall(s)
  /\ UNCHANGED <<doc, memory, calls, ungated>>

(* Writers that no gate judges: users, and teammates. *)
Ungated ==
  /\ ungated < MaxUngated /\ ungated' = ungated + 1
  /\ \/ \E n \in Names, k \in FoundKinds :
          /\ Len(doc) < MaxPins
          /\ Change(Append(doc, [name |-> n, kind |-> k, stale |-> FALSE]))
     \/ \E i \in DOMAIN doc : Change(RemoveAt(doc, i))
     \/ Change(Reverse(doc))
  /\ UNCHANGED <<memory, marker, sessionVars, calls, faults, unread>>

Work(s) == SetMarker(s) \/ GateCaps(s) \/ GateStale(s) \/ RunTool(s)
           \/ PostEdit(s) \/ ReadBlock(s) \/ SaveBlock(s) \/ CountBlock(s)

Next == Ungated \/ \E s \in Sessions :
          StartSession(s) \/ AskTool(s) \/ ChoosePin(s) \/ Work(s)

Spec == Init /\ [][Next]_vars

\* Hooks and scripts run to their end, and a lead that is denied prunes, as the
\* denial tells it to.
FairSpec ==
  Spec /\ \A s \in Sessions : WF_vars(Work(s)) /\ WF_vars(s \in marker /\ ChoosePin(s))

-----------------------------------------------------------------------------
Worse(pre, post) ==
  \E axis \in {"count", "size"} : Amount(post, axis) > Amount(pre, axis)

Runs(s) == pc[s] = "run" /\ pc'[s] = "post"

\* A call that ran on the document its gate had judged makes the section exceed
\* neither cap by more than before: not the number of pins, and not the largest
\* pin, even when it mends the other.
NeverWorse ==
  [][\A s \in Sessions :
       (Runs(s) /\ s \notin moved \cup unread) => ~Worse(doc, doc')]_vars

\* The caps gate refuses nothing else: an edit that makes neither cap worse,
\* such as one that mends a section far over both, passes.
DenialsJustified ==
  [][\A s \in Sessions :
       (pc[s] = "gates" /\ pc'[s] = "idle" /\ faults' = faults
          /\ ~StaleDenies(s)) =>
          \/ Worse(doc, Apply(doc, call[s]))
          \/ Smuggled(doc, Apply(doc, call[s])) \/ InvalidOverride(call[s])]_vars

\* A prune removes one pin, which is in memory, word for word, and it is the one the
\* curator chose, however the section changed between the steps.
PrunedSafely ==
  [][\A s \in Sessions :
       (Runs(s) /\ prune[s].on) =>
          \E i \in DOMAIN doc :
             /\ doc' = RemoveAt(doc, i)
             /\ doc[i] \in memory /\ doc[i].name = prune[s].chosen]_vars

\* The stale gate does not trap a session: the marker goes once the lead prunes,
\* unless others have removed all pins or left two that are alike.
BlockEnds ==
  \A s \in Sessions :
    (s \in marker) ~> \/ s \notin marker
                      \/ ungated > 0 /\ doc = <<>>
                      \/ \E i, j \in DOMAIN doc : i # j /\ doc[i] = doc[j]

=============================================================================
