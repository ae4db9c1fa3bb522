--------------------------- MODULE PinGatesProofs ---------------------------
(***************************************************************************)
(* What the pin gates deny and let through, and what a prune removes, for  *)
(* any sessions, pins and caps.                                            *)
(***************************************************************************)
EXTENDS PinGates, FiniteSetTheorems, WellFoundedInduction, TLAPS

Calls == [tool : {"none", "edit", "edit_all", "write"}, old : Seq(Pin), new : Seq(Pin)]
Prunes == [on : BOOLEAN, index : Nat, chosen : Names, block : Seq(Pin)]

Typed ==
  /\ pc \in [Sessions -> Steps]
  /\ call \in [Sessions -> Calls]
  /\ pending \in [Sessions -> SUBSET Gates]
  /\ prune \in [Sessions -> Prunes]

\* What a prune has in hand at each of its steps.  At the removal the pin to go is
\* in memory, and it is the one the curator chose.
PruneOK(s) ==
  /\ pc[s] = "count" => prune[s].block[1] \in memory
  /\ (prune[s].on /\ pc[s] \in {"gates", "run", "post"}) =>
       /\ call[s] = [tool |-> "edit", old |-> prune[s].block, new |-> <<>>]
       /\ Len(prune[s].block) = 1
       /\ prune[s].block[1] \in memory
       /\ prune[s].block[1].name = prune[s].chosen

PruneInv == \A s \in Sessions : PruneOK(s)

\* A call that the caps gate let through is still harmless to the section, unless
\* the gate could not read it or it changed since.
CapsOK(s) ==
  (pc[s] \in {"gates", "run"} /\ "caps" \notin pending[s] /\ s \notin moved \cup unread)
     => ~Denies(doc, Apply(doc, call[s]))

CapsInv == \A s \in Sessions : CapsOK(s)

-----------------------------------------------------------------------------
(* Sections. *)

LEMMA Least ==
    ASSUME NEW S \in SUBSET Nat, S # {}
    PROVE  \E m \in S : \A n \in S : m <= n
<1> DEFINE T == {0..k : k \in S}
           F == FiniteSubsetsOf(Nat)
           R == StrictSubsetOrdering(Nat)
<1>1. T \subseteq F /\ T # {}
  <2>1. ASSUME NEW k \in S PROVE 0..k \in F
    BY FS_Interval DEF FiniteSubsetsOf
  <2> QED
    BY <2>1
<1>2. \E x \in T : \A y \in T : ~(<<y, x>> \in R)
  <2>1. IsWellFoundedOn(R, F)
    BY FS_StrictSubsetOrderingWellFounded
  <2> HIDE DEF T, F, R
  <2> QED
    BY <1>1, <2>1, WFMin
<1>3. PICK m \in S : \A n \in S : ~(<<0..n, 0..m>> \in R)
  BY <1>2
<1>4. ASSUME NEW n \in S, n < m PROVE FALSE
  <2>1. /\ 0..n \subseteq 0..m /\ m \in 0..m /\ m \notin 0..n
        /\ 0..n \subseteq Nat /\ 0..m \subseteq Nat
    BY <1>4
  <2>2. 0..n # 0..m
    BY <2>1
  <2>3. <<0..n, 0..m>> \in R
    BY <2>1, <2>2 DEF StrictSubsetOrdering
  <2> QED
    BY <1>3, <2>3
<1> QED
  BY <1>4

\* The first of the pins that are like e.
First(s, e) == Min({i \in 1 .. Len(s) : s[i] = e})

LEMMA FirstLikeIt ==
  ASSUME NEW S, NEW s \in Seq(S), NEW e, Contains(s, e)
  PROVE  /\ First(s, e) \in 1 .. Len(s)
         /\ s[First(s, e)] = e
<1> DEFINE I == {i \in 1 .. Len(s) : s[i] = e}
<1>1. I # {}
  BY DEF Contains
<1>2. \E i \in I : \A j \in I : i =< j
  <2>1. I \in SUBSET Nat
    OBVIOUS
  <2> HIDE DEF I
  <2> QED
    BY <1>1, <2>1, Least
<1>3. Min(I) \in I
  BY <1>2 DEF Min
<1> QED
  BY <1>3 DEF First

LEMMA SelectsFirst ==
  ASSUME NEW S, NEW s \in Seq(S), NEW e, Contains(s, e)
  PROVE  SelectInSeq(s, LAMBDA p : p = e) = First(s, e)
<1> DEFINE I == {i \in 1 .. Len(s) : s[i] = e}
<1>1. I # {}
  BY DEF Contains
<1> QED
  BY <1>1 DEF SelectInSeq, First

\* An edit of a pin that is there replaces the first one that is like it.
LEMMA ApplyEdit ==
  ASSUME NEW pins \in Seq(Pin), NEW c \in Calls,
         c.tool = "edit", c.old # <<>>, Contains(pins, c.old[1])
  PROVE  Apply(pins, c) = SubSeq(pins, 1, First(pins, c.old[1]) - 1) \o c.new
                            \o SubSeq(pins, First(pins, c.old[1]) + 1, Len(pins))
<1>1. SelectInSeq(pins, LAMBDA p : p = c.old[1]) = First(pins, c.old[1])
  BY SelectsFirst
<1> QED
  BY <1>1 DEF Apply

LEMMA ApplyType ==
  ASSUME NEW pins \in Seq(Pin), NEW c \in Calls
  PROVE  Apply(pins, c) \in Seq(Pin)
<1>1. c.old \in Seq(Pin) /\ c.new \in Seq(Pin)
  BY DEF Calls
<1>2. CASE c.tool = "edit" /\ c.old # <<>> /\ Contains(pins, c.old[1])
  <2> DEFINE i == First(pins, c.old[1])
  <2>1. i \in 1 .. Len(pins)
    BY <1>2, FirstLikeIt
  <2>2. Apply(pins, c) = SubSeq(pins, 1, i - 1) \o c.new \o SubSeq(pins, i + 1, Len(pins))
    BY <1>2, ApplyEdit
  <2> HIDE DEF i
  <2>3. /\ SubSeq(pins, 1, i - 1) \in Seq(Pin)
        /\ SubSeq(pins, i + 1, Len(pins)) \in Seq(Pin)
    BY <2>1
  <2> QED
    BY <1>1, <2>2, <2>3
<1>3. CASE c.tool = "edit" /\ c.old = <<>>
  BY <1>1, <1>3 DEF Apply
<1>4. CASE c.tool = "write"
  BY <1>1, <1>4 DEF Apply
<1>5. CASE c.tool = "edit_all" /\ c.old # <<>> /\ c.new # <<>>
  <2>1. Apply(pins, c) = [i \in 1 .. Len(pins) |->
                            IF pins[i] = c.old[1] THEN c.new[1] ELSE pins[i]]
    BY <1>5 DEF Apply
  <2>2. c.new[1] \in Pin /\ \A i \in 1 .. Len(pins) : pins[i] \in Pin
    BY <1>1, <1>5
  <2> QED
    BY <2>1, <2>2
<1>6. CASE /\ c.tool # "write"
           /\ ~(c.tool = "edit_all" /\ c.old # <<>> /\ c.new # <<>>)
           /\ ~(c.tool = "edit" /\ c.old = <<>>)
           /\ ~(c.tool = "edit" /\ c.old # <<>> /\ Contains(pins, c.old[1]))
  BY <1>6 DEF Apply
<1> QED
  BY <1>2, <1>3, <1>4, <1>5, <1>6

\* Removing a pin that occurs once removes it, and nothing else.
LEMMA RemovesIt ==
  ASSUME NEW pins \in Seq(Pin), NEW p \in Pin, Occurrences(pins, p) = 1
  PROVE  \E i \in DOMAIN pins :
            /\ pins[i] = p
            /\ Apply(pins, [tool |-> "edit", old |-> <<p>>, new |-> <<>>])
                 = RemoveAt(pins, i)
<1> DEFINE c == [tool |-> "edit", old |-> <<p>>, new |-> <<>>]
           i == First(pins, p)
<1>1. c.tool = "edit" /\ c.old = <<p>> /\ c.new = <<>> /\ c.old[1] = p /\ c.old # <<>>
  OBVIOUS
<1>2. {k \in DOMAIN pins : pins[k] = p} # {}
  <2> DEFINE T == {k \in DOMAIN pins : pins[k] = p}
  <2>1. Cardinality(T) = 1
    BY DEF Occurrences
  <2>2. Cardinality({}) = 0
    BY FS_EmptySet
  <2> HIDE DEF T
  <2>3. ASSUME T = {} PROVE Cardinality(T) = 0
    BY <2>2, <2>3, Zenon
  <2>4. T # {}
    BY <2>1, <2>3
  <2> QED
    BY <2>4 DEF T
<1>3. Contains(pins, p)
  BY <1>2 DEF Contains
<1>4. i \in 1 .. Len(pins) /\ pins[i] = p
  BY <1>1, <1>3, FirstLikeIt
<1>5. Apply(pins, c) = SubSeq(pins, 1, i - 1) \o c.new \o SubSeq(pins, i + 1, Len(pins))
  <2>1. c \in Calls
    BY DEF Calls
  <2> HIDE DEF c
  <2> QED
    BY <1>1, <1>3, <2>1, ApplyEdit
<1> HIDE DEF i
<1>6. SubSeq(pins, 1, i - 1) \in Seq(Pin)
  BY <1>4
<1>7. SubSeq(pins, 1, i - 1) \o <<>> = SubSeq(pins, 1, i - 1)
  BY <1>6
<1>8. Apply(pins, c) = RemoveAt(pins, i)
  BY <1>1, <1>5, <1>7 DEF RemoveAt
<1> QED
  BY <1>4, <1>8

LEMMA AmountType ==
  ASSUME NEW pins \in Seq(Pin), NEW axis
  PROVE  Amount(pins, axis) \in Nat
<1>1. Len(pins) \in Nat
  OBVIOUS
<1>2. CASE axis = "count"
  BY <1>1, <1>2 DEF Amount
<1>3. CASE axis # "count" /\ Oversized(pins) = {}
  BY <1>3 DEF Amount
<1>4. CASE axis # "count" /\ Oversized(pins) # {}
  <2> DEFINE T == {Chars(pins[i]) : i \in Oversized(pins)}
  <2>1. T # {} /\ Amount(pins, axis) = Max(T)
    BY <1>4 DEF Amount
  <2>2. T \subseteq {SizeCap, SizeCap + 1, SizeCap + 2}
    <3>1. ASSUME NEW p PROVE Chars(p) \in {SizeCap, SizeCap + 1, SizeCap + 2}
      BY DEF Chars
    <3> QED
      BY <3>1
  <2> HIDE DEF T
  <2>3. \E x \in T : \A y \in T : x >= y
    <3>1. PICK n \in Nat : n = SizeCap
      BY CapsAssumption
    <3>2. \A y \in T : y = n \/ y = n + 1 \/ y = n + 2
      BY <2>2, <3>1
    <3>3. CASE n + 2 \in T
      <4>1. \A y \in T : n + 2 >= y
        BY <3>2
      <4> QED
        BY <3>3, <4>1
    <3>4. CASE n + 2 \notin T /\ n + 1 \in T
      <4>1. \A y \in T : n + 1 >= y
        BY <3>2, <3>4
      <4> QED
        BY <3>4, <4>1
    <3>5. CASE n + 2 \notin T /\ n + 1 \notin T
      <4>1. \A y \in T : y = n
        BY <3>2, <3>5
      <4> QED
        BY <2>1, <4>1
    <3> QED
      BY <3>3, <3>4, <3>5
  <2>4. Max(T) \in T
    BY <2>3 DEF Max
  <2> QED
    <3>1. \A y \in T : y \in Nat
      BY <2>2, CapsAssumption
    <3> QED
      BY <2>1, <2>4, <3>1
<1> QED
  BY <1>2, <1>3, <1>4

\* What the caps gate lets through exceeds neither cap by more than before.
LEMMA PassedNotWorse ==
  ASSUME NEW pre \in Seq(Pin), NEW post \in Seq(Pin), ~Denies(pre, post)
  PROVE  ~Worse(pre, post)
<1>1. \A axis : Amount(pre, axis) \in Nat /\ Amount(post, axis) \in Nat
  BY AmountType
<1> QED
  BY <1>1 DEF Worse, Denies, Violation, OtherAxisWorse, OtherAxis

\* And what it denies makes one of them worse, or hides a heading without a date.
LEMMA DeniedForCause ==
  ASSUME NEW pre \in Seq(Pin), NEW post \in Seq(Pin), Denies(pre, post)
  PROVE  Worse(pre, post) \/ Smuggled(pre, post)
<1>1. \A axis : Amount(pre, axis) \in Nat /\ Amount(post, axis) \in Nat
  BY AmountType
<1> QED
  BY <1>1 DEF Worse, Denies, Violation, OtherAxisWorse, OtherAxis

-----------------------------------------------------------------------------
(* Types. *)

TypeInv ==
  /\ TypeOK /\ Typed
  /\ \A s \in Sessions : pc[s] \in {"save", "count"} => Len(prune[s].block) = 1

Step(s) == StartSession(s) \/ AskTool(s) \/ ChoosePin(s) \/ Work(s)

LEMMA NothingType == NoCall \in Calls /\ NoPrune \in Prunes
<1>1. (CHOOSE n \in Names : TRUE) \in Names
  BY NamesAssumption
<1>2. <<>> \in Seq(Pin)
  OBVIOUS
<1> QED
  BY <1>1, <1>2 DEF NoCall, NoPrune, Calls, Prunes

LEMMA InitTypes == Init => TypeInv
<1> SUFFICES ASSUME Init PROVE TypeInv
  OBVIOUS
<1>1. doc \in Seq(Pin) /\ Len(doc) <= MaxPins
  BY SectionsAssumption DEF Init
<1>2. Typed
  BY NothingType DEF Init, Typed, Steps
<1>3. ASSUME NEW s \in Sessions PROVE SessionOK(s)
  BY <1>3 DEF Init, SessionOK, Steps, NoPrune
<1>4. calls \in 0 .. MaxCalls /\ ungated \in 0 .. MaxUngated /\ faults \in 0 .. MaxFaults
  BY BoundsAssumption DEF Init
<1> QED
  BY <1>1, <1>2, <1>3, <1>4 DEF Init, TypeInv, TypeOK

\* A session that a step leaves alone.
Same(s) == /\ pc'[s] = pc[s] /\ call'[s] = call[s]
           /\ pending'[s] = pending[s] /\ prune'[s] = prune[s]

LEMMA SameOK ==
  ASSUME NEW s \in Sessions, SessionOK(s), Same(s)
  PROVE  SessionOK(s)'
BY DEF SessionOK, Same

LEMMA EndCallOK ==
  ASSUME TypeInv, NEW s \in Sessions, EndCall(s)
  PROVE  /\ Typed' /\ SessionOK(s)'
         /\ \A t \in Sessions \ {s} : Same(t)
         /\ pc'[s] = "idle"
<1> USE NothingType
<1>1. Typed'
  BY DEF TypeInv, Typed, EndCall, Goto, Steps
<1>2. SessionOK(s)'
  BY DEF TypeInv, Typed, EndCall, Goto, Steps, SessionOK, NoPrune
<1>3. \A t \in Sessions \ {s} : Same(t)
  BY DEF TypeInv, Typed, EndCall, Goto, Same
<1> QED
  BY <1>1, <1>2, <1>3 DEF TypeInv, Typed, EndCall, Goto

LEMMA SubmitOK ==
  ASSUME TypeInv, NEW s \in Sessions, NEW c \in Calls, c # NoCall, Submit(s, c),
         UNCHANGED prune
  PROVE  /\ Typed' /\ SessionOK(s)'
         /\ \A t \in Sessions \ {s} : Same(t)
         /\ pc'[s] = "gates"
<1>1. Typed'
  BY DEF TypeInv, Typed, Submit, Goto, Steps
<1>2. SessionOK(s)'
  BY DEF TypeInv, TypeOK, Typed, Submit, Goto, Steps, SessionOK
<1>3. \A t \in Sessions \ {s} : Same(t)
  BY DEF TypeInv, Typed, Submit, Goto, Same
<1> QED
  BY <1>1, <1>2, <1>3 DEF TypeInv, Typed, Submit, Goto

LEMMA PassesOK ==
  ASSUME TypeInv, NEW s \in Sessions, NEW gate, NEW readable, pc[s] = "gates",
         Passes(s, gate, readable)
  PROVE  /\ Typed' /\ SessionOK(s)'
         /\ \A t \in Sessions \ {s} : Same(t)
         /\ pc'[s] \in {"gates", "run"}
<1>1. Typed'
  BY DEF TypeInv, Typed, Passes, Goto, Steps
<1>2. SessionOK(s)'
  BY DEF TypeInv, TypeOK, Typed, Passes, Goto, Steps, SessionOK
<1>3. \A t \in Sessions \ {s} : Same(t)
  BY DEF TypeInv, Typed, Passes, Goto, Same
<1> QED
  BY <1>1, <1>2, <1>3 DEF TypeInv, Typed, Passes, Goto

\* What a step has to show, once it is known that it leaves other sessions alone.
LEMMA TypesFromOne ==
  ASSUME TypeInv, NEW s \in Sessions, Typed', SessionOK(s)',
         \A t \in Sessions \ {s} : Same(t),
         pc'[s] \in {"save", "count"} => Len(prune'[s].block) = 1,
         doc' \in Seq(Pin) /\ Len(doc') <= MaxPins,
         memory' \subseteq Pin, marker' \subseteq Sessions,
         calls' \in 0 .. MaxCalls, ungated' \in 0 .. MaxUngated,
         faults' \in 0 .. MaxFaults, moved' \cup unread' \subseteq Sessions
  PROVE  TypeInv'
<1>1. ASSUME NEW t \in Sessions PROVE SessionOK(t)'
  <2>1. CASE t = s
    BY <2>1
  <2>2. CASE t # s
    BY <2>2, SameOK DEF TypeInv, TypeOK
  <2> QED
    BY <2>1, <2>2
<1>2. ASSUME NEW t \in Sessions, pc'[t] \in {"save", "count"}
      PROVE  Len(prune'[t].block) = 1
  BY <1>2 DEF TypeInv, Same
<1> QED
  BY <1>1, <1>2 DEF TypeInv, TypeOK

LEMMA ChangeOK ==
  ASSUME NEW new, Change(new), moved \subseteq Sessions
  PROVE  doc' = new /\ moved' \subseteq Sessions
BY DEF Change

LEMMA FaultOK ==
  ASSUME faults \in 0 .. MaxFaults, Fault
  PROVE  faults' \in 0 .. MaxFaults /\ faults' # faults
BY BoundsAssumption DEF Fault

LEMMA StartTypes == ASSUME TypeInv, NEW s \in Sessions, StartSession(s) PROVE TypeInv'
<1>1. doc' \in Seq(Pin) /\ Len(doc') <= MaxPins /\ moved' \subseteq Sessions
  <2>1. CASE Change(doc)
    BY <2>1, ChangeOK DEF TypeInv, TypeOK
  <2>2. CASE Change([i \in DOMAIN doc |-> [doc[i] EXCEPT !.stale = TRUE]])
    <3> DEFINE new == [i \in DOMAIN doc |-> [doc[i] EXCEPT !.stale = TRUE]]
    <3>1. \A i \in 1 .. Len(doc) : [doc[i] EXCEPT !.stale = TRUE] \in Pin
      <4>1. \A q \in Pin : [q EXCEPT !.stale = TRUE] \in Pin
        BY DEF Pin
      <4> QED
        BY <4>1 DEF TypeInv, TypeOK
    <3>2. new = [i \in 1 .. Len(doc) |-> [doc[i] EXCEPT !.stale = TRUE]] /\ Len(doc) \in Nat
      BY DEF TypeInv, TypeOK
    <3>3. new \in Seq(Pin) /\ Len(new) = Len(doc)
      BY <3>1, <3>2
    <3> HIDE DEF new
    <3>4. doc' = new /\ moved' \subseteq Sessions
      BY <2>2, ChangeOK DEF new, TypeInv, TypeOK
    <3> QED
      BY <3>3, <3>4 DEF TypeInv, TypeOK
  <2> QED
    BY <2>1, <2>2 DEF StartSession
<1>2. Typed' /\ SessionOK(s)' /\ pc'[s] = "starting" /\ \A t \in Sessions \ {s} : Same(t)
  BY DEF TypeInv, TypeOK, Typed, StartSession, Goto, Steps, SessionOK, Same
<1>3. calls' \in 0 .. MaxCalls
  BY BoundsAssumption DEF TypeInv, TypeOK, StartSession
<1> QED
  BY <1>1, <1>2, <1>3, TypesFromOne DEF TypeInv, TypeOK, StartSession

LEMMA MarkerTypes == ASSUME TypeInv, NEW s \in Sessions, SetMarker(s) PROVE TypeInv'
<1>1. Typed' /\ SessionOK(s)' /\ pc'[s] = "idle" /\ \A t \in Sessions \ {s} : Same(t)
  BY DEF TypeInv, TypeOK, Typed, SetMarker, Goto, Steps, SessionOK, Same
<1> QED
  BY <1>1, TypesFromOne DEF TypeInv, TypeOK, SetMarker, counters

LEMMA NewPinsType == NewPins \subseteq Pin
BY KindsAssumption DEF NewPins, Pin

LEMMA AskTypes == ASSUME TypeInv, NEW s \in Sessions, AskTool(s) PROVE TypeInv'
<1>1. PICK c \in Calls : c # NoCall /\ Submit(s, c)
  <2>1. PICK e \in Edits :
          \E c \in {e, [tool |-> "write", old |-> <<>>, new |-> Apply(doc, e)]} : Submit(s, c)
    BY DEF AskTool
  <2>2. e \in Calls /\ e.tool # "none"
    <3>1. \A q \in Pin : <<q>> \in Seq(Pin)
      OBVIOUS
    <3>2. <<>> \in Seq(Pin) /\ \A i \in DOMAIN doc : doc[i] \in Pin
      BY DEF TypeInv, TypeOK
    <3>3. ASSUME NEW t \in {"edit", "edit_all"}, NEW old \in Seq(Pin), NEW p \in Pin,
                 e = [tool |-> t, old |-> old, new |-> <<p>>]
          PROVE  e \in Calls /\ e.tool # "none"
      <4>1. <<p>> \in Seq(Pin)
        BY <3>1
      <4> QED
        BY <3>3, <4>1 DEF Calls
    <3>4. CASE \E p \in NewPins : e = [tool |-> "edit", old |-> <<>>, new |-> <<p>>]
      BY <3>2, <3>3, <3>4, NewPinsType
    <3>5. CASE \E t \in {"edit", "edit_all"}, i \in DOMAIN doc, p \in NewPins :
                 e = [tool |-> t, old |-> <<doc[i]>>, new |-> <<p>>]
      <4>1. PICK t \in {"edit", "edit_all"}, i \in DOMAIN doc, p \in NewPins :
              e = [tool |-> t, old |-> <<doc[i]>>, new |-> <<p>>]
        BY <3>5
      <4>2. <<doc[i]>> \in Seq(Pin) /\ p \in Pin
        BY <3>1, <3>2, <4>1, NewPinsType
      <4> QED
        BY <3>3, <4>1, <4>2
    <3> QED
      BY <2>1, <3>4, <3>5 DEF Edits
  <2>3. Apply(doc, e) \in Seq(Pin) /\ <<>> \in Seq(Pin)
    BY <2>2, ApplyType DEF TypeInv, TypeOK
  <2>4. [tool |-> "write", old |-> <<>>, new |-> Apply(doc, e)] \in Calls
    BY <2>3 DEF Calls
  <2> QED
    BY <2>1, <2>2, <2>4 DEF NoCall
<1>2. calls' \in 0 .. MaxCalls
  BY BoundsAssumption DEF TypeInv, TypeOK, AskTool
<1>3. Typed' /\ SessionOK(s)' /\ pc'[s] = "gates" /\ \A t \in Sessions \ {s} : Same(t)
  BY <1>1, SubmitOK DEF AskTool
<1> QED
  BY <1>2, <1>3, TypesFromOne DEF TypeInv, TypeOK, AskTool

LEMMA EndCallHistory ==
  ASSUME TypeInv, NEW s \in Sessions, EndCall(s)
  PROVE  moved' \cup unread' \subseteq Sessions
BY DEF TypeInv, TypeOK, EndCall

LEMMA PassesHistory ==
  ASSUME TypeInv, NEW s \in Sessions, NEW gate, NEW readable, Passes(s, gate, readable)
  PROVE  moved' \cup unread' \subseteq Sessions
BY DEF TypeInv, TypeOK, Passes

LEMMA GateTypes ==
  ASSUME TypeInv, NEW s \in Sessions, GateCaps(s) \/ GateStale(s)
  PROVE  TypeInv'
<1>1. EndCall(s) \/ \E gate, readable : Passes(s, gate, readable)
  BY DEF GateCaps, GateStale
<1>2. faults' \in 0 .. MaxFaults
  BY FaultOK DEF GateCaps, GateStale, TypeInv, TypeOK
<1>3. pc[s] = "gates"
  BY DEF GateCaps, GateStale
<1>4. /\ Typed' /\ SessionOK(s)' /\ \A t \in Sessions \ {s} : Same(t)
      /\ pc'[s] \in {"gates", "run", "idle"}
  BY <1>1, <1>3, EndCallOK, PassesOK
<1>5. moved' \cup unread' \subseteq Sessions
  BY <1>1, EndCallHistory, PassesHistory
<1>6. UNCHANGED <<doc, memory, marker, calls, ungated>>
  BY DEF GateCaps, GateStale
<1> QED
  BY <1>2, <1>4, <1>5, <1>6, TypesFromOne DEF TypeInv, TypeOK

LEMMA RunTypes == ASSUME TypeInv, NEW s \in Sessions, RunTool(s) PROVE TypeInv'
<1>1. Apply(doc, call[s]) \in Seq(Pin) /\ Len(Apply(doc, call[s])) \in Nat
  <2>1. call[s] \in Calls /\ doc \in Seq(Pin)
    BY DEF TypeInv, TypeOK, Typed
  <2> QED
    BY <2>1, ApplyType
<1>2. CASE EndCall(s) /\ UNCHANGED doc
  <2>1. moved' \cup unread' \subseteq Sessions
    BY <1>2, EndCallHistory
  <2> QED
    BY <1>2, <2>1, EndCallOK, TypesFromOne DEF RunTool, TypeInv, TypeOK, counters
<1>3. CASE /\ ~(Len(Apply(doc, call[s])) > MaxPins)
           /\ Change(Apply(doc, call[s])) /\ Goto(s, "post")
           /\ UNCHANGED <<call, pending, prune, unread>>
  <2>1. /\ doc' \in Seq(Pin) /\ Len(doc') <= MaxPins /\ moved' \subseteq Sessions
    BY <1>1, <1>3, ChangeOK, BoundsAssumption DEF TypeInv, TypeOK
  <2>2. Typed' /\ SessionOK(s)' /\ pc'[s] = "post" /\ \A t \in Sessions \ {s} : Same(t)
    BY <1>3 DEF RunTool, TypeInv, TypeOK, Typed, Goto, Steps, SessionOK, Same
  <2> QED
    BY <1>3, <2>1, <2>2, TypesFromOne DEF RunTool, TypeInv, TypeOK, counters
<1> QED
  BY <1>2, <1>3 DEF RunTool

LEMMA ClearType ==
  ASSUME TypeInv, NEW s \in Sessions, Clear(s)
  PROVE  marker' \subseteq Sessions /\ faults' \in 0 .. MaxFaults
BY FaultOK DEF Clear, TypeInv, TypeOK

LEMMA PostTypes == ASSUME TypeInv, NEW s \in Sessions, PostEdit(s) PROVE TypeInv'
<1>1. moved' \cup unread' \subseteq Sessions /\ EndCall(s)
  BY EndCallHistory DEF PostEdit
<1>2. marker' \subseteq Sessions /\ faults' \in 0 .. MaxFaults
  BY ClearType DEF PostEdit
<1> QED
  BY <1>1, <1>2, EndCallOK, TypesFromOne DEF PostEdit, TypeInv, TypeOK

LEMMA ChooseTypes == ASSUME TypeInv, NEW s \in Sessions, ChoosePin(s) PROVE TypeInv'
<1>1. PICK i \in DOMAIN doc :
        prune' = [prune EXCEPT ![s] = [on |-> TRUE, index |-> i, chosen |-> doc[i].name,
                                       block |-> <<>>]]
  BY DEF ChoosePin
<1>2. PICK new \in Prunes : /\ new = [on |-> TRUE, index |-> i, chosen |-> doc[i].name,
                                       block |-> <<>>]
                           /\ new.on /\ Len(new.block) <= 1
  <2>1. doc[i] \in Pin /\ i \in Nat
    BY DEF TypeInv, TypeOK
  <2>2. doc[i].name \in Names
    BY <2>1 DEF Pin
  <2>3. <<>> \in Seq(Pin) /\ Len(<<>>) = 0
    OBVIOUS
  <2> DEFINE n == [on |-> TRUE, index |-> i, chosen |-> doc[i].name, block |-> <<>>]
  <2>4. n \in Prunes
    BY <2>1, <2>2, <2>3 DEF Prunes
  <2>5. n.on /\ Len(n.block) <= 1
    BY <2>3
  <2> QED
    BY <2>4, <2>5
<1>3. prune' = [prune EXCEPT ![s] = new]
  BY <1>1, <1>2
<1>4. Typed' /\ SessionOK(s)' /\ pc'[s] = "archive" /\ \A t \in Sessions \ {s} : Same(t)
  BY <1>2, <1>3 DEF ChoosePin, TypeInv, TypeOK, Typed, Goto, Steps, SessionOK, Same
<1> QED
  BY <1>4, TypesFromOne DEF ChoosePin, TypeInv, TypeOK, counters

LEMMA ReadTypes == ASSUME TypeInv, NEW s \in Sessions, ReadBlock(s) PROVE TypeInv'
<1>1. CASE EndCall(s)
  <2>1. moved' \cup unread' \subseteq Sessions
    BY <1>1, EndCallHistory
  <2> QED
    BY <1>1, <2>1, EndCallOK, TypesFromOne DEF ReadBlock, TypeInv, TypeOK, counters
<1>2. CASE /\ prune[s].index \in DOMAIN doc
           /\ prune' = [prune EXCEPT ![s].block = <<doc[prune[s].index]>>]
           /\ Goto(s, "save")
           /\ UNCHANGED <<call, pending, moved, unread>>
  <2>1. PICK new : new = [prune[s] EXCEPT !.block = <<doc[prune[s].index]>>]
    OBVIOUS
  <2>2. new \in Prunes /\ Len(new.block) = 1 /\ new.on
    <3>1. <<doc[prune[s].index]>> \in Seq(Pin) /\ Len(<<doc[prune[s].index]>>) = 1
      <4>1. doc[prune[s].index] \in Pin
        BY <1>2 DEF TypeInv, TypeOK
      <4> QED
        BY <4>1
    <3>2. prune[s] \in Prunes /\ prune[s].on
      BY DEF TypeInv, TypeOK, Typed, SessionOK, ReadBlock
    <3> QED
      BY <2>1, <3>1, <3>2 DEF Prunes
  <2>3. prune' = [prune EXCEPT ![s] = new]
    BY <1>2, <2>1
  <2>4. Typed' /\ SessionOK(s)' /\ pc'[s] = "save" /\ \A t \in Sessions \ {s} : Same(t)
    BY <1>2, <2>2, <2>3
       DEF ReadBlock, TypeInv, TypeOK, Typed, Goto, Steps, SessionOK, Same
  <2>5. prune'[s] = new
    BY <2>3 DEF TypeInv, Typed
  <2> QED
    BY <1>2, <2>2, <2>4, <2>5, TypesFromOne DEF ReadBlock, TypeInv, TypeOK, counters
<1> QED
  BY <1>1, <1>2 DEF ReadBlock

LEMMA BlockType ==
  ASSUME TypeInv, NEW s \in Sessions, Len(prune[s].block) = 1
  PROVE  prune[s].block[1] \in Pin /\ prune[s].block = <<prune[s].block[1]>>
<1>1. prune[s].block \in Seq(Pin)
  BY DEF TypeInv, Typed, Prunes
<1> QED
  BY <1>1

LEMMA SaveTypes == ASSUME TypeInv, NEW s \in Sessions, SaveBlock(s) PROVE TypeInv'
<1>1. CASE EndCall(s) /\ Fault /\ UNCHANGED memory
  <2>1. moved' \cup unread' \subseteq Sessions /\ faults' \in 0 .. MaxFaults
    BY <1>1, EndCallHistory, FaultOK DEF TypeInv, TypeOK
  <2> QED
    BY <1>1, <2>1, EndCallOK, TypesFromOne DEF SaveBlock, TypeInv, TypeOK
<1>2. CASE /\ memory' = memory \cup {prune[s].block[1]}
           /\ Goto(s, "count")
           /\ UNCHANGED <<call, pending, prune, moved, unread, faults>>
  <2>1. Len(prune[s].block) = 1 /\ memory' \subseteq Pin
    BY <1>2, BlockType DEF SaveBlock, TypeInv, TypeOK
  <2>2. Typed' /\ SessionOK(s)' /\ pc'[s] = "count" /\ \A t \in Sessions \ {s} : Same(t)
    BY <1>2 DEF SaveBlock, TypeInv, TypeOK, Typed, Goto, Steps, SessionOK, Same
  <2> QED
    BY <1>2, <2>1, <2>2, TypesFromOne DEF SaveBlock, TypeInv, TypeOK
<1> QED
  BY <1>1, <1>2 DEF SaveBlock

LEMMA CountTypes == ASSUME TypeInv, NEW s \in Sessions, CountBlock(s) PROVE TypeInv'
<1>1. marker' \subseteq Sessions /\ faults' \in 0 .. MaxFaults
  BY ClearType DEF CountBlock
<1>2. CASE EndCall(s)
  <2>1. moved' \cup unread' \subseteq Sessions
    BY <1>2, EndCallHistory
  <2> QED
    BY <1>1, <1>2, <2>1, EndCallOK, TypesFromOne DEF CountBlock, TypeInv, TypeOK
<1>3. CASE /\ Submit(s, [tool |-> "edit", old |-> prune[s].block, new |-> <<>>])
           /\ UNCHANGED <<prune, moved, unread>>
  <2>1. PICK c : c = [tool |-> "edit", old |-> prune[s].block, new |-> <<>>]
    OBVIOUS
  <2>2. c \in Calls /\ c # NoCall
    <3>1. prune[s].block \in Seq(Pin) /\ <<>> \in Seq(Pin)
      BY DEF TypeInv, Typed, Prunes
    <3> QED
      BY <2>1, <3>1 DEF Calls, NoCall
  <2>3. Typed' /\ SessionOK(s)' /\ pc'[s] = "gates" /\ \A t \in Sessions \ {s} : Same(t)
    BY <1>3, <2>1, <2>2, SubmitOK
  <2> QED
    BY <1>1, <1>3, <2>3, TypesFromOne DEF CountBlock, TypeInv, TypeOK
<1> QED
  BY <1>2, <1>3 DEF CountBlock

LEMMA UngatedTypes == ASSUME TypeInv, Ungated PROVE TypeInv'
<1>1. PICK new : Change(new) /\ new \in Seq(Pin) /\ Len(new) <= MaxPins
  <2>1. doc \in Seq(Pin) /\ Len(doc) <= MaxPins /\ Len(doc) \in Nat
    BY DEF TypeInv, TypeOK
  <2>2. ASSUME NEW n \in Names, NEW k \in FoundKinds, Len(doc) < MaxPins
        PROVE  LET new == Append(doc, [name |-> n, kind |-> k, stale |-> FALSE])
               IN new \in Seq(Pin) /\ Len(new) <= MaxPins
    <3>1. [name |-> n, kind |-> k, stale |-> FALSE] \in Pin
      BY KindsAssumption DEF Pin
    <3> QED
      BY <2>1, <2>2, <3>1, BoundsAssumption
  <2>3. ASSUME NEW i \in DOMAIN doc
        PROVE  RemoveAt(doc, i) \in Seq(Pin) /\ Len(RemoveAt(doc, i)) <= MaxPins
    <3>1. i \in 1 .. Len(doc)
      BY <2>1
    <3>2. /\ SubSeq(doc, 1, i - 1) \in Seq(Pin) /\ Len(SubSeq(doc, 1, i - 1)) = i - 1
          /\ SubSeq(doc, i + 1, Len(doc)) \in Seq(Pin)
          /\ Len(SubSeq(doc, i + 1, Len(doc))) = Len(doc) - i
      BY <2>1, <3>1
    <3>3. RemoveAt(doc, i) \in Seq(Pin) /\ Len(RemoveAt(doc, i)) = (i - 1) + (Len(doc) - i)
      BY <3>2 DEF RemoveAt
    <3> QED
      BY <2>1, <3>1, <3>3, BoundsAssumption
  <2>4. Reverse(doc) \in Seq(Pin) /\ Len(Reverse(doc)) <= MaxPins
    <3>1. \A i \in 1 .. Len(doc) : doc[(Len(doc) - i) + 1] \in Pin
      BY <2>1
    <3>2. Reverse(doc) \in Seq(Pin) /\ Len(Reverse(doc)) = Len(doc)
      BY <2>1, <3>1 DEF Reverse
    <3> QED
      BY <2>1, <3>2
  <2> QED
    BY <2>2, <2>3, <2>4 DEF Ungated
<1>2. doc' \in Seq(Pin) /\ Len(doc') <= MaxPins /\ moved' \subseteq Sessions
  BY <1>1, ChangeOK DEF TypeInv, TypeOK
<1>3. ungated' \in 0 .. MaxUngated
  BY BoundsAssumption DEF Ungated, TypeInv, TypeOK
<1>4. UNCHANGED <<pc, call, pending, prune>>
  BY DEF Ungated, sessionVars
<1>5. Typed' /\ \A s \in Sessions : SessionOK(s)'
  BY <1>4 DEF Typed, TypeInv, TypeOK, SessionOK
<1> QED
  BY <1>2, <1>3, <1>4, <1>5 DEF Ungated, TypeInv, TypeOK

LEMMA NextTypes == ASSUME TypeInv, [Next]_vars PROVE TypeInv'
<1>1. CASE Ungated
  BY <1>1, UngatedTypes
<1>2. ASSUME NEW s \in Sessions, Step(s) PROVE TypeInv'
  BY <1>2, StartTypes, AskTypes, ChooseTypes, MarkerTypes, GateTypes, RunTypes, PostTypes,
     ReadTypes, SaveTypes, CountTypes DEF Step, Work
<1>3. CASE UNCHANGED vars
  BY <1>3 DEF vars, sessionVars, counters, TypeInv, TypeOK, Typed, SessionOK
<1> QED
  BY <1>1, <1>2, <1>3 DEF Next, Step

-----------------------------------------------------------------------------
(* Prunes. *)

\* A step of one session leaves the others alone, and memory only grows.
LEMMA OthersSame ==
  ASSUME TypeInv, NEW s \in Sessions, Step(s)
  PROVE  memory \subseteq memory' /\ \A t \in Sessions \ {s} : Same(t)
<1>1. memory \subseteq memory'
  BY DEF Step, StartSession, AskTool, ChoosePin, Work, SetMarker, GateCaps, GateStale, RunTool,
         PostEdit, ReadBlock, SaveBlock, CountBlock
<1> USE DEF TypeInv, Typed, Same, Goto, EndCall, Passes, Submit
<1>2. CASE StartSession(s) \/ AskTool(s) \/ ChoosePin(s)
  BY <1>2 DEF StartSession, AskTool, ChoosePin
<1>3. CASE SetMarker(s) \/ GateCaps(s) \/ GateStale(s)
  BY <1>3 DEF SetMarker, GateCaps, GateStale
<1>4. CASE RunTool(s) \/ PostEdit(s) \/ ReadBlock(s)
  BY <1>4 DEF RunTool, PostEdit, ReadBlock
<1>5. CASE SaveBlock(s) \/ CountBlock(s)
  BY <1>5 DEF SaveBlock, CountBlock
<1> QED
  BY <1>1, <1>2, <1>3, <1>4, <1>5 DEF Step, Work

LEMMA EndCallPrune ==
  ASSUME TypeInv, NEW s \in Sessions, EndCall(s)
  PROVE  PruneOK(s)'
BY EndCallOK DEF PruneOK

LEMMA StepPrune ==
  ASSUME TypeInv, PruneInv, NEW s \in Sessions, Step(s)
  PROVE  PruneOK(s)'
<1> USE DEF TypeInv, TypeOK, Typed, Goto
<1>1. CASE EndCall(s)
  BY <1>1, EndCallPrune
<1>2. CASE StartSession(s) \/ SetMarker(s) \/ ChoosePin(s)
  <2>1. pc'[s] \in {"starting", "idle", "archive"}
    BY <1>2 DEF StartSession, SetMarker, ChoosePin
  <2> QED
    BY <2>1 DEF PruneOK
<1>3. CASE AskTool(s)
  <2>1. prune[s] = NoPrune /\ prune'[s] = prune[s] /\ pc'[s] = "gates"
    BY <1>3 DEF AskTool, Submit, SessionOK
  <2> QED
    BY <2>1 DEF PruneOK, NoPrune
<1>4. CASE (GateCaps(s) \/ GateStale(s)) /\ ~EndCall(s)
  <2>1. PICK gate, readable : Passes(s, gate, readable)
    BY <1>4 DEF GateCaps, GateStale
  <2>2. pc[s] = "gates" /\ memory' = memory
    BY <1>4 DEF GateCaps, GateStale
  <2>3. pc'[s] \in {"gates", "run"} /\ UNCHANGED <<call, prune>>
    BY <2>1, <2>2, PassesOK DEF Passes
  <2> QED
    BY <2>2, <2>3 DEF PruneInv, PruneOK
<1>5. CASE RunTool(s) /\ ~EndCall(s)
  <2>1. pc[s] = "run" /\ pc'[s] = "post" /\ UNCHANGED <<call, prune, memory>>
    BY <1>5 DEF RunTool
  <2> QED
    BY <2>1 DEF PruneInv, PruneOK
<1>6. CASE ReadBlock(s) /\ ~EndCall(s)
  <2>1. pc'[s] = "save"
    BY <1>6 DEF ReadBlock
  <2> QED
    BY <2>1 DEF PruneOK
<1>7. CASE SaveBlock(s) /\ ~EndCall(s)
  <2>1. pc'[s] = "count" /\ prune'[s].block[1] \in memory'
    BY <1>7 DEF SaveBlock
  <2> QED
    BY <2>1 DEF PruneOK
<1>8. CASE CountBlock(s) /\ ~EndCall(s)
  <2>1. /\ pc[s] = "count" /\ pc'[s] = "gates" /\ UNCHANGED <<prune, memory>>
        /\ call'[s] = [tool |-> "edit", old |-> prune[s].block, new |-> <<>>]
        /\ prune[s].block[1].name = prune[s].chosen
    BY <1>8 DEF CountBlock, Submit, Removable
  <2>2. Len(prune[s].block) = 1 /\ prune[s].block[1] \in memory
    BY <2>1 DEF PruneInv, PruneOK
  <2> QED
    BY <2>1, <2>2 DEF PruneOK
<1>9. CASE PostEdit(s)
  BY <1>1, <1>9 DEF PostEdit
<1> QED
  BY <1>1, <1>2, <1>3, <1>4, <1>5, <1>6, <1>7, <1>8, <1>9 DEF Step, Work

LEMMA NextPrune == ASSUME TypeInv, PruneInv, [Next]_vars PROVE PruneInv'
<1>1. ASSUME NEW s \in Sessions, Step(s) PROVE PruneInv'
  <2>1. ASSUME NEW t \in Sessions, t # s PROVE PruneOK(t)'
    <3>1. Same(t) /\ memory \subseteq memory'
      BY <1>1, <2>1, OthersSame
    <3> QED
      BY <3>1 DEF PruneInv, PruneOK, Same
  <2> QED
    BY <1>1, <2>1, StepPrune DEF PruneInv
<1>2. CASE Ungated \/ UNCHANGED vars
  BY <1>2 DEF Ungated, vars, sessionVars, PruneInv, PruneOK
<1> QED
  BY <1>1, <1>2 DEF Next, Step

-----------------------------------------------------------------------------
(* The verdict of the caps gate. *)

\* The verdict stands while the call waits, whatever happens to the section.
LEMMA VerdictStands ==
  ASSUME TypeInv, NEW s \in Sessions, CapsOK(s), Same(s), doc' = doc \/ Change(doc'),
         doc' = doc => (s \in moved => s \in moved'),
         s \in unread => s \in unread'
  PROVE  CapsOK(s)'
<1> SUFFICES ASSUME pc'[s] \in {"gates", "run"}, "caps" \notin pending'[s],
                    s \notin moved' \cup unread'
             PROVE  ~Denies(doc', Apply(doc', call'[s]))
  BY DEF CapsOK
<1>1. pc[s] \in {"gates", "run"} /\ "caps" \notin pending[s] /\ call'[s] = call[s]
  BY DEF Same
<1>2. doc' = doc
  BY <1>1 DEF Change, Gates
<1> QED
  BY <1>1, <1>2 DEF CapsOK

\* How a step changes what the verdicts rest on.
LEMMA StepHistory ==
  ASSUME TypeInv, NEW s \in Sessions, Step(s), NEW t \in Sessions, t # s
  PROVE  /\ doc' = doc \/ Change(doc')
         /\ t \in moved => t \in moved'
         /\ t \in unread => t \in unread'
<1> USE DEF EndCall, Passes, Change, Submit
<1>1. CASE StartSession(s) \/ AskTool(s) \/ ChoosePin(s)
  BY <1>1 DEF StartSession, AskTool, ChoosePin
<1>2. CASE SetMarker(s) \/ GateCaps(s) \/ GateStale(s)
  BY <1>2 DEF SetMarker, GateCaps, GateStale
<1>3. CASE RunTool(s)
  BY <1>3 DEF RunTool, counters
<1>4. CASE PostEdit(s) \/ ReadBlock(s) \/ SaveBlock(s) \/ CountBlock(s)
  BY <1>4 DEF PostEdit, ReadBlock, SaveBlock, CountBlock
<1> QED
  BY <1>1, <1>2, <1>3, <1>4 DEF Step, Work

LEMMA StepCaps ==
  ASSUME TypeInv, CapsInv, NEW s \in Sessions, Step(s)
  PROVE  CapsOK(s)'
<1> USE DEF TypeInv, TypeOK, Typed, Goto
<1>1. CASE EndCall(s)
  BY <1>1, EndCallOK DEF CapsOK
<1>2. CASE pc'[s] \notin {"gates", "run"}
  BY <1>2 DEF CapsOK
<1>3. CASE AskTool(s) \/ (CountBlock(s) /\ ~EndCall(s))
  <2>1. pending'[s] = Gates
    BY <1>3 DEF AskTool, CountBlock, Submit
  <2> QED
    BY <2>1 DEF CapsOK, Gates
<1>4. CASE GateCaps(s) /\ ~EndCall(s)
  <2>1. CASE ~CapsDeny(s) /\ doc' = doc /\ call' = call
    BY <2>1 DEF CapsOK, CapsDeny
  <2>2. CASE Passes(s, "caps", FALSE)
    BY <2>2 DEF CapsOK, Passes
  <2> QED
    BY <1>4, <2>1, <2>2 DEF GateCaps, Passes
<1>5. CASE GateStale(s) /\ ~EndCall(s)
  <2>1. PICK readable \in BOOLEAN : Passes(s, "stale", readable)
    BY <1>5 DEF GateStale
  <2>2. pc[s] = "gates" /\ doc' = doc
    BY <1>5 DEF GateStale
  <2>3. /\ call'[s] = call[s] /\ moved' = moved /\ unread \subseteq unread'
        /\ "caps" \in pending[s] => "caps" \in pending'[s]
    BY <2>1 DEF Passes
  <2> QED
    BY <2>2, <2>3 DEF CapsInv, CapsOK
<1>6. CASE StartSession(s) \/ SetMarker(s) \/ ChoosePin(s)
  <2>1. pc'[s] \in {"starting", "idle", "archive"}
    BY <1>6 DEF StartSession, SetMarker, ChoosePin
  <2> QED
    BY <1>2, <2>1
<1>7. CASE (RunTool(s) \/ ReadBlock(s) \/ SaveBlock(s)) /\ ~EndCall(s)
  <2>1. pc'[s] \in {"post", "save", "count"}
    BY <1>7 DEF RunTool, ReadBlock, SaveBlock
  <2> QED
    BY <1>2, <2>1
<1>8. CASE PostEdit(s)
  BY <1>1, <1>8 DEF PostEdit
<1> QED
  BY <1>1, <1>3, <1>4, <1>5, <1>6, <1>7, <1>8 DEF Step, Work

LEMMA NextCaps == ASSUME TypeInv, CapsInv, [Next]_vars PROVE CapsInv'
<1>1. ASSUME NEW s \in Sessions, Step(s) PROVE CapsInv'
  <2>1. ASSUME NEW t \in Sessions, t # s PROVE CapsOK(t)'
    BY <1>1, <2>1, StepHistory, OthersSame, VerdictStands DEF CapsInv
  <2> QED
    BY <1>1, <2>1, StepCaps DEF CapsInv
<1>2. CASE Ungated
  <2>1. PICK new : Change(new)
    BY <1>2 DEF Ungated
  <2>2. doc' = new /\ moved \subseteq moved' /\ unread' = unread
    BY <1>2, <2>1 DEF Change, Ungated
  <2>3. ASSUME NEW s \in Sessions PROVE Same(s)
    BY <1>2 DEF Ungated, sessionVars, Same
  <2> QED
    BY <2>1, <2>2, <2>3, VerdictStands DEF CapsInv
<1>3. CASE UNCHANGED vars
  BY <1>3 DEF vars, sessionVars, CapsInv, CapsOK
<1> QED
  BY <1>1, <1>2, <1>3 DEF Next, Step

-----------------------------------------------------------------------------
\* The inductive invariant.
IInv == TypeInv /\ PruneInv /\ CapsInv

LEMMA InitIInv == Init => IInv
BY InitTypes DEF Init, IInv, PruneInv, PruneOK, CapsInv, CapsOK

LEMMA NextIInv == IInv /\ [Next]_vars => IInv'
BY NextTypes, NextPrune, NextCaps DEF IInv

LEMMA Invariant == Spec => []IInv
BY InitIInv, NextIInv, PTL DEF Spec

\* Every variable has its type, a call is pending exactly between the lead's request
\* and the hook after it, and an ended call leaves no prune behind.
THEOREM TypeCorrect == Spec => []TypeOK
<1>1. IInv => TypeOK
  BY DEF IInv, TypeInv
<1> QED
  BY <1>1, Invariant, PTL

\* Only the tool takes a session from its gates past its call.
LEMMA RunsByTool ==
  ASSUME TypeInv, NEW s \in Sessions, Next, Runs(s)
  PROVE  RunTool(s) /\ ~EndCall(s)
<1>1. pc[s] = "run" /\ pc'[s] = "post"
  BY DEF Runs
<1>2. PICK t \in Sessions : Step(t)
  BY <1>1 DEF Next, Step, Ungated, sessionVars
<1>3. t = s
  BY <1>1, <1>2, OthersSame DEF Same
<1> QED
  BY <1>1, <1>2, <1>3, EndCallOK
     DEF Step, Work, StartSession, AskTool, ChoosePin, SetMarker, GateCaps, GateStale, RunTool,
         PostEdit, ReadBlock, SaveBlock, CountBlock

\* Edit and Write calls of the lead, as the caps gate judges them.
THEOREM CapsNeverWorse == Spec => NeverWorse
<1> DEFINE A == \A s \in Sessions :
                  (Runs(s) /\ s \notin moved \cup unread) => ~Worse(doc, doc')
<1>1. IInv /\ [Next]_vars => [A]_vars
  <2> SUFFICES ASSUME IInv, Next, NEW s \in Sessions, Runs(s), s \notin moved \cup unread
               PROVE  ~Worse(doc, doc')
    OBVIOUS
  <2>1. RunTool(s) /\ ~EndCall(s)
    BY RunsByTool DEF IInv
  <2>2. doc' = Apply(doc, call[s])
    BY <2>1 DEF RunTool, Change
  <2>3. pc[s] = "run" /\ pending[s] = {}
    BY <2>1 DEF RunTool, IInv, TypeInv, TypeOK, SessionOK
  <2>4. ~Denies(doc, doc')
    BY <2>2, <2>3 DEF IInv, CapsInv, CapsOK
  <2>5. doc \in Seq(Pin) /\ doc' \in Seq(Pin)
    BY NextIInv DEF IInv, TypeInv, TypeOK
  <2> QED
    BY <2>4, <2>5, PassedNotWorse
<1> QED
  BY <1>1, Invariant, PTL DEF Spec, NeverWorse

\* A denial, by the caps gate, of what the stale gate does not deny.
THEOREM DenialsAreJustified == Spec => DenialsJustified
<1> DEFINE A == \A s \in Sessions :
                  (pc[s] = "gates" /\ pc'[s] = "idle" /\ faults' = faults
                     /\ ~StaleDenies(s)) =>
                     \/ Worse(doc, Apply(doc, call[s]))
                     \/ Smuggled(doc, Apply(doc, call[s])) \/ InvalidOverride(call[s])
<1>1. IInv /\ [Next]_vars => [A]_vars
  <2> SUFFICES ASSUME IInv, Next, NEW s \in Sessions, pc[s] = "gates", pc'[s] = "idle",
                      faults' = faults, ~StaleDenies(s)
               PROVE  \/ Worse(doc, Apply(doc, call[s]))
                      \/ Smuggled(doc, Apply(doc, call[s])) \/ InvalidOverride(call[s])
    OBVIOUS
  <2>1. PICK t \in Sessions : Step(t)
    BY DEF Next, Step, Ungated, sessionVars
  <2>2. t = s
    BY <2>1, OthersSame DEF Same, IInv
  <2>3. GateCaps(s) \/ GateStale(s)
    BY <2>1, <2>2 DEF Step, Work, StartSession, AskTool, ChoosePin, SetMarker, RunTool, PostEdit,
                      ReadBlock, SaveBlock, CountBlock
  <2>4. ~Fault
    BY FaultOK DEF IInv, TypeInv, TypeOK
  <2>5. ASSUME NEW gate, NEW readable, Passes(s, gate, readable) PROVE FALSE
    BY <2>5, PassesOK DEF IInv
  <2>6. CapsDeny(s)
    BY <2>3, <2>4, <2>5 DEF GateCaps, GateStale
  <2>7. call[s] \in Calls /\ doc \in Seq(Pin)
    BY DEF IInv, TypeInv, TypeOK, Typed
  <2> QED
    BY <2>6, <2>7, ApplyType, DeniedForCause DEF CapsDeny
<1> QED
  BY <1>1, Invariant, PTL DEF Spec, DenialsJustified

\* The prune of a pin, from the index in the listing to the removal.
THEOREM PrunesAreSafe == Spec => PrunedSafely
<1> DEFINE A == \A s \in Sessions :
                  (Runs(s) /\ prune[s].on) =>
                     \E i \in DOMAIN doc :
                        /\ doc' = RemoveAt(doc, i)
                        /\ doc[i] \in memory /\ doc[i].name = prune[s].chosen
<1>1. IInv /\ [Next]_vars => [A]_vars
  <2> SUFFICES ASSUME IInv, Next, NEW s \in Sessions, Runs(s), prune[s].on
               PROVE  \E i \in DOMAIN doc :
                         /\ doc' = RemoveAt(doc, i)
                         /\ doc[i] \in memory /\ doc[i].name = prune[s].chosen
    OBVIOUS
  <2>1. RunTool(s) /\ ~EndCall(s)
    BY RunsByTool DEF IInv
  <2>2. pc[s] = "run"
    BY DEF Runs
  <2>3. /\ call[s] = [tool |-> "edit", old |-> prune[s].block, new |-> <<>>]
        /\ Len(prune[s].block) = 1
        /\ prune[s].block[1] \in memory /\ prune[s].block[1].name = prune[s].chosen
    BY <2>2 DEF IInv, PruneInv, PruneOK
  <2>4. PICK p \in Pin : prune[s].block = <<p>> /\ p \in memory /\ p.name = prune[s].chosen
    BY <2>3, BlockType DEF IInv
  <2>5. call[s].tool = "edit" /\ call[s].old = <<p>> /\ call[s].old # <<>> /\ call[s].old[1] = p
    BY <2>3, <2>4
  <2>6. doc' = Apply(doc, call[s]) /\ Occurrences(doc, p) = 1
    BY <2>1, <2>5 DEF RunTool, Applicable, Change
  <2>7. doc \in Seq(Pin)
    BY DEF IInv, TypeInv, TypeOK
  <2> QED
    BY <2>3, <2>4, <2>6, <2>7, RemovesIt
<1> QED
  BY <1>1, Invariant, PTL DEF Spec, PrunedSafely

=============================================================================
