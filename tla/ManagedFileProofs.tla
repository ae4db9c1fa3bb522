------------------------- MODULE ManagedFileProofs -------------------------
(***************************************************************************)
(* Two kinds of files that processes read, change and replace: CLAUDE.md,   *)
(* which they lock, and at the end the backlog, which they compare with    *)
(* what they had read.                                                     *)
(***************************************************************************)
EXTENDS ManagedFile, FiniteSetTheorems, WellFoundedInduction, TLAPS

(* The budgets. *)

LEMMA Smallest ==
  ASSUME NEW S \in SUBSET Nat, S # {}
  PROVE  \E m \in S : \A n \in S : m <= n
<1> DEFINE T == {0 .. k : k \in S}
           F == FiniteSubsetsOf(Nat)
           R == StrictSubsetOrdering(Nat)
<1>1. T \subseteq F /\ T # {}
  <2>1. ASSUME NEW k \in S PROVE 0 .. k \in F
    BY FS_Interval DEF FiniteSubsetsOf
  <2> QED
    BY <2>1
<1>2. \E x \in T : \A y \in T : ~(<<y, x>> \in R)
  <2>1. IsWellFoundedOn(R, F)
    BY FS_StrictSubsetOrderingWellFounded
  <2> HIDE DEF T, F, R
  <2> QED
    BY <1>1, <2>1, WFMin
<1>3. PICK m \in S : \A n \in S : ~(<<0 .. n, 0 .. m>> \in R)
  BY <1>2
<1>4. ASSUME NEW n \in S, n < m PROVE FALSE
  <2>1. /\ 0 .. n \subseteq 0 .. m /\ m \in 0 .. m /\ m \notin 0 .. n
        /\ 0 .. n \subseteq Nat /\ 0 .. m \subseteq Nat
    BY <1>4
  <2>2. 0 .. n # 0 .. m
    BY <2>1
  <2>3. <<0 .. n, 0 .. m>> \in R
    BY <2>1, <2>2 DEF StrictSubsetOrdering
  <2> QED
    BY <1>3, <2>3
<1> QED
  BY <1>4

\* Induction over the naturals, for a set.
LEMMA Induction ==
  ASSUME NEW S \in SUBSET Nat, 0 \in S, \A n \in S : n + 1 \in S
  PROVE  \A n \in Nat : n \in S
<1> SUFFICES ASSUME NEW k \in Nat \ S PROVE FALSE
  OBVIOUS
<1>1. PICK m \in Nat \ S : \A n \in Nat \ S : m <= n
  <2>1. Nat \ S \in SUBSET Nat /\ Nat \ S # {}
    OBVIOUS
  <2> QED
    BY <2>1, Smallest
<1>2. m # 0 /\ m - 1 \in Nat
  BY <1>1
<1>3. m - 1 \in S
  BY <1>1, <1>2
<1>4. (m - 1) + 1 \in S
  BY <1>3
<1> QED
  BY <1>1, <1>2, <1>4

\* g sums the tokens of s.
Sums(s, n, g) ==
  /\ g \in [0 .. n -> Nat] /\ g[0] = 0
  /\ \A k \in 1 .. n : g[k] = g[k - 1] + s[k].tokens

LEMMA SumsExist ==
  ASSUME NEW s \in Seq(Entry)
  PROVE  \E g : Sums(s, Len(s), g)
<1> DEFINE S == {n \in Nat : n <= Len(s) => \E g : Sums(s, n, g)}
<1>1. 0 \in S
  <2> DEFINE g == [k \in 0 .. 0 |-> 0]
  <2>1. Sums(s, 0, g)
    BY DEF Sums
  <2> QED
    BY <2>1
<1>2. ASSUME NEW n \in S PROVE n + 1 \in S
  <2> SUFFICES ASSUME n + 1 <= Len(s) PROVE \E g : Sums(s, n + 1, g)
    OBVIOUS
  <2>1. PICK f : Sums(s, n, f)
    OBVIOUS
  <2> DEFINE g == [k \in 0 .. n + 1 |-> IF k = n + 1 THEN f[n] + s[n + 1].tokens ELSE f[k]]
  <2>2. s[n + 1].tokens \in Nat
    <3>1. s[n + 1] \in Entry
      OBVIOUS
    <3> QED
      BY <3>1 DEF Entry
  <2>3. g \in [0 .. n + 1 -> Nat] /\ g[0] = 0
    BY <2>1, <2>2 DEF Sums
  <2>4. ASSUME NEW k \in 1 .. n + 1 PROVE g[k] = g[k - 1] + s[k].tokens
    <3>1. CASE k = n + 1
      BY <3>1
    <3>2. CASE k # n + 1
      <4>1. k \in 1 .. n /\ k - 1 \in 0 .. n /\ k - 1 # n + 1
        BY <3>2
      <4>2. f[k] = f[k - 1] + s[k].tokens
        BY <2>1, <4>1 DEF Sums
      <4> QED
        BY <3>2, <4>1, <4>2
    <3> QED
      BY <3>1, <3>2
  <2> HIDE DEF g
  <2>5. Sums(s, n + 1, g)
    BY <2>3, <2>4 DEF Sums
  <2> QED
    BY <2>5
<1>3. Len(s) \in S
  <2>1. S \in SUBSET Nat
    OBVIOUS
  <2> HIDE DEF S
  <2> QED
    BY <1>1, <1>2, <2>1, Induction
<1> QED
  BY <1>3

LEMMA TokensSum ==
  ASSUME NEW s \in Seq(Entry)
  PROVE  \E g : Sums(s, Len(s), g) /\ Tokens(s) = g[Len(s)]
<1> DEFINE Def(f) == [n \in 0 .. Len(s) |-> IF n = 0 THEN 0 ELSE f[n - 1] + s[n].tokens]
           h == CHOOSE f : f = Def(f)
<1>1. PICK g : Sums(s, Len(s), g)
  BY SumsExist
<1>2. g = Def(g)
  BY <1>1 DEF Sums
<1>3. h = Def(h)
  BY <1>2
<1>4. Tokens(s) = h[Len(s)]
  BY DEF Tokens
<1> HIDE DEF h
<1> DEFINE S == {n \in Nat : n <= Len(s) => h[n] = g[n]}
<1>5. 0 \in S
  BY <1>1, <1>3 DEF Sums
<1>6. ASSUME NEW n \in S PROVE n + 1 \in S
  <2> SUFFICES ASSUME n + 1 <= Len(s) PROVE h[n + 1] = g[n + 1]
    OBVIOUS
  <2>1. h[n + 1] = h[n] + s[n + 1].tokens
    BY <1>3
  <2>2. g[n + 1] = g[n] + s[n + 1].tokens
    BY <1>2
  <2> QED
    BY <2>1, <2>2
<1>7. Len(s) \in S
  <2>1. S \in SUBSET Nat
    OBVIOUS
  <2> HIDE DEF S
  <2> QED
    BY <1>5, <1>6, <2>1, Induction
<1> QED
  BY <1>1, <1>4, <1>7

\* The tokens of entries of at most c each, the first of at most a.
LEMMA TokensBound ==
  ASSUME NEW s \in Seq(Entry), Len(s) >= 1, NEW a \in Nat, NEW c \in Nat,
         s[1].tokens <= a, \A i \in 2 .. Len(s) : s[i].tokens <= c
  PROVE  Tokens(s) \in Nat /\ Tokens(s) <= a + (Len(s) - 1) * c
<1>1. PICK g : Sums(s, Len(s), g) /\ Tokens(s) = g[Len(s)]
  BY TokensSum
<1>2. \A k \in 1 .. Len(s) : g[k] \in Nat /\ g[k - 1] \in Nat /\ s[k].tokens \in Nat
  <2>1. ASSUME NEW k \in 1 .. Len(s) PROVE g[k] \in Nat /\ g[k - 1] \in Nat
    <3>1. k \in 0 .. Len(s) /\ k - 1 \in 0 .. Len(s)
      OBVIOUS
    <3> QED
      BY <1>1, <3>1 DEF Sums
  <2>2. ASSUME NEW k \in 1 .. Len(s) PROVE s[k].tokens \in Nat
    <3>1. s[k] \in Entry
      OBVIOUS
    <3> QED
      BY <3>1 DEF Entry
  <2> QED
    BY <2>1, <2>2
<1> DEFINE S == {n \in Nat : n + 1 <= Len(s) => g[n + 1] <= a + n * c}
<1>3. 0 \in S
  <2>1. g[1] = g[0] + s[1].tokens /\ g[0] = 0
    BY <1>1 DEF Sums
  <2>2. s[1].tokens \in Nat
    BY <1>2
  <2>3. g[1] <= a + 0 * c
    BY <2>1, <2>2
  <2> QED
    BY <2>3
<1>4. ASSUME NEW n \in S PROVE n + 1 \in S
  <2> SUFFICES ASSUME (n + 1) + 1 <= Len(s) PROVE g[(n + 1) + 1] <= a + (n + 1) * c
    OBVIOUS
  <2>1. g[n + 1] <= a + n * c
    OBVIOUS
  <2>2. n + 2 \in 2 .. Len(s) /\ n + 2 \in 1 .. Len(s) /\ (n + 1) + 1 = n + 2
        /\ (n + 2) - 1 = n + 1
    OBVIOUS
  <2>3. g[n + 2] = g[n + 1] + s[n + 2].tokens /\ s[n + 2].tokens <= c
    BY <1>1, <2>2 DEF Sums
  <2>4. PICK x \in Nat, y \in Nat : x = g[n + 1] /\ y = s[n + 2].tokens
    BY <1>2, <2>2
  <2>5. (n + 1) * c = n * c + c
    OBVIOUS
  <2>6. PICK z \in Nat : z = n * c
    OBVIOUS
  <2>7. x <= a + z /\ y <= c
    BY <2>1, <2>3, <2>4, <2>6
  <2>8. x + y <= a + (z + c)
    BY <2>7
  <2> QED
    BY <2>2, <2>3, <2>4, <2>5, <2>6, <2>8
<1>5. Len(s) - 1 \in S
  <2>1. S \in SUBSET Nat /\ Len(s) - 1 \in Nat
    OBVIOUS
  <2> HIDE DEF S
  <2> QED
    BY <1>3, <1>4, <2>1, Induction
<1>6. (Len(s) - 1) + 1 = Len(s)
  OBVIOUS
<1> QED
  BY <1>1, <1>2, <1>5, <1>6

\* The cut of a sequence to a budget keeps a beginning of it: all of it when it
\* fits, and else what fits or the first alone.
LEMMA DropSome ==
  ASSUME NEW s \in Seq(Entry), Len(s) >= 1, NEW budget
  PROVE  \E n \in 1 .. Len(s) :
           /\ DropOldest(s, budget) = SubSeq(s, 1, n)
           /\ n = 1 \/ Tokens(SubSeq(s, 1, n)) <= budget
           /\ Tokens(s) <= budget => n = Len(s)
<1> DEFINE fits == {n \in 1 .. Len(s) : n = 1 \/ Tokens(SubSeq(s, 1, n)) <= budget}
           top == CHOOSE n \in fits : \A m \in fits : m <= n
           S == {Len(s) - n : n \in fits}
<1>1. 1 \in fits /\ Len(s) - 1 \in Nat
  OBVIOUS
<1>2. PICK k \in S : \A j \in S : k <= j
  <2>1. S \in SUBSET Nat /\ S # {}
    BY <1>1
  <2> HIDE DEF S
  <2> QED
    BY <2>1, Smallest
<1>3. PICK n \in fits : k = Len(s) - n
  BY <1>2
<1>4. \A m \in fits : m <= n
  <2> SUFFICES ASSUME NEW m \in fits PROVE m <= n
    OBVIOUS
  <2>1. Len(s) - n <= Len(s) - m
    BY <1>2, <1>3
  <2> QED
    BY <2>1
<1>5. PICK t : t = top /\ t \in fits /\ \A m \in fits : m <= t
  BY <1>4
<1>6. DropOldest(s, budget) = SubSeq(s, 1, t)
  BY <1>5 DEF DropOldest
<1> HIDE DEF top
<1>7. Tokens(s) <= budget => t = Len(s)
  <2> SUFFICES ASSUME Tokens(s) <= budget PROVE t = Len(s)
    OBVIOUS
  <2>1. SubSeq(s, 1, Len(s)) = s /\ Len(s) \in 1 .. Len(s)
    OBVIOUS
  <2>2. Len(s) \in fits
    BY <2>1
  <2>3. Len(s) <= t /\ t \in 1 .. Len(s)
    BY <1>5, <2>2
  <2> HIDE DEF fits
  <2> QED
    BY <2>3
<1> QED
  BY <1>5, <1>6, <1>7

Short(s) == \A i \in DOMAIN s : s[i].head = {}
Plain(s) == \A i \in DOMAIN s : s[i].head \cup s[i].below = {}

\* One entry, cut to a cap that has room for its date and its id.
LEMMA CutKeeps ==
  ASSUME NEW e \in Entry, NEW cap \in Nat, HeadTokens <= cap
  PROVE  /\ Cut(e, cap) \in Entry /\ Cut(e, cap).id = e.id
         /\ Cut(e, cap).head = e.head
         /\ e.head = {} => Cut(e, cap).tokens <= cap
<1>1. /\ HeadTokens \in Nat /\ NoteTokens \in Nat
      /\ e.tokens \in Nat /\ Uncut(e) \in Nat /\ (e.head = {} => Uncut(e) = HeadTokens)
  BY BudgetAssumption DEF Entry, Uncut
<1>2. PICK t \in Nat : t = Greatest(cap, Uncut(e)) /\ (e.head = {} => t <= cap)
  BY <1>1 DEF Greatest
<1>3. CASE e.tokens <= cap
  BY <1>3 DEF Cut
<1>4. CASE ~(e.tokens <= cap)
  <2>1. Cut(e, cap) = [e EXCEPT !.tokens = t, !.below = {}]
    BY <1>2, <1>4 DEF Cut
  <2> QED
    BY <1>2, <2>1 DEF Entry
<1> QED
  BY <1>3, <1>4

LEMMA CapTokensKeeps ==
  ASSUME NEW s \in Seq(Entry), NEW cap \in Nat, HeadTokens <= cap
  PROVE  /\ CapTokens(s, cap) \in Seq(Entry) /\ Len(CapTokens(s, cap)) = Len(s)
         /\ \A i \in 1 .. Len(s) :
              /\ CapTokens(s, cap)[i].id = s[i].id
              /\ CapTokens(s, cap)[i].head = s[i].head
              /\ s[i].head = {} => CapTokens(s, cap)[i].tokens <= cap
<1> DEFINE e(i) == Cut(s[i], cap)
<1>1. ASSUME NEW i \in 1 .. Len(s)
      PROVE  /\ e(i) \in Entry /\ e(i).id = s[i].id /\ e(i).head = s[i].head
             /\ s[i].head = {} => e(i).tokens <= cap
  <2>1. s[i] \in Entry
    OBVIOUS
  <2> QED
    BY <2>1, CutKeeps
<1>2. CapTokens(s, cap) = [i \in 1 .. Len(s) |-> e(i)]
  BY DEF CapTokens
<1> HIDE DEF e
<1>3. [i \in 1 .. Len(s) |-> e(i)] \in Seq(Entry) /\ Len([i \in 1 .. Len(s) |-> e(i)]) = Len(s)
  BY <1>1
<1> QED
  BY <1>1, <1>2, <1>3

LEMMA CompressedKeeps ==
  ASSUME NEW s \in Seq(Entry)
  PROVE  /\ Compressed(s) \in Seq(Entry) /\ Len(Compressed(s)) = Len(s)
         /\ \A i \in 1 .. Len(s) :
              /\ Compressed(s)[i].id = s[i].id /\ Compressed(s)[i].head = s[i].head
              /\ s[i].head = {} => Compressed(s)[i].tokens <= CompressedCeiling
<1> DEFINE e(i) == [s[i] EXCEPT
                      !.tokens = Least(@, Greatest(CompressedCeiling, Uncut(s[i]))),
                      !.below = {}]
<1>1. ASSUME NEW i \in 1 .. Len(s)
      PROVE  /\ e(i) \in Entry /\ e(i).id = s[i].id /\ e(i).head = s[i].head
             /\ s[i].head = {} => e(i).tokens <= CompressedCeiling
  <2>1. PICK x \in Entry : x = s[i]
    OBVIOUS
  <2>2. PICK c \in Nat : c = CompressedCeiling /\ HeadTokens \in Nat /\ HeadTokens <= c
                         /\ NoteTokens \in Nat
    BY BudgetAssumption
  <2>3. PICK u \in Nat : u = Uncut(x) /\ (x.head = {} => u <= c)
    <3>1. CASE x.head = {}
      BY <2>2, <3>1 DEF Uncut
    <3>2. CASE x.head # {}
      <4>1. HeadTokens + NoteTokens \in Nat
        BY <2>2
      <4> QED
        BY <3>2, <4>1 DEF Uncut
    <3> QED
      BY <3>1, <3>2
  <2>4. PICK g \in Nat : g = Greatest(c, u) /\ (x.head = {} => g <= c)
    BY <2>2, <2>3 DEF Greatest
  <2>5. PICK t \in Nat : t = Least(x.tokens, g) /\ t <= g
    BY <2>4 DEF Entry, Least
  <2>6. PICK y : y = [x EXCEPT !.tokens = t, !.below = {}]
    OBVIOUS
  <2>7. e(i) = y
    BY <2>1, <2>2, <2>3, <2>4, <2>5, <2>6
  <2>8. y \in Entry /\ y.id = x.id /\ y.head = x.head /\ y.tokens = t
    BY <2>6 DEF Entry
  <2> HIDE DEF e
  <2> QED
    BY <2>1, <2>2, <2>4, <2>5, <2>7, <2>8
<1>2. Compressed(s) = [i \in 1 .. Len(s) |-> e(i)]
  BY DEF Compressed
<1> HIDE DEF e
<1>3. [i \in 1 .. Len(s) |-> e(i)] \in Seq(Entry) /\ Len([i \in 1 .. Len(s) |-> e(i)]) = Len(s)
  BY <1>1
<1> QED
  BY <1>1, <1>2, <1>3

LEMMA NewestKeeps ==
  ASSUME NEW S, NEW s \in Seq(S)
  PROVE  /\ Newest(s) \in Seq(S) /\ Len(Newest(s)) = Least(MaxMemories, Len(s))
         /\ \A i \in 1 .. Len(Newest(s)) : i <= Len(s) /\ Newest(s)[i] = s[i]
<1>1. PICK n \in Nat : n = Least(MaxMemories, Len(s)) /\ n <= Len(s)
  BY BudgetAssumption DEF Least
<1>2. Newest(s) = SubSeq(s, 1, n)
  BY <1>1 DEF Newest
<1> QED
  BY <1>1, <1>2

\* The share of one entry has room for its date and its id.
LEMMA CeilingType ==
  ASSUME NEW section \in Sections
  PROVE  /\ Ceiling(section) \in Nat /\ HeadTokens <= Ceiling(section)
         /\ Ceiling(section) <= TokenBudget[section]
<1>1. PICK m \in Nat, c \in Nat, h \in Nat :
        /\ m = MaxMemories /\ c = CompressedCeiling /\ h = HeadTokens /\ m >= 1 /\ h <= c
  BY BudgetAssumption
<1>2. CASE section = "working"
  <2>1. PICK b \in Nat : b = TokenBudget["working"] /\ m * c <= b
    BY <1>1, BudgetAssumption DEF Sections
  <2>2. PICK x \in Nat : x = (m - 1) * c /\ x + c = m * c
    <3>1. (m - 1) * c \in Nat /\ (m - 1) * c + c = m * c
      BY <1>1
    <3> QED
      BY <3>1
  <2>3. c <= b - x /\ b - x <= b /\ b - x \in Nat
    BY <2>1, <2>2
  <2>4. Ceiling(section) = b - x
    BY <1>1, <1>2, <2>1, <2>2 DEF Ceiling
  <2> QED
    BY <1>1, <1>2, <2>1, <2>3, <2>4
<1>3. CASE section = "retrieved"
  <2>1. PICK b \in Nat : b = TokenBudget["retrieved"] /\ m * h <= b
    BY <1>1, BudgetAssumption DEF Sections
  <2>2. PICK q \in Nat : q = b \div m
    BY <1>1, <2>1
  <2>3. q <= b /\ b < m * (q + 1)
    BY <1>1, <2>1, <2>2
  <2>4. h <= q
    <3> SUFFICES ASSUME h >= q + 1 PROVE FALSE
      OBVIOUS
    <3>1. m * (q + 1) <= m * h
      BY <1>1
    <3>2. PICK x \in Nat, y \in Nat : x = m * (q + 1) /\ y = m * h
      OBVIOUS
    <3> QED
      BY <2>1, <2>3, <3>1, <3>2
  <2> QED
    BY <1>1, <1>3, <2>1, <2>2, <2>3, <2>4 DEF Ceiling
<1> QED
  BY <1>2, <1>3 DEF Sections

\* Entries cut to fit, before the oldest are dropped: the first in a tokens, the
\* others in k each.
LEMMA DropFits ==
  ASSUME NEW all \in Seq(Entry), Len(all) >= 1,
         NEW a \in Nat, NEW k \in Nat, NEW b \in Nat,
         a <= b, a + (Len(all) - 1) * k <= b,
         all[1].head = {} => all[1].tokens <= a,
         \A i \in 2 .. Len(all) : all[i].head = {} => all[i].tokens <= k
  PROVE  \E new \in Seq(Entry) :
           /\ new = DropOldest(all, b) /\ Len(new) >= 1 /\ Len(new) <= Len(all)
           /\ \A i \in 1 .. Len(new) : new[i] = all[i]
           /\ Plain(new) => Tokens(new) <= b
           /\ Short(all) => Len(new) = Len(all)
<1>1. PICK l \in 1 .. Len(all) :
        /\ DropOldest(all, b) = SubSeq(all, 1, l)
        /\ l = 1 \/ Tokens(SubSeq(all, 1, l)) <= b
        /\ Tokens(all) <= b => l = Len(all)
  BY DropSome
<1>2. PICK new : new = SubSeq(all, 1, l)
  OBVIOUS
<1>3. new \in Seq(Entry) /\ Len(new) = l /\ \A i \in 1 .. l : new[i] = all[i]
  BY <1>2
<1>4. Plain(new) => Tokens(new) <= b
  <2> SUFFICES ASSUME Plain(new), l = 1 PROVE Tokens(new) <= b
    BY <1>1, <1>2
  <2>1. 1 \in DOMAIN new /\ new[1] = all[1]
    BY <1>3
  <2>2. new[1].head = {}
    BY <2>1 DEF Plain
  <2>3. new[1].tokens <= a /\ Len(new) = 1
    BY <1>3, <2>1, <2>2
  <2>4. \A i \in 2 .. Len(new) : new[i].tokens <= 0
    BY <2>3
  <2>5. Len(new) >= 1 /\ 0 \in Nat
    BY <2>3
  <2>6. Tokens(new) \in Nat /\ Tokens(new) <= a + (Len(new) - 1) * 0
    BY <1>3, <2>3, <2>4, <2>5, TokensBound
  <2> QED
    BY <2>3, <2>6
<1>5. Short(all) => l = Len(all)
  <2> SUFFICES ASSUME Short(all) PROVE Tokens(all) <= b
    BY <1>1
  <2>1. \A i \in 1 .. Len(all) : all[i].head = {}
    BY DEF Short
  <2>2. all[1].tokens <= a /\ \A i \in 2 .. Len(all) : all[i].tokens <= k
    BY <2>1
  <2>3. Tokens(all) \in Nat /\ Tokens(all) <= a + (Len(all) - 1) * k
    BY <2>2, TokensBound
  <2>4. PICK x \in Nat, t \in Nat : x = (Len(all) - 1) * k /\ t = Tokens(all)
    BY <2>3
  <2>5. t <= a + x /\ a + x <= b
    BY <2>3, <2>4
  <2> QED
    BY <2>4, <2>5
<1>6. new \in Seq(Entry)
  BY <1>3
<1> WITNESS new \in Seq(Entry)
<1>7. new = DropOldest(all, b) /\ Len(new) >= 1 /\ Len(new) <= Len(all)
  BY <1>1, <1>2, <1>3
<1> QED
  BY <1>3, <1>4, <1>5, <1>7

\* What is shown of entries, the newest first.  All there is room for, unless the
\* head of one is longer than the plugin makes it; never without the first; and
\* within the budget, unless it holds text of users.
Fits(section, entries, new) ==
  /\ new \in Seq(Entry) /\ Len(new) >= 1
  /\ Len(new) <= Least(MaxMemories, Len(entries))
  /\ \A i \in 1 .. Len(new) : /\ i <= Len(entries)
                              /\ new[i].id = entries[i].id
                              /\ new[i].head = entries[i].head
  /\ Plain(new) => Tokens(new) <= TokenBudget[section]
  /\ Short(entries) => Len(new) = Least(MaxMemories, Len(entries))

LEMMA FitKeeps ==
  ASSUME NEW section \in Sections, NEW entries \in Seq(Entry), Len(entries) >= 1
  PROVE  Fits(section, entries, Fit(section, entries))
<1> DEFINE first == Newest(entries)
<1>1. /\ first \in Seq(Entry) /\ Len(first) = Least(MaxMemories, Len(entries))
      /\ \A i \in 1 .. Len(first) : i <= Len(entries) /\ first[i] = entries[i]
  BY NewestKeeps
<1>2. Len(first) \in Nat /\ Len(first) >= 1 /\ Len(first) <= MaxMemories
  BY <1>1, BudgetAssumption DEF Least
<1>3. PICK a \in Nat : /\ a = Ceiling(section) /\ HeadTokens <= a
                       /\ a <= TokenBudget[section]
  BY CeilingType
<1> HIDE DEF first
<1>4. PICK cut : cut = CapTokens(first, a)
  OBVIOUS
<1>5. /\ cut \in Seq(Entry) /\ Len(cut) = Len(first)
      /\ \A i \in 1 .. Len(first) :
           /\ cut[i].id = first[i].id /\ cut[i].head = first[i].head
           /\ first[i].head = {} => cut[i].tokens <= a
  BY <1>1, <1>3, <1>4, CapTokensKeeps
<1>6. PICK m \in Nat, c \in Nat, b \in Nat, n \in Nat :
        /\ m = MaxMemories /\ c = CompressedCeiling /\ b = TokenBudget[section]
        /\ n = Len(cut)
  BY <1>2, <1>5, BudgetAssumption
<1>7. m >= 1 /\ n >= 1 /\ n <= m /\ a <= b /\ n = Least(MaxMemories, Len(entries))
  BY <1>1, <1>2, <1>3, <1>5, <1>6
<1>8. \A i \in 1 .. n : /\ i <= Len(entries) /\ cut[i].id = entries[i].id
                        /\ cut[i].head = entries[i].head
                        /\ cut[i].head = {} => cut[i].tokens <= a
  BY <1>1, <1>5, <1>6
<1>9. Short(entries) <=> \A i \in DOMAIN entries : entries[i].head = {}
  BY DEF Short
<1>10. CASE Tokens(cut) <= b
  <2>1. Fit(section, entries) = cut
    BY <1>3, <1>4, <1>6, <1>10 DEF Fit, first
  <2>2. Fits(section, entries, cut)
    BY <1>5, <1>6, <1>7, <1>8, <1>10 DEF Fits
  <2> QED
    BY <2>1, <2>2
<1>11. ASSUME NEW all \in Seq(Entry), NEW k \in Nat, Len(all) = n,
              Fit(section, entries) = DropOldest(all, b),
              \A i \in 1 .. n : all[i].id = cut[i].id /\ all[i].head = cut[i].head,
              all[1] = cut[1],
              \A i \in 2 .. n : cut[i].head = {} => all[i].tokens <= k,
              a + (n - 1) * k <= b
       PROVE  Fits(section, entries, Fit(section, entries))
  <2>1. all[1].head = {} => all[1].tokens <= a
    <3>1. 1 \in 1 .. n
      BY <1>7
    <3> QED
      BY <1>8, <1>11, <3>1
  <2>2. \A i \in 2 .. Len(all) : all[i].head = {} => all[i].tokens <= k
    <3> TAKE i \in 2 .. Len(all)
    <3>1. i \in 2 .. n /\ i \in 1 .. n
      BY <1>11
    <3> QED
      BY <1>11, <3>1
  <2>3. a + (Len(all) - 1) * k <= b /\ Len(all) >= 1
    BY <1>7, <1>11
  <2>4. PICK new \in Seq(Entry) :
          /\ new = DropOldest(all, b) /\ Len(new) >= 1 /\ Len(new) <= n
          /\ \A i \in 1 .. Len(new) : new[i] = all[i]
          /\ Plain(new) => Tokens(new) <= b
          /\ Short(all) => Len(new) = n
    <3>1. a <= b /\ a \in Nat /\ b \in Nat /\ k \in Nat /\ all \in Seq(Entry)
      BY <1>3, <1>6, <1>7, <1>11
    <3>2. \E new \in Seq(Entry) :
            /\ new = DropOldest(all, b) /\ Len(new) >= 1 /\ Len(new) <= Len(all)
            /\ \A i \in 1 .. Len(new) : new[i] = all[i]
            /\ Plain(new) => Tokens(new) <= b
            /\ Short(all) => Len(new) = Len(all)
      BY <2>1, <2>2, <2>3, <3>1, DropFits
    <3> QED
      BY <1>11, <3>2
  <2>5. \A i \in 1 .. Len(new) : /\ i <= Len(entries) /\ new[i].id = entries[i].id
                                 /\ new[i].head = entries[i].head
    <3> TAKE i \in 1 .. Len(new)
    <3>1. i \in 1 .. n
      BY <2>4
    <3> QED
      BY <1>8, <1>11, <2>4, <3>1
  <2>6. Short(entries) => Short(all)
    <3> SUFFICES ASSUME Short(entries), NEW i \in DOMAIN all PROVE all[i].head = {}
      BY DEF Short
    <3>1. i \in 1 .. n /\ i \in DOMAIN entries
      BY <1>8, <1>11
    <3> QED
      BY <1>8, <1>9, <1>11, <3>1
  <2>7. Fits(section, entries, new)
    BY <1>6, <1>7, <2>4, <2>5, <2>6 DEF Fits
  <2> QED
    BY <1>11, <2>4, <2>7
<1>12. CASE ~(Tokens(cut) <= b) /\ section = "retrieved"
  <2>1. Fit(section, entries) = DropOldest(cut, b)
    BY <1>3, <1>4, <1>6, <1>12 DEF Fit, first
  <2>2. a = b \div m
    BY <1>3, <1>6, <1>12 DEF Ceiling
  <2>3. m * a <= b
    BY <1>7, <2>2
  <2>4. n * a <= m * a
    BY <1>7
  <2>5. a + (n - 1) * a = n * a
    OBVIOUS
  <2>6. PICK x \in Nat, y \in Nat : x = n * a /\ y = m * a
    OBVIOUS
  <2>7. a + (n - 1) * a <= b
    <3>1. x <= y /\ y <= b /\ a + (n - 1) * a = x
      BY <2>3, <2>4, <2>5, <2>6
    <3> QED
      BY <3>1
  <2>8. \A i \in 2 .. n : cut[i].head = {} => cut[i].tokens <= a
    BY <1>8
  <2> QED
    BY <1>5, <1>6, <1>11, <2>1, <2>7, <2>8
<1>13. CASE ~(Tokens(cut) <= b) /\ section = "working"
  <2>1. /\ Tail(cut) \in Seq(Entry) /\ Len(Tail(cut)) = n - 1 /\ cut[1] \in Entry
        /\ Head(cut) = cut[1] /\ \A i \in 1 .. n - 1 : Tail(cut)[i] = cut[i + 1]
    BY <1>5, <1>6, <1>7
  <2>2. PICK rest : rest = Compressed(Tail(cut))
    OBVIOUS
  <2>3. /\ rest \in Seq(Entry) /\ Len(rest) = n - 1
        /\ \A i \in 1 .. n - 1 : /\ rest[i].id = cut[i + 1].id
                                 /\ rest[i].head = cut[i + 1].head
                                 /\ cut[i + 1].head = {} => rest[i].tokens <= c
    <3>1. /\ rest \in Seq(Entry) /\ Len(rest) = Len(Tail(cut))
          /\ \A i \in 1 .. Len(Tail(cut)) :
               /\ rest[i].id = Tail(cut)[i].id /\ rest[i].head = Tail(cut)[i].head
               /\ Tail(cut)[i].head = {} => rest[i].tokens <= c
      BY <1>6, <2>1, <2>2, CompressedKeeps
    <3> QED
      BY <2>1, <3>1
  <2>4. PICK all : all = <<cut[1]>> \o rest
    OBVIOUS
  <2>5. Fit(section, entries) = DropOldest(all, b)
    BY <1>3, <1>4, <1>6, <1>13, <2>1, <2>2, <2>4 DEF Fit, first
  <2>6. /\ all \in Seq(Entry) /\ Len(all) = n /\ all[1] = cut[1]
        /\ \A i \in 2 .. n : all[i] = rest[i - 1]
    BY <1>7, <2>1, <2>3, <2>4
  <2>7. \A i \in 2 .. n : /\ all[i].id = cut[i].id /\ all[i].head = cut[i].head
                          /\ cut[i].head = {} => all[i].tokens <= c
    <3> TAKE i \in 2 .. n
    <3>1. i - 1 \in 1 .. n - 1 /\ (i - 1) + 1 = i
      OBVIOUS
    <3> QED
      BY <2>3, <2>6, <3>1
  <2>8. \A i \in 1 .. n : all[i].id = cut[i].id /\ all[i].head = cut[i].head
    <3> TAKE i \in 1 .. n
    <3>1. i = 1 \/ i \in 2 .. n
      OBVIOUS
    <3> QED
      BY <2>6, <2>7, <3>1
  <2>9. a = b - (m - 1) * c
    BY <1>3, <1>6, <1>13 DEF Ceiling
  <2>10. (n - 1) * c <= (m - 1) * c
    BY <1>7
  <2>11. PICK x \in Nat, y \in Nat : x = (n - 1) * c /\ y = (m - 1) * c
    <3>1. (n - 1) * c \in Nat /\ (m - 1) * c \in Nat
      BY <1>7
    <3> QED
      BY <3>1
  <2>12. a + (n - 1) * c <= b
    BY <2>9, <2>10, <2>11
  <2>13. \A i \in 2 .. n : cut[i].head = {} => all[i].tokens <= c
    BY <2>7
  <2> QED
    BY <1>11, <2>5, <2>6, <2>8, <2>12, <2>13
<1> QED
  BY <1>10, <1>12, <1>13 DEF Sections


-----------------------------------------------------------------------------
(* Contents. *)

\* A content with its memories as they have to be; a file that is not there
\* holds nothing.
DocOK(d) ==
  /\ d \in Doc
  /\ \A s \in Sections :
       /\ Len(d.shown[s]) <= MaxMemories
       /\ Plain(d.shown[s]) => Tokens(d.shown[s]) <= TokenBudget[s]
  /\ ~d.exists => /\ Written(d) = {} /\ ~d.block
                  /\ \A s \in Sections : d.shown[s] = <<>>

LEMMA TokensEmpty == Tokens(<<>>) = 0
<1>1. <<>> \in Seq(Entry) /\ Len(<<>>) = 0
  OBVIOUS
<1>2. PICK g : Sums(<<>>, Len(<<>>), g) /\ Tokens(<<>>) = g[Len(<<>>)]
  BY <1>1, TokensSum
<1> QED
  BY <1>1, <1>2 DEF Sums

LEMMA IdsType ==
  ASSUME NEW s \in Seq(Entry)
  PROVE  /\ Ids(s) \in Seq(Nat) /\ Len(Ids(s)) = Len(s)
         /\ \A i \in 1 .. Len(s) : Ids(s)[i] = s[i].id
<1>1. \A i \in 1 .. Len(s) : s[i].id \in Nat
  <2>1. \A i \in 1 .. Len(s) : s[i] \in Entry
    OBVIOUS
  <2> QED
    BY <2>1 DEF Entry
<1>2. Ids(s) = [i \in 1 .. Len(s) |-> s[i].id]
  BY DEF Ids
<1> QED
  BY <1>1, <1>2

LEMMA EntriesType ==
  ASSUME NEW ids \in Seq(Nat), NEW sizes \in [DOMAIN ids -> Sizes]
  PROVE  /\ Entries(ids, sizes) \in Seq(Entry) /\ Len(Entries(ids, sizes)) = Len(ids)
         /\ \A i \in 1 .. Len(ids) : /\ Entries(ids, sizes)[i].id = ids[i]
                                     /\ Entries(ids, sizes)[i].head = {}
<1> DEFINE e(i) == [id |-> ids[i], tokens |-> sizes[i], head |-> {}, below |-> {}]
<1>1. \A i \in 1 .. Len(ids) : e(i) \in Entry /\ e(i).id = ids[i] /\ e(i).head = {}
  <2> TAKE i \in 1 .. Len(ids)
  <2>1. ids[i] \in Nat /\ i \in DOMAIN ids
    OBVIOUS
  <2>2. sizes[i] \in Sizes
    BY <2>1
  <2> QED
    BY <2>1, <2>2, SizesAssumption DEF Entry
<1>2. Entries(ids, sizes) = [i \in 1 .. Len(ids) |-> e(i)]
  BY DEF Entries
<1> HIDE DEF e
<1>3. /\ [i \in 1 .. Len(ids) |-> e(i)] \in Seq(Entry)
      /\ Len([i \in 1 .. Len(ids) |-> e(i)]) = Len(ids)
  BY <1>1
<1> QED
  BY <1>1, <1>2, <1>3

\* What users wrote in one content is in another one, or in x, when each part of it is.
LEMMA WrittenParts ==
  ASSUME NEW d, NEW n, NEW x, d.text \subseteq n.text \cup x,
         d.pins \subseteq n.pins \cup x,
         \A s \in Sections \cup {"session"} : Inside(s, d) \subseteq Inside(s, n) \cup x
  PROVE  Written(d) \subseteq Written(n) \cup x
<1> SUFFICES ASSUME NEW w \in Written(d), w \notin x PROVE w \in Written(n)
  OBVIOUS
<1>1. CASE w \in d.text \cup d.pins
  BY <1>1 DEF Written
<1>2. CASE \E s \in Sections \cup {"session"} : w \in Inside(s, d)
  BY <1>2 DEF Written
<1> QED
  BY <1>1, <1>2 DEF Written

\* A part that is the same holds the same.
LEMMA InsideSame ==
  ASSUME NEW d, NEW n
  PROVE  /\ d.inblock = n.inblock => Inside("session", d) = Inside("session", n)
         /\ \A s \in Sections :
              (d.above[s] = n.above[s] /\ d.shown[s] = n.shown[s])
                 => Inside(s, d) = Inside(s, n)
<1>1. Inside("session", d) = d.inblock /\ Inside("session", n) = n.inblock
  BY DEF Inside
<1>2. ASSUME NEW s \in Sections, d.above[s] = n.above[s], d.shown[s] = n.shown[s]
      PROVE  Inside(s, d) = Inside(s, n)
  <2>1. SectionOf(s) = s /\ s # "session" /\ s \in Memorial
    BY DEF SectionOf, Sections, Memorial
  <2> QED
    BY <1>2, <2>1 DEF Inside
<1> QED
  BY <1>1, <1>2

\* What stands in a part of a file was written by users.
LEMMA WrittenType ==
  ASSUME NEW d \in Doc
  PROVE  /\ Written(d) \subseteq Notes
         /\ \A o \in Ops : Inside(o, d) \subseteq Notes
<1>1. /\ d.text \subseteq Notes /\ d.pins \subseteq Notes /\ d.inblock \subseteq Notes
      /\ d.above \in [Sections -> SUBSET Notes] /\ d.shown \in [Sections -> Seq(Entry)]
  BY DEF Doc
<1>2. ASSUME NEW s \in Sections
      PROVE  d.above[s] \cup UNION {d.shown[s][i].head \cup d.shown[s][i].below :
                                      i \in DOMAIN d.shown[s]} \subseteq Notes
  <2>1. \A i \in DOMAIN d.shown[s] : d.shown[s][i] \in Entry
    BY <1>1
  <2>2. \A i \in DOMAIN d.shown[s] :
          d.shown[s][i].head \cup d.shown[s][i].below \subseteq Notes
    BY <2>1 DEF Entry
  <2> QED
    BY <1>1, <2>2
<1>3. \A o \in Ops \cup Sections : Inside(o, d) \subseteq Notes
  <2> TAKE o \in Ops \cup Sections
  <2>1. o \in Memorial => SectionOf(o) \in Sections
    BY DEF Memorial, SectionOf, Sections
  <2> QED
    BY <1>1, <1>2, <2>1 DEF Inside
<1>4. \A o \in Sections \cup {"session"} : Inside(o, d) \subseteq Notes
  BY <1>3 DEF Ops, Creating
<1> QED
  BY <1>1, <1>3, <1>4 DEF Written

LEMMA EmptyContent ==
  ASSUME NEW d, d.text = {}, d.pins = {}, d.inblock = {},
         \A s \in Sections : d.above[s] = {} /\ d.shown[s] = <<>>
  PROVE  Written(d) = {} /\ \A o \in Ops : Inside(o, d) = {}
<1>1. \A s \in Sections : DOMAIN d.shown[s] = {}
  OBVIOUS
<1>2. \A s \in Sections :
        d.above[s] \cup UNION {d.shown[s][i].head \cup d.shown[s][i].below :
                                 i \in DOMAIN d.shown[s]} = {}
  BY <1>1
<1>3. \A o \in Ops \cup Sections : Inside(o, d) = {}
  <2> TAKE o \in Ops \cup Sections
  <2>1. o \in Memorial => SectionOf(o) \in Sections
    BY DEF Memorial, SectionOf, Sections
  <2> QED
    BY <1>2, <2>1 DEF Inside
<1>4. \A o \in Sections \cup {"session"} : Inside(o, d) = {}
  BY <1>3 DEF Ops, Creating
<1> QED
  BY <1>3, <1>4 DEF Written

LEMMA NoFileOK ==
  /\ NoFile \in Doc /\ DocOK(NoFile) /\ Created \in Doc /\ DocOK(Created)
  /\ Written(NoFile) = {} /\ Written(Created) = {} /\ Created.exists
  /\ \A ns \in SUBSET Notes : /\ Old(ns) \in Doc /\ DocOK(Old(ns))
                              /\ ns \subseteq Written(Old(ns))
                              /\ \A s \in Sections : Old(ns).shown[s] = <<>>
<1>1. <<>> \in Seq(Entry) /\ Len(<<>>) = 0
  OBVIOUS
<1>2. [s \in Sections |-> <<>>] \in [Sections -> Seq(Entry)]
  BY <1>1
<1>3. NoFile \in Doc /\ ~NoFile.exists /\ ~NoFile.block
  BY <1>2 DEF NoFile, Doc
<1>4. Created \in Doc /\ Created.exists
  BY <1>3 DEF Created, Doc
<1>5. \A s \in Sections :
        /\ NoFile.shown[s] = <<>> /\ Created.shown[s] = <<>>
        /\ NoFile.above[s] = {} /\ Created.above[s] = {}
  BY DEF NoFile, Created
<1>6. \A s \in Sections : 0 <= MaxMemories /\ 0 <= TokenBudget[s]
  BY BudgetAssumption
<1>7. Written(NoFile) = {} /\ Written(Created) = {}
  <2>1. /\ NoFile.text = {} /\ NoFile.pins = {} /\ NoFile.inblock = {}
        /\ Created.text = {} /\ Created.pins = {} /\ Created.inblock = {}
    BY DEF NoFile, Created
  <2> QED
    BY <1>5, <2>1, EmptyContent
<1>8. DocOK(NoFile) /\ DocOK(Created)
  BY <1>1, <1>3, <1>4, <1>5, <1>6, <1>7, TokensEmpty DEF DocOK
<1>9. ASSUME NEW ns \in SUBSET Notes, ns # {}
      PROVE  /\ Old(ns) \in Doc /\ DocOK(Old(ns)) /\ ns \subseteq Written(Old(ns))
             /\ \A s \in Sections : Old(ns).shown[s] = <<>>
  <2>1. PICK d : d = [NoFile EXCEPT !.exists = TRUE, !.pins = ns] /\ d = Old(ns)
    BY <1>9 DEF Old
  <2>2. d \in Doc /\ d.exists /\ d.shown = NoFile.shown /\ d.pins = ns
    BY <1>3, <2>1 DEF Doc
  <2>3. DocOK(d)
    BY <1>1, <1>5, <1>6, <2>2, TokensEmpty DEF DocOK
  <2> QED
    BY <1>5, <2>1, <2>2, <2>3 DEF Written
<1>10. Old({}) = NoFile
  BY DEF Old
<1> QED
  BY <1>3, <1>4, <1>5, <1>7, <1>8, <1>9, <1>10

\* The memories that an operation finds room for, when it came with those of m.
Given(o, m, d) == IF o = "project" THEN m ELSE m \o d.shown[o]

\* An operation leaves what users wrote, but for the part that it rebuilds, and the
\* memories, but for the section that it rebuilds.
Makes(o, m, d, n) ==
  /\ DocOK(n) /\ n.exists
  /\ Written(d) \subseteq Written(n) \cup Inside(o, d)
  /\ \A s \in Sections :
       IF o \in Memorial /\ s = SectionOf(o)
       THEN n.shown[s] = Fit(s, Given(o, m, d))
       ELSE n.shown[s] = d.shown[s]

\* One that leaves the memories.
LEMMA ShownKept ==
  ASSUME NEW o \in Ops \ Memorial, NEW m, NEW d, DocOK(d), NEW n \in Doc, n.exists,
         n.shown = d.shown, n.above = d.above, n.text = d.text, n.pins = d.pins,
         o = "session" \/ n.inblock = d.inblock
  PROVE  Makes(o, m, d, n)
<1>1. \A s \in Sections : Inside(s, d) = Inside(s, n)
  BY InsideSame
<1>2. Inside("session", d) \subseteq Inside("session", n) \cup Inside(o, d)
  BY InsideSame DEF Inside
<1>3. \A s \in Sections \cup {"session"} : Inside(s, d) \subseteq Inside(s, n) \cup Inside(o, d)
  BY <1>1, <1>2
<1>4. Written(d) \subseteq Written(n) \cup Inside(o, d)
  BY <1>3, WrittenParts
<1>5. DocOK(n)
  BY DEF DocOK
<1> QED
  BY <1>4, <1>5 DEF Makes

\* One that rebuilds a section.
LEMMA RebuiltOK ==
  ASSUME NEW o \in Memorial, NEW m \in Seq(Entry), Len(m) >= 1, NEW d, DocOK(d), d.exists
  PROVE  Makes(o, m, d, Rebuilt(SectionOf(o), Given(o, m, d), d))
<1> DEFINE s == SectionOf(o)
           given == Given(o, m, d)
           t == Fit(s, given)
<1>1. s \in Sections /\ d \in Doc
  BY DEF Memorial, SectionOf, Sections, DocOK
<1>2. /\ d.shown \in [Sections -> Seq(Entry)]
      /\ d.above \in [Sections -> SUBSET Notes]
  BY <1>1 DEF Doc
<1>3. given \in Seq(Entry) /\ Len(given) >= 1
  <2>1. CASE o = "project"
    BY <2>1 DEF Given
  <2>2. CASE o # "project"
    <3>1. o \in Sections
      BY <2>2 DEF Memorial
    <3>2. PICK sh \in Seq(Entry) : sh = d.shown[o]
      BY <1>2, <3>1
    <3>3. m \o sh \in Seq(Entry) /\ Len(m \o sh) >= 1
      OBVIOUS
    <3> QED
      BY <2>2, <3>2, <3>3 DEF Given
  <2> QED
    BY <2>1, <2>2
<1> HIDE DEF given
<1>4. Fits(s, given, t)
  BY <1>1, <1>3, FitKeeps
<1> HIDE DEF t, s
<1>5. t \in Seq(Entry) /\ Len(t) <= MaxMemories /\ (Plain(t) => Tokens(t) <= TokenBudget[s])
  <2>1. PICK k \in Nat : k = Len(given)
    BY <1>3
  <2>2. t \in Seq(Entry) /\ Len(t) <= Least(MaxMemories, k)
        /\ (Plain(t) => Tokens(t) <= TokenBudget[s])
    BY <1>4, <2>1 DEF Fits
  <2>3. Least(MaxMemories, k) <= MaxMemories /\ Least(MaxMemories, k) \in Nat
        /\ MaxMemories \in Nat
    BY <2>1, BudgetAssumption DEF Least
  <2> QED
    BY <2>2, <2>3
<1>6. PICK n : n = Rebuilt(s, given, d)
  OBVIOUS
<1>7. PICK sh, ab : sh = [d.shown EXCEPT ![s] = t] /\ ab = [d.above EXCEPT ![s] = {}]
  OBVIOUS
<1>8. n = [d EXCEPT !.shown = sh, !.above = ab]
  BY <1>6, <1>7 DEF Rebuilt, t
<1>9. sh \in [Sections -> Seq(Entry)] /\ ab \in [Sections -> SUBSET Notes]
  BY <1>1, <1>2, <1>5, <1>7
<1>10. /\ n \in Doc /\ n.exists /\ n.shown = sh /\ n.above = ab
       /\ n.text = d.text /\ n.pins = d.pins /\ n.inblock = d.inblock
  BY <1>1, <1>8, <1>9 DEF Doc
<1>11. n.shown[s] = t /\ \A r \in Sections \ {s} : n.shown[r] = d.shown[r]
                                                   /\ n.above[r] = d.above[r]
  BY <1>1, <1>2, <1>7, <1>10
<1>12. DocOK(n)
  BY <1>5, <1>10, <1>11 DEF DocOK
<1>13. Inside(s, d) = Inside(o, d)
  BY DEF Inside, s, SectionOf, Memorial, Sections
<1>14. \A r \in Sections \cup {"session"} :
         Inside(r, d) \subseteq Inside(r, n) \cup Inside(o, d)
  BY <1>10, <1>11, <1>13, InsideSame
<1>15. Written(d) \subseteq Written(n) \cup Inside(o, d)
  BY <1>10, <1>14, WrittenParts
<1>16. \A r \in Sections : IF o \in Memorial /\ r = SectionOf(o)
                           THEN n.shown[r] = Fit(r, Given(o, m, d))
                           ELSE n.shown[r] = d.shown[r]
  BY <1>11 DEF s, t, given
<1>17. Makes(o, m, d, n)
  BY <1>10, <1>12, <1>15, <1>16 DEF Makes
<1> QED
  BY <1>6, <1>17 DEF s, given

\* What an operation makes of a content it has reason to change.
LEMMA EffectOK ==
  ASSUME NEW o \in Ops, NEW m \in Seq(Entry), o \in Memorial => Len(m) >= 1,
         NEW d, DocOK(d), Wanted(o, d)
  PROVE  Makes(o, m, d, Effect(o, m, d))
<1>1. CASE o = "ensure"
  <2>1. Effect(o, m, d) = Created /\ ~d.exists /\ o \notin Memorial
    BY <1>1 DEF Effect, Wanted, Sections, Memorial
  <2>2. \A s \in Sections : Created.shown[s] = <<>> /\ d.shown[s] = <<>>
    BY <2>1 DEF Created, NoFile, DocOK
  <2>3. Written(d) = {}
    BY <2>1 DEF DocOK
  <2> QED
    BY <2>1, <2>2, <2>3, NoFileOK DEF Makes
<1>2. CASE o = "session" /\ d.exists
  <2>1. PICK n : n = [d EXCEPT !.session = TRUE, !.block = TRUE, !.inblock = {}]
    OBVIOUS
  <2>2. Effect(o, m, d) = n
    BY <1>2, <2>1 DEF Effect, Planned, Sections, SessionNamed
  <2>3. /\ n \in Doc /\ n.exists /\ n.shown = d.shown /\ n.above = d.above
        /\ n.text = d.text /\ n.pins = d.pins
    BY <1>2, <2>1 DEF Doc, DocOK
  <2> QED
    BY <1>2, <2>2, <2>3, ShownKept DEF Memorial, Sections
<1>3. CASE o = "session" /\ ~d.exists
  <2>1. PICK n : n = [Created EXCEPT !.session = TRUE, !.block = TRUE, !.inblock = {}]
    OBVIOUS
  <2>2. Effect(o, m, d) = n /\ o \notin Memorial
    BY <1>3, <2>1 DEF Effect, Planned, Sections, SessionNamed, Memorial
  <2>3. n \in Doc /\ n.exists /\ n.shown = Created.shown
    BY <2>1, NoFileOK DEF Doc
  <2>4. \A s \in Sections : n.shown[s] = <<>> /\ d.shown[s] = <<>>
    BY <1>3, <2>3 DEF Created, NoFile, DocOK
  <2>5. Written(d) = {} /\ DocOK(n)
    BY <1>3, <2>3, NoFileOK DEF DocOK
  <2> QED
    BY <2>2, <2>3, <2>4, <2>5 DEF Makes
<1>4. CASE o \in {"migrate", "staleness", "markers", "strip"}
  <2>1. PICK n : n = Effect(o, m, d)
    OBVIOUS
  <2>2. n \in {Migrated(d), Aged(d), Marked(d), Stripped(d)}
    BY <1>4, <2>1 DEF Effect, Sections
  <2>3. d.exists
    BY <1>4 DEF Wanted, SomeUnaged, Markable, Strippable, Memorial, Sections
  <2>4. /\ n \in Doc /\ n.exists /\ n.shown = d.shown /\ n.above = d.above
        /\ n.text = d.text /\ n.pins = d.pins /\ n.inblock = d.inblock
    BY <2>2, <2>3 DEF Migrated, Aged, Marked, Stripped, Doc, DocOK
  <2> QED
    BY <1>4, <2>1, <2>4, ShownKept DEF Memorial, Sections
<1>5. CASE o \in Memorial
  <2>1. d.exists
    BY <1>5 DEF Wanted, Memorial, Sections
  <2>2. Effect(o, m, d) = Rebuilt(SectionOf(o), Given(o, m, d), d)
    BY <1>5 DEF Effect, Memorial, Sections, Remembered, Projected, SectionOf, Given
  <2> QED
    BY <1>5, <2>1, <2>2, RebuiltOK
<1> QED
  BY <1>1, <1>2, <1>3, <1>4, <1>5 DEF Ops, Planned, Creating

-----------------------------------------------------------------------------
(* Memories that were written to a section, newest first, and what it shows. *)

\* It shows a beginning of rec, not without the first; when whole, all of it, and no
\* memory has a longer head than the plugin gave it.
Shows(shown, rec, whole) ==
  /\ Len(shown) <= Len(rec)
  /\ \A i \in 1 .. Len(shown) : shown[i].id = rec[i]
  /\ Len(rec) >= 1 => Len(shown) >= 1
  /\ whole => Len(shown) = Len(rec) /\ Short(shown)

LEMMA ShowsOwn ==
  ASSUME NEW s \in Seq(Entry), NEW whole, whole => Short(s)
  PROVE  Shows(s, Ids(s), whole)
BY IdsType DEF Shows

LEMMA ShowsNothing ==
  ASSUME NEW whole
  PROVE  Shows(<<>>, <<>>, whole)
BY DEF Shows, Short

\* Room is made for memories that were shown as they should.
LEMMA FitShown ==
  ASSUME NEW section \in Sections, NEW given \in Seq(Entry), Len(given) >= 1,
         NEW rec \in Seq(Nat), NEW whole, Shows(given, rec, whole)
  PROVE  Shows(Fit(section, given), Newest(rec), whole)
<1>1. PICK new : new = Fit(section, given) /\ Fits(section, given, new)
  BY FitKeeps
<1>2. PICK k \in Nat, l \in Nat, g \in Nat, r \in Nat :
        /\ k = MaxMemories /\ k >= 1 /\ l = Len(new) /\ g = Len(given) /\ r = Len(rec)
  <2>1. new \in Seq(Entry)
    BY <1>1 DEF Fits
  <2>2. Len(new) \in Nat /\ Len(given) \in Nat /\ Len(rec) \in Nat
    BY <2>1
  <2>3. MaxMemories \in Nat /\ MaxMemories >= 1
    BY BudgetAssumption
  <2> QED
    BY <2>2, <2>3
<1>3. PICK top \in Seq(Nat) : /\ top = Newest(rec) /\ Len(top) = Least(k, r)
                              /\ \A i \in 1 .. Len(top) : i <= r /\ top[i] = rec[i]
  BY <1>2, NewestKeeps
<1>4. /\ g <= r /\ (whole => g = r) /\ (whole => Short(given))
      /\ \A i \in 1 .. g : given[i].id = rec[i]
  BY <1>2 DEF Shows
<1>5. /\ new \in Seq(Entry) /\ l >= 1 /\ l <= Least(k, g)
      /\ \A i \in 1 .. l : /\ i <= g
                           /\ new[i].id = given[i].id
                           /\ new[i].head = given[i].head
      /\ Short(given) => l = Least(k, g)
  BY <1>1, <1>2 DEF Fits
<1>6. Least(k, g) <= Least(k, r)
  BY <1>2, <1>4 DEF Least
<1>7. l <= Len(top)
  <2>1. Least(k, g) \in Nat /\ Least(k, r) \in Nat
    BY DEF Least
  <2> QED
    BY <1>3, <1>5, <1>6, <2>1
<1>8. \A i \in 1 .. l : new[i].id = top[i]
  <2> TAKE i \in 1 .. l
  <2>1. i <= g
    BY <1>5
  <2>2. i \in 1 .. g
    BY <1>2, <2>1
  <2>3. i \in 1 .. Len(top)
    BY <1>2, <1>3, <1>7
  <2> QED
    BY <1>3, <1>4, <1>5, <2>2, <2>3
<1>9. whole => l = Len(top) /\ Short(new)
  <2> SUFFICES ASSUME whole PROVE l = Len(top) /\ Short(new)
    OBVIOUS
  <2>1. l = Len(top)
    BY <1>3, <1>4, <1>5
  <2>2. \A i \in 1 .. l : new[i].head = {}
    <3> TAKE i \in 1 .. l
    <3>1. i \in DOMAIN given /\ given[i].head = {}
      BY <1>2, <1>4, <1>5 DEF Short
    <3> QED
      BY <1>5, <3>1
  <2>3. DOMAIN new = 1 .. l
    BY <1>2, <1>5
  <2> QED
    BY <2>1, <2>2, <2>3 DEF Short
<1>10. Shows(new, top, whole)
  BY <1>2, <1>5, <1>7, <1>8, <1>9 DEF Shows
<1> QED
  BY <1>1, <1>3, <1>10

\* New memories before those that are shown as they should be.
LEMMA PutFirst ==
  ASSUME NEW ids \in Seq(Nat), Len(ids) >= 1, NEW m \in Seq(Entry), Len(m) = Len(ids),
         \A i \in 1 .. Len(ids) : m[i].id = ids[i] /\ m[i].head = {},
         NEW old \in Seq(Entry), NEW kept \in Seq(Nat), NEW whole, Shows(old, kept, whole)
  PROVE  Shows(m \o old, ids \o kept, whole)
<1>1. PICK a \in Nat, b \in Nat, c \in Nat :
        a = Len(ids) /\ a >= 1 /\ b = Len(old) /\ c = Len(kept)
  OBVIOUS
<1>2. b <= c /\ (whole => b = c /\ Short(old)) /\ \A i \in 1 .. b : old[i].id = kept[i]
  BY <1>1 DEF Shows
<1>3. PICK new \in Seq(Entry) :
        /\ new = m \o old /\ Len(new) = a + b
        /\ \A i \in 1 .. a + b : new[i] = IF i <= a THEN m[i] ELSE old[i - a]
  <2>1. m \o old \in Seq(Entry) /\ Len(m) = a /\ Len(old) = b
    BY <1>1
  <2>2. Len(m \o old) = a + b
    BY <2>1
  <2>3. \A i \in 1 .. a + b : (m \o old)[i] = IF i <= a THEN m[i] ELSE old[i - a]
    BY <2>1
  <2> QED
    BY <2>1, <2>2, <2>3
<1>4. PICK rec \in Seq(Nat) :
        /\ rec = ids \o kept /\ Len(rec) = a + c
        /\ \A i \in 1 .. a + c : rec[i] = IF i <= a THEN ids[i] ELSE kept[i - a]
  <2>1. ids \o kept \in Seq(Nat) /\ Len(ids) = a /\ Len(kept) = c
    BY <1>1
  <2>2. Len(ids \o kept) = a + c
    <3>1. Len(ids \o kept) = Len(ids) + Len(kept)
      OBVIOUS
    <3> QED
      BY <2>1, <3>1
  <2>3. \A i \in 1 .. a + c : (ids \o kept)[i] = IF i <= a THEN ids[i] ELSE kept[i - a]
    BY <2>1
  <2> QED
    BY <2>1, <2>2, <2>3
<1>5. ASSUME NEW i \in 1 .. a + b
      PROVE  new[i].id = rec[i] /\ (whole => new[i].head = {})
  <2>1. i \in 1 .. a + c
    BY <1>2
  <2>2. CASE i <= a
    <3>1. i \in 1 .. a
      BY <2>2
    <3> QED
      BY <1>1, <1>3, <1>4, <2>1, <2>2, <3>1
  <2>3. CASE ~(i <= a)
    <3>0. new[i] = old[i - a] /\ rec[i] = kept[i - a]
      BY <1>3, <1>4, <2>1, <2>3
    <3>1. i - a \in 1 .. b /\ new[i] = old[i - a] /\ rec[i] = kept[i - a]
      BY <1>1, <2>3, <3>0
    <3>2. i - a \in DOMAIN old
      BY <1>1, <3>1
    <3> QED
      BY <1>2, <3>1, <3>2 DEF Short
  <2> QED
    BY <2>2, <2>3
<1>6. DOMAIN new = 1 .. a + b
  BY <1>3
<1>7. Shows(new, rec, whole)
  <2>1. a + b <= a + c /\ a + b >= 1
    BY <1>1, <1>2
  <2>2. ASSUME whole PROVE a + b = a + c /\ Short(new)
    BY <1>2, <1>5, <1>6, <2>2 DEF Short
  <2>3. \A i \in 1 .. a + b : new[i].id = rec[i]
    BY <1>5
  <2> QED
    BY <1>3, <1>4, <2>1, <2>2, <2>3 DEF Shows
<1> QED
  BY <1>3, <1>4, <1>7

\* The section that an operation rebuilds shows the newest of the memories it came with
\* and those that were written before, unless it replaces them.
LEMMA MakesShown ==
  ASSUME NEW o \in Memorial, NEW ids \in Seq(Nat), Len(ids) >= 1,
         NEW sizes \in [DOMAIN ids -> Sizes], NEW d, DocOK(d), NEW n,
         Makes(o, Entries(ids, sizes), d, n), NEW kept \in Seq(Nat), NEW whole,
         o = "project" => kept = <<>>,
         o # "project" => Shows(d.shown[o], kept, whole)
  PROVE  Shows(n.shown[SectionOf(o)], Newest(ids \o kept), whole)
<1>1. PICK m \in Seq(Entry) :
        /\ m = Entries(ids, sizes) /\ Len(m) = Len(ids)
        /\ \A i \in 1 .. Len(ids) : m[i].id = ids[i] /\ m[i].head = {}
  BY EntriesType
<1>2. PICK old : old = IF o = "project" THEN <<>> ELSE d.shown[o]
  OBVIOUS
<1>3. d.shown \in [Sections -> Seq(Entry)]
  BY DEF DocOK, Doc
<1>4. old \in Seq(Entry) /\ Shows(old, kept, whole)
  BY <1>2, <1>3, ShowsNothing DEF Memorial
<1>5. Given(o, m, d) = m \o old
  BY <1>1, <1>2 DEF Given
<1>6. Shows(m \o old, ids \o kept, whole)
  BY <1>1, <1>4, PutFirst
<1>7. m \o old \in Seq(Entry) /\ Len(m \o old) >= 1 /\ ids \o kept \in Seq(Nat)
  BY <1>1, <1>4
<1>8. SectionOf(o) \in Sections
  BY DEF SectionOf, Memorial, Sections
<1>9. Shows(Fit(SectionOf(o), m \o old), Newest(ids \o kept), whole)
  BY <1>6, <1>7, <1>8, FitShown
<1> QED
  BY <1>1, <1>5, <1>8, <1>9 DEF Makes

\* No operation lengthens the head of a memory.
LEMMA MakesShort ==
  ASSUME NEW o \in Ops, NEW ids \in Seq(Nat), o \in Memorial => Len(ids) >= 1,
         NEW sizes \in [DOMAIN ids -> Sizes], NEW d, DocOK(d), NEW n,
         Makes(o, Entries(ids, sizes), d, n), NEW s \in Sections, Short(d.shown[s])
  PROVE  Short(n.shown[s])
<1>1. d.shown[s] \in Seq(Entry)
  BY DEF DocOK, Doc
<1>2. CASE o \in Memorial /\ s = SectionOf(o)
  <2>1. PICK kept \in Seq(Nat) :
          (o = "project" => kept = <<>>) /\ (o # "project" => kept = Ids(d.shown[s]))
    <3>1. <<>> \in Seq(Nat) /\ Ids(d.shown[s]) \in Seq(Nat)
      BY <1>1, IdsType
    <3>2. CASE o = "project"
      BY <3>1, <3>2
    <3>3. CASE o # "project"
      BY <3>1, <3>3
    <3> QED
      BY <3>2, <3>3
  <2>2. o # "project" => d.shown[o] = d.shown[s]
    BY <1>2 DEF SectionOf
  <2>3. o # "project" => Shows(d.shown[o], kept, TRUE)
    BY <1>1, <2>1, <2>2, ShowsOwn
  <2>4. Shows(n.shown[s], Newest(ids \o kept), TRUE)
    BY <1>2, <2>1, <2>3, MakesShown
  <2> QED
    BY <2>4 DEF Shows
<1>3. CASE ~(o \in Memorial /\ s = SectionOf(o))
  BY <1>3 DEF Makes
<1> QED
  BY <1>2, <1>3

-----------------------------------------------------------------------------
(* The invariant. *)

ProcsOK ==
  /\ lock \in [Files -> Procs \cup {NoProc}]
  /\ pc \in [Procs -> Steps] /\ op \in [Procs -> Ops] /\ file \in [Procs -> Files]
  /\ snap \in [Procs -> Doc] /\ \A p \in Procs : DocOK(snap[p])
  /\ mem \in [Procs -> Seq(Nat)] /\ \A p \in Procs : op[p] \in Memorial => Len(mem[p]) >= 1
  /\ stale \subseteq Procs

StoreOK == store \in Seq(Nat) /\ saves \in 0 .. MaxSaves /\ edits \in 0 .. MaxEdits

FilesOK ==
  /\ doc \in [Files -> Doc] /\ \A f \in Files : DocOK(doc[f])
  /\ noted \in [Files -> SUBSET Notes] /\ lost \subseteq Notes /\ taken \subseteq Notes
  /\ longer \subseteq Files \X Sections
  /\ recorded \in [Files -> [Sections -> Seq(Nat)]]

\* A process reads and writes only while it holds the lock of its file.
Holds == \A p \in Procs : pc[p] \in {"read", "write"} => lock[file[p]] = p

\* A plan is a content that its operation had reason to change, and so is what a
\* process is about to write to.
PlanWanted ==
  \A p \in Procs : (pc[p] \in {"lock", "read"} /\ op[p] \in Planned)
                     => Wanted(op[p], snap[p])
WriteWanted == \A p \in Procs : pc[p] = "write" => Wanted(op[p], snap[p])

\* A process about to write has the file as it is, unless an edit without the
\* lock came in between.
Fresh == \A p \in Procs : (pc[p] = "write" /\ p \notin stale) => snap[p] = doc[file[p]]

\* What it read has no lengthened memory that nobody lengthened.
SnapShort ==
  \A p \in Procs, s \in Sections :
    (pc[p] = "write" /\ <<file[p], s>> \notin longer) => Short(snap[p].shown[s])

\* Whoever is at work may still write.
Busy == {p \in Procs : pc[p] # "idle"}
BusyInv == writes \in Nat /\ IsFiniteSet(Busy) /\ writes + Cardinality(Busy) <= MaxWrites

Recorded ==
  \A f \in Files, s \in Sections :
    Shows(doc[f].shown[s], recorded[f][s], <<f, s>> \notin longer)

IInv ==
  /\ ProcsOK /\ StoreOK /\ FilesOK
  /\ Holds /\ PlanWanted /\ WriteWanted /\ Fresh /\ SnapShort
  /\ BusyInv /\ Recorded /\ UserTextKept

files == <<doc, noted, lost, taken, longer, recorded>>

LEMMA InvInit == Init => IInv
<1> SUFFICES ASSUME Init PROVE IInv
  OBVIOUS
<1>1. PICK ns \in SUBSET Notes :
        /\ doc = [f \in Files |-> IF f = "dot_claude" THEN Old(ns) ELSE NoFile]
        /\ noted = [f \in Files |-> IF f = "dot_claude" THEN ns ELSE {}]
  BY DEF Init
<1>2. /\ lock = [f \in Files |-> NoProc]
      /\ pc = [p \in Procs |-> "idle"]
      /\ op = [p \in Procs |-> "ensure"]
      /\ file = [p \in Procs |-> "dot_claude"]
      /\ snap = [p \in Procs |-> NoFile]
      /\ mem = [p \in Procs |-> <<>>]
      /\ store = <<>> /\ writes = 0 /\ edits = 0 /\ saves = 0
      /\ stale = {} /\ lost = {} /\ taken = {} /\ longer = {}
      /\ recorded = [f \in Files |-> [s \in Sections |-> <<>>]]
  BY DEF Init
<1>3. <<>> \in Seq(Nat) /\ <<>> \in Seq(Entry)
  OBVIOUS
<1>4. ProcsOK
  <2>1. /\ "idle" \in Steps /\ "ensure" \in Ops /\ "dot_claude" \in Files
        /\ "ensure" \notin Memorial
    BY DEF Steps, Ops, Creating, Files, ProjectFiles, Memorial, Sections
  <2> QED
    BY <1>2, <1>3, <2>1, NoFileOK DEF ProcsOK
<1>5. StoreOK
  BY <1>2, <1>3, BoundsAssumption DEF StoreOK
<1>6. \A f \in Files : doc[f] \in Doc /\ DocOK(doc[f]) /\ noted[f] \subseteq Written(doc[f])
                       /\ \A s \in Sections : doc[f].shown[s] = <<>>
  <2> TAKE f \in Files
  <2>1. (doc[f] = Old(ns) /\ noted[f] = ns) \/ (doc[f] = NoFile /\ noted[f] = {})
    BY <1>1
  <2>2. \A s \in Sections : NoFile.shown[s] = <<>>
    BY DEF NoFile
  <2> QED
    BY <2>1, <2>2, NoFileOK
<1>7. FilesOK
  BY <1>1, <1>2, <1>3, <1>6 DEF FilesOK
<1>8. Holds /\ PlanWanted /\ WriteWanted /\ Fresh /\ SnapShort
  BY <1>2 DEF Holds, PlanWanted, WriteWanted, Fresh, SnapShort
<1>9. BusyInv
  <2>1. Busy = {}
    BY <1>2 DEF Busy
  <2>2. Cardinality(Busy) = 0 /\ IsFiniteSet(Busy)
    BY <2>1, FS_EmptySet
  <2> QED
    BY <1>2, <2>2, BoundsAssumption DEF BusyInv
<1>10. Recorded
  <2> SUFFICES ASSUME NEW f \in Files, NEW s \in Sections
               PROVE  Shows(doc[f].shown[s], recorded[f][s], <<f, s>> \notin longer)
    BY DEF Recorded
  <2>1. doc[f].shown[s] = <<>> /\ recorded[f][s] = <<>>
    BY <1>2, <1>6
  <2> QED
    BY <2>1, ShowsNothing
<1>11. UserTextKept
  BY <1>6 DEF UserTextKept
<1> QED
  BY <1>4, <1>5, <1>7, <1>8, <1>9, <1>10, <1>11 DEF IInv

\* A step that leaves the files and their history alone.
LEMMA FilesStay ==
  ASSUME IInv, UNCHANGED files
  PROVE  FilesOK' /\ Recorded' /\ UserTextKept'
BY DEF IInv, files, FilesOK, Recorded, UserTextKept

\* A process that goes on from one step of its operation to another.
LEMMA BusyStays ==
  ASSUME IInv, UNCHANGED writes, NEW p \in Procs, NEW step \in Steps \ {"idle"},
         pc[p] # "idle", pc' = [pc EXCEPT ![p] = step]
  PROVE  BusyInv'
<1>1. Busy' = Busy
  BY DEF Busy, IInv, ProcsOK
<1> QED
  BY <1>1 DEF IInv, BusyInv

\* A process that ends its operation has one write less ahead of it.
LEMMA EndOK ==
  ASSUME IInv, NEW p \in Procs, End(p), pc[p] # "idle"
  PROVE  /\ ProcsOK' /\ Holds' /\ PlanWanted' /\ WriteWanted'
         /\ IsFiniteSet(Busy') /\ Cardinality(Busy') = Cardinality(Busy) - 1
         /\ Cardinality(Busy) \in Nat \ {0}
<1> USE DEF IInv
<1>1. ProcsOK'
  <2>1. /\ "idle" \in Steps /\ "ensure" \in Ops /\ "dot_claude" \in Files
        /\ NoFile \in Doc /\ DocOK(NoFile) /\ "ensure" \notin Memorial
    BY NoFileOK DEF Steps, Ops, Creating, Files, ProjectFiles, Memorial, Sections
  <2>2. <<>> \in Seq(Nat)
    OBVIOUS
  <2> QED
    BY <2>1, <2>2 DEF ProcsOK, End, Goto
<1>2. Holds'
  BY DEF ProcsOK, Holds, End, Goto
<1>3. PlanWanted' /\ WriteWanted'
  BY DEF ProcsOK, PlanWanted, WriteWanted, End, Goto
<1>4. Busy' = Busy \ {p} /\ p \in Busy
  BY DEF Busy, ProcsOK, End, Goto
<1>5. IsFiniteSet(Busy) /\ Cardinality(Busy) \in Nat
  BY FS_CardinalityType DEF BusyInv
<1>6. IsFiniteSet(Busy \ {p}) /\ Cardinality(Busy \ {p}) = Cardinality(Busy) - 1
  BY <1>4, <1>5, FS_RemoveElement
<1>7. Cardinality(Busy \ {p}) \in Nat
  BY <1>6, FS_CardinalityType
<1> QED
  BY <1>1, <1>2, <1>3, <1>4, <1>5, <1>6, <1>7

\* An operation that ends without a write.
LEMMA EndInv ==
  ASSUME IInv, NEW p \in Procs, End(p), pc[p] # "idle",
         UNCHANGED <<files, store, counters>>
  PROVE  IInv'
<1>1. BusyInv'
  <2>1. PICK m \in Nat : m = Cardinality(Busy)
    BY EndOK
  <2>2. PICK k : k = Cardinality(Busy')
    OBVIOUS
  <2>3. k = m - 1 /\ IsFiniteSet(Busy')
    BY EndOK, <2>1, <2>2
  <2>4. writes \in Nat /\ writes + m <= MaxWrites
    BY <2>1 DEF IInv, BusyInv
  <2>5. writes' = writes /\ writes + k <= MaxWrites
    BY <2>1, <2>3, <2>4, BoundsAssumption DEF counters
  <2> QED
    BY <2>2, <2>3, <2>4, <2>5 DEF BusyInv
<1>2. Fresh' /\ SnapShort'
  BY DEF IInv, ProcsOK, Fresh, SnapShort, End, Goto, files
<1>3. StoreOK'
  BY DEF IInv, StoreOK, counters
<1> QED
  BY <1>1, <1>2, <1>3, EndOK, FilesStay DEF IInv

\* The memories that a process starts with.
LEMMA FetchOK ==
  ASSUME IInv, NEW p \in Procs, NEW o \in Ops, Fetch(p, o)
  PROVE  /\ mem' \in [Procs -> Seq(Nat)] /\ store' \in Seq(Nat) /\ saves' \in 0 .. MaxSaves
         /\ o \in Memorial => Len(mem'[p]) >= 1
         /\ \A q \in Procs \ {p} : mem'[q] = mem[q]
<1>1. /\ mem \in [Procs -> Seq(Nat)] /\ store \in Seq(Nat)
      /\ saves \in 0 .. MaxSaves /\ MaxSaves \in Nat
  BY BoundsAssumption DEF IInv, ProcsOK, StoreOK
<1>2. CASE o = "working"
  <2>1. /\ saves < MaxSaves /\ saves' = saves + 1
        /\ mem' = [mem EXCEPT ![p] = <<saves + 1>>] /\ store' = <<saves + 1>> \o store
    BY <1>2 DEF Fetch, Memorial, Sections
  <2>2. PICK n \in Nat : n = saves + 1 /\ n \in 0 .. MaxSaves
    BY <1>1, <2>1
  <2>3. <<n>> \in Seq(Nat) /\ Len(<<n>>) = 1 /\ <<n>> \o store \in Seq(Nat)
    BY <1>1
  <2> QED
    BY <1>1, <2>1, <2>2, <2>3
<1>3. CASE o = "retrieved"
  <2>1. PICK i \in DOMAIN store : mem' = [mem EXCEPT ![p] = <<store[i]>>]
    BY <1>3 DEF Fetch, Memorial, Sections
  <2>2. store' = store /\ saves' = saves
    BY <1>3 DEF Fetch, Memorial, Sections
  <2>3. PICK n \in Nat : n = store[i]
    BY <1>1
  <2>4. <<n>> \in Seq(Nat) /\ Len(<<n>>) = 1
    OBVIOUS
  <2> QED
    BY <1>1, <2>1, <2>2, <2>3, <2>4
<1>4. CASE o = "project"
  <2>1. store # <<>> /\ mem' = [mem EXCEPT ![p] = Newest(store)]
        /\ store' = store /\ saves' = saves
    BY <1>4 DEF Fetch, Memorial, Sections
  <2>2. PICK k \in Nat, l \in Nat : k = MaxMemories /\ k >= 1 /\ l = Len(store) /\ l >= 1
    <3>1. MaxMemories \in Nat /\ MaxMemories >= 1
      BY BudgetAssumption
    <3>2. Len(store) \in Nat /\ Len(store) >= 1
      BY <1>1, <2>1
    <3> QED
      BY <3>1, <3>2
  <2>3. Newest(store) \in Seq(Nat) /\ Len(Newest(store)) = Least(k, l)
    BY <1>1, <2>2, NewestKeeps
  <2>4. Least(k, l) >= 1
    BY <2>2 DEF Least
  <2>5. Len(Newest(store)) >= 1
    BY <2>3, <2>4
  <2> QED
    BY <1>1, <2>1, <2>3, <2>5
<1>5. CASE o \notin Memorial
  BY <1>1, <1>5 DEF Fetch, Memorial, Sections
<1> QED
  BY <1>2, <1>3, <1>4, <1>5 DEF Memorial, Sections

LEMMA StartInv == ASSUME IInv, NEW p \in Procs, Start(p) PROVE IInv'
<1> USE DEF IInv
<1>1. PICK o \in Ops :
        /\ op' = [op EXCEPT ![p] = o]
        /\ Fetch(p, o)
        /\ \/ o = "strip" /\ file' = [file EXCEPT ![p] = "home"]
                          /\ pc' = [pc EXCEPT ![p] = "lock"]
           \/ file' = file /\ pc' = [pc EXCEPT ![p] = "dot_claude"]
  BY DEF Start, Goto
<1>2. UNCHANGED <<doc, lock, snap, writes, edits, stale, noted, lost, taken, longer, recorded>>
      /\ pc[p] = "idle"
  BY DEF Start, history
<1>3. ProcsOK'
  <2>1. /\ mem' \in [Procs -> Seq(Nat)]
        /\ o \in Memorial => Len(mem'[p]) >= 1
        /\ \A q \in Procs \ {p} : mem'[q] = mem[q]
    BY <1>1, FetchOK
  <2>2. \A q \in Procs : op'[q] \in Memorial => Len(mem'[q]) >= 1
    <3> TAKE q \in Procs
    <3>1. CASE q = p
      BY <1>1, <2>1, <3>1 DEF ProcsOK
    <3>2. CASE q # p
      BY <1>1, <2>1, <3>2 DEF ProcsOK
    <3> QED
      BY <3>1, <3>2
  <2>3. pc' \in [Procs -> Steps] /\ op' \in [Procs -> Ops] /\ file' \in [Procs -> Files]
    BY <1>1 DEF ProcsOK, Steps, Files
  <2> QED
    BY <1>2, <2>1, <2>2, <2>3 DEF ProcsOK
<1>4. StoreOK'
  BY <1>1, <1>2, FetchOK DEF StoreOK
<1>5. Holds' /\ WriteWanted' /\ Fresh' /\ SnapShort'
  BY <1>1, <1>2 DEF ProcsOK, Holds, WriteWanted, Fresh, SnapShort
<1>6. PlanWanted'
  BY <1>1, <1>2 DEF ProcsOK, PlanWanted, Planned
<1>7. BusyInv'
  <2>1. Busy' = Busy \cup {p} /\ p \notin Busy
    BY <1>1, <1>2 DEF Busy, ProcsOK
  <2>2. IsFiniteSet(Busy) /\ Cardinality(Busy) \in Nat
    BY FS_CardinalityType DEF BusyInv
  <2>3. IsFiniteSet(Busy') /\ Cardinality(Busy') = Cardinality(Busy) + 1
    BY <2>1, <2>2, FS_AddElement
  <2>4. writes + Cardinality(Busy) < MaxWrites /\ writes \in Nat
    BY DEF Start, Busy, BusyInv
  <2>5. PICK m \in Nat : m = Cardinality(Busy)
    BY <2>2
  <2>6. writes' = writes /\ writes + (m + 1) <= MaxWrites
    BY <1>2, <2>4, <2>5, BoundsAssumption
  <2> QED
    BY <2>3, <2>4, <2>5, <2>6 DEF BusyInv
<1>8. FilesOK' /\ Recorded' /\ UserTextKept'
  BY <1>2, FilesStay DEF files
<1> QED
  BY <1>3, <1>4, <1>5, <1>6, <1>7, <1>8

\* A process that goes on, and leaves the files, the store and its memories alone.
LEMMA GoesOn ==
  ASSUME IInv, NEW p \in Procs, NEW step \in Steps \ {"idle"},
         pc[p] # "idle", pc' = [pc EXCEPT ![p] = step],
         UNCHANGED <<files, store, counters>>
  PROVE  StoreOK' /\ FilesOK' /\ Recorded' /\ UserTextKept' /\ BusyInv'
<1>1. UNCHANGED files /\ UNCHANGED writes /\ UNCHANGED <<store, saves, edits>>
  BY DEF counters
<1>2. StoreOK'
  BY <1>1 DEF IInv, StoreOK
<1> QED
  BY <1>1, <1>2, FilesStay, BusyStays

LEMMA FoundInv ==
  ASSUME IInv, NEW p \in Procs, NEW f \in ProjectFiles,
         pc[p] \in {"dot_claude", "legacy"}, Found(p, f),
         UNCHANGED <<files, store, counters>>
  PROVE  IInv'
<1>1. CASE op[p] = "ensure"
  BY <1>1, EndInv DEF Found
<1>2. CASE op[p] # "ensure"
  <2>1. /\ file' = [file EXCEPT ![p] = f] /\ f \in Files
        /\ UNCHANGED <<lock, op, snap, mem, stale>>
    BY <1>2 DEF Found, Files
  <2>2. PICK step \in {"plan", "lock"} : /\ pc' = [pc EXCEPT ![p] = step]
                                         /\ op[p] \in Planned => step = "plan"
    BY <1>2 DEF Found, Goto
  <2>3. StoreOK' /\ FilesOK' /\ Recorded' /\ UserTextKept' /\ BusyInv'
    BY <2>2, GoesOn DEF Steps
  <2> USE DEF IInv
  <2>4. ProcsOK' /\ WriteWanted'
    BY <2>1, <2>2 DEF ProcsOK, WriteWanted, Steps
  <2>5. Holds' /\ PlanWanted'
    BY <2>1, <2>2 DEF ProcsOK, Holds, PlanWanted
  <2>6. Fresh' /\ SnapShort'
    BY <2>1, <2>2 DEF ProcsOK, Fresh, SnapShort, files
  <2> QED
    BY <2>3, <2>4, <2>5, <2>6
<1> QED
  BY <1>1, <1>2

LEMMA LookInv ==
  ASSUME IInv, NEW p \in Procs, LookDotClaude(p) \/ LookLegacy(p)
  PROVE  IInv'
<1>0. UNCHANGED <<files, store, counters>> /\ pc[p] \in {"dot_claude", "legacy"}
  BY DEF LookDotClaude, LookLegacy, files
<1>1. CASE LookDotClaude(p) /\ doc["dot_claude"].exists
  BY <1>0, <1>1, FoundInv DEF LookDotClaude, ProjectFiles
<1>2. CASE LookLegacy(p) /\ doc["legacy"].exists
  BY <1>0, <1>2, FoundInv DEF LookLegacy, ProjectFiles
<1>3. CASE LookLegacy(p) /\ ~doc["legacy"].exists /\ op[p] \notin Creating
  BY <1>0, <1>3, EndInv DEF LookLegacy
<1>4. CASE \/ LookDotClaude(p) /\ ~doc["dot_claude"].exists
           \/ LookLegacy(p) /\ ~doc["legacy"].exists /\ op[p] \in Creating
  <2>1. UNCHANGED <<lock, op, file, snap, mem, stale>>
    BY <1>4 DEF LookDotClaude, LookLegacy
  <2>2. PICK step \in {"legacy", "lock"} : /\ pc' = [pc EXCEPT ![p] = step]
                                           /\ step = "legacy" \/ op[p] \in Creating
    BY <1>4 DEF LookDotClaude, LookLegacy, Goto
  <2>3. StoreOK' /\ FilesOK' /\ Recorded' /\ UserTextKept' /\ BusyInv'
    BY <1>0, <2>2, GoesOn DEF Steps
  <2> USE DEF IInv
  <2>4. ProcsOK' /\ WriteWanted'
    BY <2>1, <2>2 DEF ProcsOK, WriteWanted, Steps
  <2>5. Holds' /\ PlanWanted'
    BY <2>1, <2>2 DEF ProcsOK, Holds, PlanWanted, Planned, Creating
  <2>6. Fresh' /\ SnapShort'
    BY <1>0, <2>1, <2>2 DEF ProcsOK, Fresh, SnapShort, files
  <2> QED
    BY <2>3, <2>4, <2>5, <2>6
<1> QED
  BY <1>1, <1>2, <1>3, <1>4

LEMMA PlanInv == ASSUME IInv, NEW p \in Procs, PlanWrite(p) PROVE IInv'
<1>0. UNCHANGED <<files, store, counters>> /\ pc[p] = "plan"
  BY DEF PlanWrite, files
<1>1. CASE ~Wanted(op[p], doc[file[p]])
  BY <1>0, <1>1, EndInv DEF PlanWrite
<1>2. CASE Wanted(op[p], doc[file[p]])
  <2>1. /\ pc' = [pc EXCEPT ![p] = "lock"]
        /\ snap' = [snap EXCEPT ![p] = doc[file[p]]]
        /\ UNCHANGED <<lock, op, file, mem, stale>>
    BY <1>2 DEF PlanWrite, Goto
  <2>2. StoreOK' /\ FilesOK' /\ Recorded' /\ UserTextKept' /\ BusyInv'
    BY <1>0, <2>1, GoesOn DEF Steps
  <2> USE DEF IInv
  <2>3. file[p] \in Files /\ doc[file[p]] \in Doc /\ DocOK(doc[file[p]])
    BY DEF ProcsOK, FilesOK
  <2>4. ProcsOK'
    BY <2>1, <2>3 DEF ProcsOK, Steps
  <2>5. Holds' /\ WriteWanted'
    BY <1>0, <2>1 DEF ProcsOK, Holds, WriteWanted
  <2>6. PlanWanted'
    BY <1>0, <1>2, <2>1 DEF ProcsOK, PlanWanted
  <2>7. Fresh' /\ SnapShort'
    BY <1>0, <2>1 DEF ProcsOK, Fresh, SnapShort, files
  <2> QED
    BY <2>2, <2>4, <2>5, <2>6, <2>7
<1> QED
  BY <1>1, <1>2

LEMMA LockInv == ASSUME IInv, NEW p \in Procs, Lock(p) PROVE IInv'
<1>1. /\ pc[p] = "lock" /\ pc' = [pc EXCEPT ![p] = "read"]
      /\ lock[file[p]] = NoProc /\ lock' = [lock EXCEPT ![file[p]] = p]
      /\ UNCHANGED <<op, file, snap, mem, stale>> /\ UNCHANGED <<files, store, counters>>
  BY DEF Lock, Goto, history, files
<1>2. StoreOK' /\ FilesOK' /\ Recorded' /\ UserTextKept' /\ BusyInv'
  BY <1>1, GoesOn DEF Steps
<1> USE DEF IInv
<1>3. ProcsOK' /\ WriteWanted'
  BY <1>1 DEF ProcsOK, WriteWanted, Steps
<1>4. Holds'
  BY <1>1, NoProcAssumption DEF ProcsOK, Holds
<1>5. PlanWanted' /\ Fresh' /\ SnapShort'
  BY <1>1 DEF ProcsOK, PlanWanted, Fresh, SnapShort, files
<1> QED
  BY <1>2, <1>3, <1>4, <1>5

LEMMA ReadInv == ASSUME IInv, NEW p \in Procs, Read(p) PROVE IInv'
<1> DEFINE now == doc[file[p]]
           ok == IF op[p] \in Planned THEN now = snap[p] ELSE Wanted(op[p], now)
<1>0. UNCHANGED <<files, store, counters>> /\ pc[p] = "read"
  BY DEF Read, files
<1>1. CASE ~ok
  BY <1>0, <1>1, EndInv DEF Read
<1>2. CASE ok
  <2>1. /\ pc' = [pc EXCEPT ![p] = "write"]
        /\ snap' = [snap EXCEPT ![p] = now]
        /\ UNCHANGED <<lock, op, file, mem, stale>>
    BY <1>2 DEF Read, Goto
  <2>2. StoreOK' /\ FilesOK' /\ Recorded' /\ UserTextKept' /\ BusyInv'
    BY <1>0, <2>1, GoesOn DEF Steps
  <2> USE DEF IInv
  <2>3. file[p] \in Files /\ now \in Doc /\ DocOK(now)
    BY DEF ProcsOK, FilesOK
  <2>4. Wanted(op[p], now)
    BY <1>0, <1>2 DEF PlanWanted
  <2>5. \A s \in Sections : <<file[p], s>> \notin longer => Short(now.shown[s])
    BY <2>3 DEF Recorded, Shows
  <2>6. ProcsOK'
    BY <2>1, <2>3 DEF ProcsOK, Steps
  <2>7. Holds' /\ PlanWanted'
    BY <1>0, <2>1 DEF ProcsOK, Holds, PlanWanted
  <2>8. Fresh'
    BY <1>0, <2>1 DEF ProcsOK, Fresh, files
  <2> HIDE DEF now
  <2>9. WriteWanted'
    BY <1>0, <2>1, <2>4 DEF ProcsOK, WriteWanted
  <2>10. SnapShort'
    BY <1>0, <2>1, <2>5 DEF ProcsOK, SnapShort, files
  <2> QED
    BY <2>2, <2>6, <2>7, <2>8, <2>9, <2>10
<1> QED
  BY <1>1, <1>2

LEMMA WriteInv == ASSUME IInv, NEW p \in Procs, Write(p) PROVE IInv'
<1> DEFINE f == file[p]
           o == op[p]
           d == snap[p]
           sec == SectionOf(o)
           kept == IF o \in Sections THEN recorded[f][o] ELSE <<>>
<1>1. PICK sizes \in [DOMAIN mem[p] -> Sizes] :
        LET new == Effect(o, Entries(mem[p], sizes), d) IN
        /\ writes' = writes + 1
        /\ doc' = [doc EXCEPT ![f] = new]
        /\ IF p \in stale
           THEN /\ lost' = lost \cup (Written(doc[f]) \ Written(new))
                /\ recorded' = [recorded EXCEPT
                                  ![f] = [s \in Sections |-> Ids(new.shown[s])]]
                /\ UNCHANGED <<taken, longer>>
           ELSE /\ taken' = taken \cup (Inside(o, doc[f]) \ Written(new))
                /\ longer' = longer \
                      (IF o = "project" THEN {<<f, "working">>} ELSE {})
                /\ recorded' = IF o \in Memorial
                               THEN [recorded EXCEPT ![f][sec] = Newest(mem[p] \o kept)]
                               ELSE recorded
                /\ UNCHANGED lost
  BY DEF Write
<1>2. pc[p] = "write" /\ End(p) /\ UNCHANGED <<store, edits, saves, noted>>
  BY DEF Write
<1>3. PICK new : new = Effect(o, Entries(mem[p], sizes), d)
  OBVIOUS
<1>4. /\ doc' = [doc EXCEPT ![f] = new] /\ writes' = writes + 1
      /\ \/ /\ p \in stale
            /\ lost' = lost \cup (Written(doc[f]) \ Written(new))
            /\ recorded' = [recorded EXCEPT
                              ![f] = [s \in Sections |-> Ids(new.shown[s])]]
            /\ taken' = taken /\ longer' = longer
         \/ /\ p \notin stale
            /\ taken' = taken \cup (Inside(o, doc[f]) \ Written(new))
            /\ longer' = longer \
                  (IF o = "project" THEN {<<f, "working">>} ELSE {})
            /\ recorded' = IF o \in Memorial
                           THEN [recorded EXCEPT ![f][sec] = Newest(mem[p] \o kept)]
                           ELSE recorded
            /\ lost' = lost
  BY <1>1, <1>3
<1>5. /\ f \in Files /\ o \in Ops /\ DocOK(d) /\ Wanted(o, d) /\ d \in Doc
      /\ mem[p] \in Seq(Nat)
      /\ o \in Memorial => Len(mem[p]) >= 1
  BY <1>2 DEF IInv, ProcsOK, WriteWanted
<1>6. Makes(o, Entries(mem[p], sizes), d, new)
  <2>1. PICK m \in Seq(Entry) : m = Entries(mem[p], sizes) /\ Len(m) = Len(mem[p])
    BY <1>5, EntriesType
  <2> QED
    BY <1>3, <1>5, <2>1, EffectOK
<1>7. o \in Memorial => sec \in Sections
  BY DEF SectionOf, Memorial, Sections
<1>8. /\ doc[f] \in Doc /\ DocOK(doc[f]) /\ recorded[f] \in [Sections -> Seq(Nat)]
      /\ recorded \in [Files -> [Sections -> Seq(Nat)]] /\ kept \in Seq(Nat)
      /\ p \notin stale => d = doc[f]
  <2>1. <<>> \in Seq(Nat)
    OBVIOUS
  <2> QED
    BY <1>2, <1>5, <2>1 DEF IInv, FilesOK, Fresh
<1>9. new \in Doc /\ DocOK(new) /\ new.shown \in [Sections -> Seq(Entry)]
  BY <1>6 DEF Makes, DocOK, Doc
<1> HIDE DEF f, o, d, sec, kept
<1>10. ASSUME NEW s \in Sections
       PROVE  Shows(new.shown[s], recorded'[f][s], <<f, s>> \notin longer')
  <2>1. new.shown[s] \in Seq(Entry)
    BY <1>9
  <2>2. CASE p \in stale
    <3>1. recorded'[f][s] = Ids(new.shown[s]) /\ longer' = longer
      BY <1>4, <1>5, <1>8, <2>2
    <3>2. <<f, s>> \notin longer => Short(new.shown[s])
      <4>1. <<f, s>> \notin longer => Short(d.shown[s])
        BY <1>2 DEF IInv, SnapShort, f, d
      <4> QED
        BY <1>5, <1>6, <4>1, MakesShort
    <3> QED
      BY <2>1, <3>1, <3>2, ShowsOwn
  <2>3. CASE p \notin stale /\ o \in Memorial /\ s = sec
    <3>1. PICK r : r = Newest(mem[p] \o kept)
      OBVIOUS
    <3>2. recorded'[f][s] = r
      BY <1>4, <1>5, <1>7, <1>8, <2>3, <3>1
    <3>3. PICK whole \in BOOLEAN : whole = (<<f, s>> \notin longer')
      OBVIOUS
    <3>4. o = "project" => kept = <<>>
      BY DEF kept, Sections
    <3>5. o # "project" => Shows(d.shown[o], kept, whole)
      <4> SUFFICES ASSUME o # "project" PROVE Shows(d.shown[o], kept, whole)
        OBVIOUS
      <4>1. o = s /\ o \in Sections /\ kept = recorded[f][o] /\ longer' = longer
        BY <1>4, <2>3 DEF sec, SectionOf, kept, Memorial
      <4>2. Shows(doc[f].shown[o], recorded[f][o], <<f, o>> \notin longer)
        BY <1>5, <4>1 DEF IInv, Recorded
      <4> QED
        BY <1>8, <2>3, <3>3, <4>1, <4>2
    <3>6. Shows(new.shown[s], Newest(mem[p] \o kept), whole)
      BY <1>5, <1>6, <1>8, <2>3, <3>4, <3>5, MakesShown DEF sec
    <3> QED
      BY <3>1, <3>2, <3>3, <3>6
  <2>4. CASE p \notin stale /\ ~(o \in Memorial /\ s = sec)
    <3>1. new.shown[s] = doc[f].shown[s]
      BY <1>6, <1>8, <2>4 DEF Makes, sec
    <3>2. recorded'[f][s] = recorded[f][s]
      BY <1>4, <1>5, <1>7, <1>8, <2>4
    <3>3. (<<f, s>> \notin longer') <=> (<<f, s>> \notin longer)
      <4>1. o = "project" => s # "working"
        BY <2>4 DEF sec, SectionOf, Memorial
      <4> QED
        BY <1>4, <2>4, <4>1
    <3>4. Shows(doc[f].shown[s], recorded[f][s], <<f, s>> \notin longer)
      BY <1>5 DEF IInv, Recorded
    <3>5. (<<f, s>> \notin longer') = (<<f, s>> \notin longer)
      BY <3>3
    <3> QED
      BY <3>1, <3>2, <3>4, <3>5
  <2> QED
    BY <2>2, <2>3, <2>4
<1>11. /\ recorded' \in [Files -> [Sections -> Seq(Nat)]]
       /\ \A g \in Files \ {f} : recorded'[g] = recorded[g]
  <2>1. CASE p \in stale
    <3>1. \A s \in Sections : Ids(new.shown[s]) \in Seq(Nat)
      BY <1>9, IdsType
    <3>2. PICK r : r = [s \in Sections |-> Ids(new.shown[s])]
      OBVIOUS
    <3>3. r \in [Sections -> Seq(Nat)] /\ recorded' = [recorded EXCEPT ![f] = r]
      BY <1>4, <2>1, <3>1, <3>2
    <3> QED
      BY <1>5, <1>8, <3>3
  <2>2. CASE p \notin stale /\ o \in Memorial
    <3>1. PICK r : r = Newest(mem[p] \o kept)
      OBVIOUS
    <3>2. mem[p] \o kept \in Seq(Nat)
      BY <1>5, <1>8
    <3>3. r \in Seq(Nat)
      BY <3>1, <3>2, NewestKeeps
    <3>4. PICK t : t = [recorded[f] EXCEPT ![sec] = r]
      OBVIOUS
    <3>5. t \in [Sections -> Seq(Nat)]
      BY <1>7, <1>8, <2>2, <3>3, <3>4
    <3>6. recorded' = [recorded EXCEPT ![f] = t]
      BY <1>4, <1>8, <2>2, <3>1, <3>4
    <3> QED
      BY <1>5, <1>8, <3>5, <3>6
  <2>3. CASE p \notin stale /\ o \notin Memorial
    BY <1>4, <1>8, <2>3
  <2> QED
    BY <2>1, <2>2, <2>3
<1>12. longer' \subseteq longer /\ \A g \in Files \ {f}, s \in Sections :
                                     <<g, s>> \in longer' <=> <<g, s>> \in longer
  BY <1>4
<1>13. FilesOK'
  <2>1. /\ Written(doc[f]) \subseteq Notes /\ Inside(o, doc[f]) \subseteq Notes
        /\ lost \subseteq Notes /\ taken \subseteq Notes
    BY <1>5, <1>8, WrittenType DEF IInv, FilesOK
  <2>2. lost' \subseteq Notes /\ taken' \subseteq Notes
    BY <1>4, <2>1
  <2>3. doc' \in [Files -> Doc] /\ \A g \in Files : DocOK(doc'[g])
    BY <1>4, <1>5, <1>9 DEF IInv, FilesOK
  <2> QED
    BY <1>2, <1>11, <1>12, <2>2, <2>3 DEF IInv, FilesOK
<1>14. Recorded'
  <2> SUFFICES ASSUME NEW g \in Files, NEW s \in Sections
               PROVE  Shows(doc'[g].shown[s], recorded'[g][s], <<g, s>> \notin longer')
    BY DEF Recorded
  <2>1. CASE g = f
    <3>1. doc'[g] = new
      BY <1>4, <1>5, <2>1 DEF IInv, FilesOK
    <3> QED
      BY <1>10, <2>1, <3>1
  <2>2. CASE g # f
    <3>1. doc'[g] = doc[g] /\ recorded'[g] = recorded[g]
      BY <1>4, <1>11, <2>2 DEF IInv, FilesOK
    <3>2. (<<g, s>> \notin longer') = (<<g, s>> \notin longer)
      BY <1>12, <2>2
    <3>3. Shows(doc[g].shown[s], recorded[g][s], <<g, s>> \notin longer)
      BY DEF IInv, Recorded
    <3> QED
      BY <3>1, <3>2, <3>3
  <2> QED
    BY <2>1, <2>2
<1>15. UserTextKept'
  <2>1. noted[f] \subseteq Written(new) \cup lost' \cup taken'
    <3>1. noted[f] \subseteq Written(doc[f]) \cup lost \cup taken
      BY <1>5 DEF IInv, UserTextKept
    <3>2. CASE p \in stale
      BY <1>4, <3>1, <3>2
    <3>3. CASE p \notin stale
      <4>1. Written(doc[f]) \subseteq Written(new) \cup Inside(o, doc[f])
        BY <1>6, <1>8, <3>3 DEF Makes
      <4> QED
        BY <1>4, <3>1, <3>3, <4>1
    <3> QED
      BY <3>2, <3>3
  <2>2. lost \subseteq lost' /\ taken \subseteq taken'
    BY <1>4
  <2>3. doc'[f] = new /\ \A g \in Files \ {f} : doc'[g] = doc[g]
    BY <1>4, <1>5 DEF IInv, FilesOK
  <2> QED
    BY <1>2, <2>1, <2>2, <2>3 DEF IInv, UserTextKept
<1>16. ASSUME NEW q \in Procs, pc'[q] = "write"
       PROVE  /\ q # p /\ pc[q] = "write" /\ file[q] # f /\ file[q] \in Files
              /\ file'[q] = file[q] /\ snap'[q] = snap[q] /\ (q \in stale' <=> q \in stale)
  <2>1. q # p /\ pc[q] = "write" /\ file'[q] = file[q] /\ snap'[q] = snap[q]
        /\ (q \in stale' <=> q \in stale)
    BY <1>2, <1>16 DEF IInv, ProcsOK, End, Goto
  <2>2. file[q] # f /\ file[q] \in Files
    BY <1>2, <2>1 DEF IInv, ProcsOK, Holds, f
  <2> QED
    BY <2>1, <2>2
<1>17. Fresh'
  <2> SUFFICES ASSUME NEW q \in Procs, pc'[q] = "write", q \notin stale'
               PROVE  snap'[q] = doc'[file'[q]]
    BY DEF Fresh
  <2>1. doc'[file[q]] = doc[file[q]]
    BY <1>4, <1>5, <1>16 DEF IInv, FilesOK
  <2> QED
    BY <1>16, <2>1 DEF IInv, Fresh
<1>18. SnapShort'
  <2> SUFFICES ASSUME NEW q \in Procs, NEW s \in Sections, pc'[q] = "write",
                      <<file'[q], s>> \notin longer'
               PROVE  Short(snap'[q].shown[s])
    BY DEF SnapShort
  <2>1. <<file[q], s>> \notin longer
    BY <1>12, <1>16
  <2> QED
    BY <1>16, <2>1 DEF IInv, SnapShort
<1>19. BusyInv'
  <2>1. PICK m \in Nat : m = Cardinality(Busy)
    BY <1>2, EndOK
  <2>2. PICK k : k = Cardinality(Busy')
    OBVIOUS
  <2>3. k = m - 1 /\ IsFiniteSet(Busy')
    BY <1>2, EndOK, <2>1, <2>2
  <2>4. PICK w \in Nat : w = writes /\ w + m <= MaxWrites
    BY <2>1 DEF IInv, BusyInv
  <2>5. writes' = w + 1 /\ w + 1 \in Nat /\ (w + 1) + k <= MaxWrites
    BY <1>4, <2>1, <2>3, <2>4, BoundsAssumption
  <2> QED
    BY <2>2, <2>3, <2>5 DEF BusyInv
<1>20. StoreOK'
  BY <1>2 DEF IInv, StoreOK
<1> QED
  BY <1>2, <1>13, <1>14, <1>15, <1>17, <1>18, <1>19, <1>20, EndOK DEF IInv

-----------------------------------------------------------------------------
(* Users. *)

\* An edit without the lock.
LEMMA UnlockedInv ==
  ASSUME IInv, NEW f \in Files, NEW new, Unlocked(f, new), DocOK(new),
         noted' \in [Files -> SUBSET Notes],
         noted'[f] \subseteq Written(new) \cup lost \cup taken,
         recorded' \in [Files -> [Sections -> Seq(Nat)]],
         longer' \subseteq Files \X Sections, longer \subseteq longer',
         \A s \in Sections : Shows(new.shown[s], recorded'[f][s], <<f, s>> \notin longer'),
         \A g \in Files \ {f} : /\ noted'[g] = noted[g] /\ recorded'[g] = recorded[g]
                                /\ \A s \in Sections : <<g, s>> \in longer' => <<g, s>> \in longer
  PROVE  IInv'
<1>1. /\ edits < MaxEdits /\ edits' = edits + 1
      /\ doc' = [doc EXCEPT ![f] = new]
      /\ stale' = stale \cup {p \in Procs : pc[p] = "write" /\ file[p] = f}
      /\ UNCHANGED <<lock, pc, op, file, snap, mem, store, writes, saves, lost, taken>>
  BY DEF Unlocked, procVars
<1>2. /\ doc \in [Files -> Doc] /\ new \in Doc /\ doc'[f] = new
      /\ \A g \in Files \ {f} : doc'[g] = doc[g]
  BY <1>1 DEF IInv, FilesOK, DocOK
<1>3. ProcsOK' /\ Holds' /\ PlanWanted' /\ WriteWanted'
  BY <1>1 DEF IInv, ProcsOK, Holds, PlanWanted, WriteWanted
<1>4. StoreOK'
  BY <1>1, BoundsAssumption DEF IInv, StoreOK
<1>5. BusyInv'
  <2>1. Busy' = Busy
    BY <1>1 DEF Busy
  <2> QED
    BY <1>1, <2>1 DEF IInv, BusyInv
<1>6. FilesOK'
  <2>1. doc' \in [Files -> Doc] /\ \A g \in Files : DocOK(doc'[g])
    BY <1>1, <1>2 DEF IInv, FilesOK
  <2> QED
    BY <1>1, <2>1 DEF IInv, FilesOK
<1>7. Fresh'
  <2> SUFFICES ASSUME NEW q \in Procs, pc'[q] = "write", q \notin stale'
               PROVE  snap'[q] = doc'[file'[q]]
    BY DEF Fresh
  <2>1. file[q] \in Files \ {f} /\ q \notin stale
    BY <1>1 DEF IInv, ProcsOK
  <2> QED
    BY <1>1, <1>2, <2>1 DEF IInv, Fresh
<1>8. SnapShort'
  BY <1>1 DEF IInv, SnapShort
<1>9. Recorded'
  <2> SUFFICES ASSUME NEW g \in Files, NEW s \in Sections
               PROVE  Shows(doc'[g].shown[s], recorded'[g][s], <<g, s>> \notin longer')
    BY DEF Recorded
  <2>1. CASE g = f
    BY <1>2, <2>1
  <2>2. CASE g # f
    <3>1. (<<g, s>> \notin longer') = (<<g, s>> \notin longer)
      BY <2>2
    <3>2. Shows(doc[g].shown[s], recorded[g][s], <<g, s>> \notin longer)
      BY DEF IInv, Recorded
    <3> QED
      BY <1>2, <2>2, <3>1, <3>2
  <2> QED
    BY <2>1, <2>2
<1>10. UserTextKept'
  <2> SUFFICES ASSUME NEW g \in Files
               PROVE  noted'[g] \subseteq Written(doc'[g]) \cup lost' \cup taken'
    BY DEF UserTextKept
  <2>1. CASE g = f
    BY <1>1, <1>2, <2>1
  <2>2. CASE g # f
    BY <1>1, <1>2, <2>2 DEF IInv, UserTextKept
  <2> QED
    BY <2>1, <2>2
<1> QED
  BY <1>3, <1>4, <1>5, <1>6, <1>7, <1>8, <1>9, <1>10 DEF IInv

Grows(d, n) ==
  /\ d.text \subseteq n.text /\ d.pins \subseteq n.pins
  /\ \A s \in Sections \cup {"session"} : Inside(s, d) \subseteq Inside(s, n)

LEMMA WrittenGrows == \A d, n : Grows(d, n) => Written(d) \subseteq Written(n)
<1> SUFFICES ASSUME NEW d, NEW n, Grows(d, n) PROVE Written(d) \subseteq Written(n)
  OBVIOUS
<1>1. Written(d) \subseteq Written(n) \cup {}
  BY WrittenParts DEF Grows
<1> QED
  BY <1>1

\* One that adds a note to a content and leaves what is there.
LEMMA NoteInv ==
  ASSUME IInv, NEW f \in Files, NEW n \in Notes, NEW new, Unlocked(f, new), DocOK(new),
         Written(doc[f]) \cup {n} \subseteq Written(new),
         noted' = [noted EXCEPT ![f] = @ \cup {n}], recorded' = recorded,
         longer' \subseteq longer \cup {<<f, s>> : s \in Sections}, longer \subseteq longer',
         \A s \in Sections :
           Shows(new.shown[s], recorded[f][s], <<f, s>> \notin longer')
  PROVE  IInv'
<1>1. /\ noted \in [Files -> SUBSET Notes] /\ longer \subseteq Files \X Sections
      /\ recorded \in [Files -> [Sections -> Seq(Nat)]]
      /\ noted[f] \subseteq Written(doc[f]) \cup lost \cup taken
  BY DEF IInv, FilesOK, UserTextKept
<1>2. noted' \in [Files -> SUBSET Notes] /\ noted'[f] = noted[f] \cup {n}
      /\ \A g \in Files \ {f} : noted'[g] = noted[g]
  BY <1>1
<1>3. longer' \subseteq Files \X Sections
      /\ \A g \in Files \ {f}, s \in Sections : <<g, s>> \in longer' => <<g, s>> \in longer
  BY <1>1
<1>4. noted'[f] \subseteq Written(new) \cup lost \cup taken
  BY <1>1, <1>2
<1> QED
  BY <1>1, <1>2, <1>3, <1>4, UnlockedInv

\* Outside the memories.
LEMMA NoteOutside ==
  ASSUME IInv, NEW f \in Files, NEW n \in Notes, NEW new, Unlocked(f, new),
         new \in Doc, new.exists, new.shown = doc[f].shown,
         \A s \in Sections : doc[f].above[s] \subseteq new.above[s],
         doc[f].text \subseteq new.text, doc[f].pins \subseteq new.pins,
         doc[f].inblock \subseteq new.inblock,
         \/ n \in new.text \cup new.pins \cup new.inblock
         \/ \E s \in Sections : n \in new.above[s],
         noted' = [noted EXCEPT ![f] = @ \cup {n}], UNCHANGED <<longer, recorded>>
  PROVE  IInv'
<1>1. DocOK(doc[f])
  BY DEF IInv, FilesOK
<1>2. DocOK(new)
  BY <1>1 DEF DocOK
<1>3. \A s \in Sections : SectionOf(s) = s /\ s \in Memorial /\ s # "session"
  BY DEF SectionOf, Sections, Memorial
<1>4. \A s \in Sections \cup {"session"} : Inside(s, doc[f]) \subseteq Inside(s, new)
  BY <1>3 DEF Inside
<1>5. Written(doc[f]) \subseteq Written(new)
  <2>1. Grows(doc[f], new)
    BY <1>4 DEF Grows
  <2> QED
    BY <2>1, WrittenGrows
<1>6. n \in Written(new)
  <2>1. CASE n \in new.text \cup new.pins \cup new.inblock
    BY <2>1 DEF Written, Inside
  <2>2. CASE \E s \in Sections : n \in new.above[s]
    BY <1>3, <2>2 DEF Written, Inside
  <2> QED
    BY <2>1, <2>2
<1>7. \A s \in Sections : Shows(new.shown[s], recorded[f][s], <<f, s>> \notin longer')
  BY DEF IInv, Recorded
<1>8. /\ Written(doc[f]) \cup {n} \subseteq Written(new)
      /\ recorded' = recorded /\ longer \subseteq longer'
      /\ longer' \subseteq longer \cup {<<f, s>> : s \in Sections}
  BY <1>5, <1>6
<1> QED
  BY <1>2, <1>7, <1>8, NoteInv

LEMMA NoteAnywhereInv == ASSUME IInv, NEW f \in Files, WriteNote(f) PROVE IInv'
<1>1. PICK n \in Notes :
        /\ \/ Unlocked(f, [doc[f] EXCEPT !.exists = TRUE, !.text = @ \cup {n}])
           \/ Unlocked(f, [doc[f] EXCEPT !.exists = TRUE, !.pins = @ \cup {n}])
           \/ \E k \in {"pair", "broken"} :
                Unlocked(f, [doc[f] EXCEPT !.exists = TRUE, !.kernel = k,
                                           !.text = @ \cup {n}])
           \/ doc[f].block /\ Unlocked(f, [doc[f] EXCEPT !.inblock = @ \cup {n}])
        /\ noted' = [noted EXCEPT ![f] = @ \cup {n}]
  BY DEF WriteNote
<1>2. UNCHANGED <<longer, recorded>>
  BY DEF WriteNote
<1>3. doc[f] \in Doc /\ (doc[f].block => doc[f].exists)
  BY DEF IInv, FilesOK, DocOK
<1> DEFINE Same(new) == /\ new \in Doc /\ new.exists /\ new.shown = doc[f].shown
                        /\ new.above = doc[f].above
                        /\ doc[f].text \subseteq new.text /\ doc[f].pins \subseteq new.pins
                        /\ doc[f].inblock \subseteq new.inblock
                        /\ n \in new.text \cup new.pins \cup new.inblock
           text == [doc[f] EXCEPT !.exists = TRUE, !.text = @ \cup {n}]
           pins == [doc[f] EXCEPT !.exists = TRUE, !.pins = @ \cup {n}]
           home(k) == [doc[f] EXCEPT !.exists = TRUE, !.kernel = k,
                                     !.text = @ \cup {n}]
           block == [doc[f] EXCEPT !.inblock = @ \cup {n}]
<1>4. /\ Same(text) /\ Same(pins) /\ \A k \in {"pair", "broken"} : Same(home(k))
      /\ doc[f].block => Same(block)
  BY <1>3 DEF Doc
<1>5. PICK new : Unlocked(f, new) /\ Same(new)
  <2> HIDE DEF text, pins, home, block, Same
  <2>1. \/ Unlocked(f, text) \/ Unlocked(f, pins)
        \/ \E k \in {"pair", "broken"} : Unlocked(f, home(k))
        \/ doc[f].block /\ Unlocked(f, block)
    BY <1>1 DEF text, pins, home, block
  <2> QED
    BY <1>4, <2>1
<1> QED
  BY <1>1, <1>2, <1>5, NoteOutside

\* Into a memory of a section, which then holds the entries t.
NotesMemory(f, n, s, t, new) ==
  /\ Unlocked(f, new) /\ new = [doc[f] EXCEPT !.shown[s] = t]
  /\ doc[f].exists /\ Len(t) = Len(doc[f].shown[s])
  /\ \A j \in DOMAIN t : /\ t[j].id = doc[f].shown[s][j].id
                         /\ doc[f].shown[s][j].head \subseteq t[j].head
                         /\ doc[f].shown[s][j].below \subseteq t[j].below
  /\ \E j \in DOMAIN t : n \in t[j].head \cup t[j].below
  /\ <<f, s>> \notin longer' => \A j \in DOMAIN t : t[j].head = doc[f].shown[s][j].head
  /\ longer' \subseteq longer \cup {<<f, s>>} /\ longer \subseteq longer'
  /\ noted' = [noted EXCEPT ![f] = @ \cup {n}] /\ recorded' = recorded

LEMMA NoteInMemory ==
  ASSUME IInv, NEW f \in Files, NEW n \in Notes, NEW s \in Sections,
         NEW t \in Seq(Entry), NEW new, NotesMemory(f, n, s, t, new)
  PROVE  IInv'
<1> DEFINE d == doc[f]
           old == d.shown[s]
<1>0. /\ Unlocked(f, new) /\ new = [doc[f] EXCEPT !.shown[s] = t]
      /\ doc[f].exists /\ Len(t) = Len(doc[f].shown[s])
      /\ \A j \in DOMAIN t : /\ t[j].id = doc[f].shown[s][j].id
                             /\ doc[f].shown[s][j].head \subseteq t[j].head
                             /\ doc[f].shown[s][j].below \subseteq t[j].below
      /\ \E j \in DOMAIN t : n \in t[j].head \cup t[j].below
      /\ <<f, s>> \notin longer' =>
           \A j \in DOMAIN t : t[j].head = doc[f].shown[s][j].head
      /\ longer' \subseteq longer \cup {<<f, s>>} /\ longer \subseteq longer'
      /\ noted' = [noted EXCEPT ![f] = @ \cup {n}] /\ recorded' = recorded
  BY DEF NotesMemory
<1>1. /\ DocOK(d) /\ d \in Doc /\ d.shown \in [Sections -> Seq(Entry)]
      /\ old \in Seq(Entry)
  BY DEF IInv, FilesOK, Doc
<1>2. DOMAIN t = 1 .. Len(t) /\ DOMAIN old = 1 .. Len(t)
  BY <1>0, <1>1
<1> HIDE DEF d
<1>3. PICK sh : sh = [d.shown EXCEPT ![s] = t]
  OBVIOUS
<1>4. sh \in [Sections -> Seq(Entry)]
  BY <1>1, <1>3
<1>5. new = [d EXCEPT !.shown = sh]
  BY <1>0, <1>3 DEF d
<1>6. /\ new \in Doc /\ new.exists /\ new.shown = sh /\ new.above = d.above
      /\ new.text = d.text /\ new.pins = d.pins /\ new.inblock = d.inblock
  BY <1>0, <1>1, <1>4, <1>5 DEF Doc, d
<1>7. new.shown[s] = t /\ \A r \in Sections \ {s} : new.shown[r] = d.shown[r]
  BY <1>1, <1>3, <1>6
<1>8. DocOK(new)
  <2>1. ~Plain(t)
    BY <1>0 DEF Plain
  <2>2. Len(t) <= MaxMemories
    BY <1>0, <1>1 DEF DocOK, d
  <2> QED
    BY <1>1, <1>6, <1>7, <2>1, <2>2 DEF DocOK
<1>9. SectionOf(s) = s /\ s # "session" /\ s \in Memorial
  BY DEF SectionOf, Sections, Memorial
<1>10. /\ Inside(s, d) = d.above[s] \cup UNION {old[i].head \cup old[i].below : i \in DOMAIN old}
       /\ Inside(s, new) = d.above[s] \cup UNION {t[i].head \cup t[i].below : i \in DOMAIN t}
  BY <1>6, <1>7, <1>9 DEF Inside
<1>11. /\ UNION {old[i].head \cup old[i].below : i \in DOMAIN old}
            \subseteq UNION {t[i].head \cup t[i].below : i \in DOMAIN t}
       /\ n \in UNION {t[i].head \cup t[i].below : i \in DOMAIN t}
  BY <1>0, <1>2 DEF d
<1>12. Inside(s, d) \subseteq Inside(s, new) /\ n \in Inside(s, new)
  BY <1>10, <1>11
<1>13. \A r \in Sections \cup {"session"} : Inside(r, d) \subseteq Inside(r, new)
  <2> TAKE r \in Sections \cup {"session"}
  <2>1. CASE r = "session"
    BY <1>6, <2>1, InsideSame
  <2>2. CASE r = s
    BY <1>12, <2>2
  <2>3. CASE r \in Sections \ {s}
    <3>1. d.above[r] = new.above[r] /\ d.shown[r] = new.shown[r]
      BY <1>6, <1>7, <2>3
    <3> QED
      BY <2>3, <3>1, InsideSame
  <2> QED
    BY <2>1, <2>2, <2>3
<1>14. Written(d) \cup {n} \subseteq Written(new)
  <2>1. Written(d) \subseteq Written(new)
    <3>1. d.text \subseteq new.text /\ d.pins \subseteq new.pins
      BY <1>6
    <3>2. Grows(d, new)
      BY <1>13, <3>1 DEF Grows
    <3> QED
      BY ONLY <3>2, WrittenGrows
  <2>2. n \in Written(new)
    BY <1>12 DEF Written
  <2> QED
    BY <2>1, <2>2
<1>15. ASSUME NEW r \in Sections
       PROVE  Shows(new.shown[r], recorded[f][r], <<f, r>> \notin longer')
  <2>1. Shows(d.shown[r], recorded[f][r], <<f, r>> \notin longer)
    BY DEF IInv, Recorded, d
  <2>2. CASE r = s
    <3>1. Shows(old, recorded[f][s], <<f, s>> \notin longer)
      BY <2>1, <2>2
    <3>2. <<f, s>> \notin longer' => Short(old) /\ <<f, s>> \notin longer
      BY <1>0, <3>1 DEF Shows
    <3>3. <<f, s>> \notin longer' => Short(t)
      BY <1>0, <1>2, <3>2 DEF Short, d
    <3>4. Len(t) = Len(old) /\ \A j \in 1 .. Len(t) : t[j].id = old[j].id
      BY <1>0, <1>2 DEF d
    <3>5. Shows(t, recorded[f][s], <<f, s>> \notin longer')
      BY <3>1, <3>2, <3>3, <3>4 DEF Shows
    <3> QED
      BY <1>7, <2>2, <3>5
  <2>3. CASE r # s
    <3>1. (<<f, r>> \notin longer') = (<<f, r>> \notin longer)
      BY <1>0, <2>3
    <3> QED
      BY <1>7, <2>1, <2>3, <3>1
  <2> QED
    BY <2>2, <2>3
<1>16. longer' \subseteq longer \cup {<<f, r>> : r \in Sections}
  BY <1>0
<1> QED
  BY <1>0, <1>8, <1>14, <1>15, <1>16, NoteInv DEF d

LEMMA NoteInSectionInv == ASSUME IInv, NEW f \in Files, WriteInSection(f) PROVE IInv'
<1>1. PICK n \in Notes, s \in Sections :
        /\ \/ /\ Unlocked(f, [doc[f] EXCEPT !.above[s] = @ \cup {n}])
              /\ UNCHANGED longer
           \/ \E i \in DOMAIN doc[f].shown[s] :
                /\ Unlocked(f, [doc[f] EXCEPT !.shown[s][i] = BelowMemory(@, n)])
                /\ UNCHANGED longer
           \/ \E i \in DOMAIN doc[f].shown[s] :
                /\ Unlocked(f, [doc[f] EXCEPT !.shown[s][i] = InHead(@, n)])
                /\ longer' = longer \cup {<<f, s>>}
        /\ noted' = [noted EXCEPT ![f] = @ \cup {n}]
  BY DEF WriteInSection
<1>2. doc[f].exists /\ recorded' = recorded
  BY DEF WriteInSection
<1>3. PICK d \in Doc : d = doc[f]
  BY DEF IInv, FilesOK
<1>4. d.shown \in [Sections -> Seq(Entry)] /\ d.above \in [Sections -> SUBSET Notes]
  BY DEF Doc
<1>5. CASE /\ Unlocked(f, [doc[f] EXCEPT !.above[s] = @ \cup {n}])
           /\ UNCHANGED longer
  <2>1. PICK ab : ab = [d.above EXCEPT ![s] = @ \cup {n}]
    OBVIOUS
  <2>2. PICK new : new = [d EXCEPT !.above = ab]
    OBVIOUS
  <2>3. Unlocked(f, new)
    BY <1>3, <1>5, <2>1, <2>2
  <2>4. /\ ab \in [Sections -> SUBSET Notes] /\ n \in ab[s]
        /\ \A r \in Sections : d.above[r] \subseteq ab[r]
    BY <1>4, <2>1
  <2>5. /\ new \in Doc /\ new.exists /\ new.shown = d.shown /\ new.above = ab
        /\ new.text = d.text /\ new.pins = d.pins /\ new.inblock = d.inblock
    BY <1>2, <1>3, <2>2, <2>4 DEF Doc
  <2>6. /\ \A r \in Sections : doc[f].above[r] \subseteq new.above[r]
        /\ \E r \in Sections : n \in new.above[r]
        /\ doc[f].text \subseteq new.text /\ doc[f].pins \subseteq new.pins
        /\ doc[f].inblock \subseteq new.inblock /\ new.shown = doc[f].shown
    BY <1>3, <2>4, <2>5
  <2>7. noted' = [noted EXCEPT ![f] = @ \cup {n}] /\ UNCHANGED <<longer, recorded>>
    BY <1>1, <1>2, <1>5
  <2> QED
    BY <2>3, <2>5, <2>6, <2>7, NoteOutside
<1>6. ASSUME NEW i \in DOMAIN d.shown[s], NEW e \in Entry,
             Unlocked(f, [doc[f] EXCEPT !.shown[s] = [@ EXCEPT ![i] = e]]),
             e.id = d.shown[s][i].id, d.shown[s][i].head \subseteq e.head,
             d.shown[s][i].below \subseteq e.below, n \in e.head \cup e.below,
             (longer' = longer /\ e.head = d.shown[s][i].head)
               \/ longer' = longer \cup {<<f, s>>}
      PROVE  IInv'
  <2>1. PICK old \in Seq(Entry) : old = d.shown[s]
    BY <1>4
  <2>2. PICK t : t = [old EXCEPT ![i] = e]
    OBVIOUS
  <2>3. /\ t \in Seq(Entry) /\ Len(t) = Len(old) /\ DOMAIN t = DOMAIN old /\ t[i] = e
        /\ i \in DOMAIN t /\ \A j \in DOMAIN t \ {i} : t[j] = old[j]
    BY <1>6, <2>1, <2>2
  <2>4. PICK new : new = [doc[f] EXCEPT !.shown[s] = t]
    OBVIOUS
  <2>5. Unlocked(f, new)
    <3>1. new = [doc[f] EXCEPT !.shown[s] = [@ EXCEPT ![i] = e]]
      BY <1>3, <1>4, <2>1, <2>2, <2>4
    <3> QED
      BY <1>6, <3>1
  <2>6. \A j \in DOMAIN t : /\ t[j].id = doc[f].shown[s][j].id
                            /\ doc[f].shown[s][j].head \subseteq t[j].head
                            /\ doc[f].shown[s][j].below \subseteq t[j].below
    <3> TAKE j \in DOMAIN t
    <3>1. CASE j = i
      BY <1>3, <1>6, <2>1, <2>3, <3>1
    <3>2. CASE j # i
      BY <1>3, <2>1, <2>3, <3>2
    <3> QED
      BY <3>1, <3>2
  <2>7. \E j \in DOMAIN t : n \in t[j].head \cup t[j].below
    BY <1>6, <2>3
  <2>8. <<f, s>> \notin longer' => \A j \in DOMAIN t : t[j].head = doc[f].shown[s][j].head
    <3> SUFFICES ASSUME <<f, s>> \notin longer', NEW j \in DOMAIN t
                 PROVE  t[j].head = doc[f].shown[s][j].head
      OBVIOUS
    <3>1. e.head = d.shown[s][i].head
      BY <1>6
    <3>2. CASE j = i
      BY <1>3, <2>3, <3>1, <3>2
    <3>3. CASE j # i
      BY <1>3, <2>1, <2>3, <3>3
    <3> QED
      BY <3>2, <3>3
  <2>9. /\ longer' \subseteq longer \cup {<<f, s>>} /\ longer \subseteq longer'
        /\ noted' = [noted EXCEPT ![f] = @ \cup {n}] /\ Len(t) = Len(doc[f].shown[s])
    BY <1>1, <1>3, <1>6, <2>1, <2>3
  <2>10. NotesMemory(f, n, s, t, new)
    BY <1>2, <2>3, <2>4, <2>5, <2>6, <2>7, <2>8, <2>9 DEF NotesMemory
  <2> QED
    BY <2>3, <2>10, NoteInMemory
<1>7. ASSUME NEW i \in DOMAIN d.shown[s]
      PROVE  /\ d.shown[s][i] \in Entry
             /\ d.shown[s][i].tokens + NoteTokens \in Nat
  <2>1. d.shown[s][i] \in Entry
    BY <1>4
  <2> QED
    BY <2>1, BudgetAssumption DEF Entry
<1>8. ASSUME NEW i \in DOMAIN d.shown[s],
             Unlocked(f, [doc[f] EXCEPT !.shown[s][i] = BelowMemory(@, n)]),
             UNCHANGED longer
      PROVE  IInv'
  <2>1. PICK x \in Entry, k \in Nat : x = d.shown[s][i] /\ k = x.tokens + NoteTokens
    BY <1>7
  <2>2. PICK e : e = BelowMemory(x, n)
    OBVIOUS
  <2>3. /\ e \in Entry /\ e.id = x.id /\ e.head = x.head /\ x.below \subseteq e.below
        /\ n \in e.below
    BY <2>1, <2>2 DEF Entry, BelowMemory
  <2>4. Unlocked(f, [doc[f] EXCEPT !.shown[s] = [@ EXCEPT ![i] = e]])
    BY <1>3, <1>4, <1>8, <2>1, <2>2
  <2> QED
    BY <1>6, <1>8, <2>1, <2>3, <2>4
<1>9. ASSUME NEW i \in DOMAIN d.shown[s],
             Unlocked(f, [doc[f] EXCEPT !.shown[s][i] = InHead(@, n)]),
             longer' = longer \cup {<<f, s>>}
      PROVE  IInv'
  <2>1. PICK x \in Entry, k \in Nat : x = d.shown[s][i] /\ k = x.tokens + NoteTokens
    BY <1>7
  <2>2. PICK e : e = InHead(x, n)
    OBVIOUS
  <2>3. /\ e \in Entry /\ e.id = x.id /\ x.head \subseteq e.head /\ e.below = x.below
        /\ n \in e.head
    BY <2>1, <2>2 DEF Entry, InHead
  <2>4. Unlocked(f, [doc[f] EXCEPT !.shown[s] = [@ EXCEPT ![i] = e]])
    BY <1>3, <1>4, <1>9, <2>1, <2>2
  <2> QED
    BY <1>6, <1>9, <2>1, <2>3, <2>4
<1> QED
  BY <1>1, <1>3, <1>5, <1>8, <1>9

LEMMA BreakInv == ASSUME IInv, NEW f \in Files, BreakRegion(f) PROVE IInv'
<1>1. PICK d \in Doc : d = doc[f] /\ DocOK(d)
  BY DEF IInv, FilesOK
<1>2. PICK new : new = [d EXCEPT !.region = FALSE]
  OBVIOUS
<1>3. Unlocked(f, new) /\ noted' = noted /\ longer' = longer /\ recorded' = recorded
  BY <1>1, <1>2 DEF BreakRegion
<1>4. /\ new \in Doc /\ new.exists = d.exists /\ new.shown = d.shown /\ new.above = d.above
      /\ new.block = d.block
      /\ new.text = d.text /\ new.pins = d.pins /\ new.inblock = d.inblock
  BY <1>1, <1>2 DEF Doc
<1>5. Grows(d, new) /\ Grows(new, d)
  BY <1>4, InsideSame DEF Grows
<1>6. Written(new) = Written(d)
  <2>1. Written(d) \subseteq Written(new) /\ Written(new) \subseteq Written(d)
    BY <1>5, WrittenGrows
  <2> QED
    BY <2>1
<1>7. DocOK(new)
  BY <1>1, <1>4, <1>6 DEF DocOK
<1>8. noted'[f] \subseteq Written(new) \cup lost \cup taken
  BY <1>1, <1>3, <1>6 DEF IInv, UserTextKept
<1>9. \A s \in Sections : Shows(new.shown[s], recorded'[f][s], <<f, s>> \notin longer')
  BY <1>1, <1>3, <1>4 DEF IInv, Recorded
<1>10. /\ noted' \in [Files -> SUBSET Notes] /\ longer' \subseteq Files \X Sections
       /\ recorded' \in [Files -> [Sections -> Seq(Nat)]] /\ longer \subseteq longer'
       /\ \A g \in Files \ {f} :
            /\ noted'[g] = noted[g] /\ recorded'[g] = recorded[g]
            /\ \A s \in Sections : <<g, s>> \in longer' => <<g, s>> \in longer
  BY <1>3 DEF IInv, FilesOK
<1> QED
  BY <1>3, <1>7, <1>8, <1>9, <1>10, UnlockedInv

LEMMA DeleteInv == ASSUME IInv, NEW f \in Files, Delete(f) PROVE IInv'
<1>1. /\ Unlocked(f, NoFile) /\ longer' = longer
      /\ noted' = [noted EXCEPT ![f] = {}]
      /\ recorded' = [recorded EXCEPT ![f] = [s \in Sections |-> <<>>]]
  BY DEF Delete
<1>2. /\ noted \in [Files -> SUBSET Notes] /\ longer \subseteq Files \X Sections
      /\ recorded \in [Files -> [Sections -> Seq(Nat)]]
  BY DEF IInv, FilesOK
<1>3. <<>> \in Seq(Nat)
  OBVIOUS
<1>4. /\ noted' \in [Files -> SUBSET Notes] /\ noted'[f] = {}
      /\ recorded' \in [Files -> [Sections -> Seq(Nat)]]
      /\ \A s \in Sections : recorded'[f][s] = <<>>
      /\ \A g \in Files \ {f} : noted'[g] = noted[g] /\ recorded'[g] = recorded[g]
  BY <1>1, <1>2, <1>3
<1>5. \A s \in Sections : Shows(NoFile.shown[s], recorded'[f][s], <<f, s>> \notin longer')
  <2>1. \A s \in Sections : NoFile.shown[s] = <<>>
    BY DEF NoFile
  <2> QED
    BY <1>4, <2>1, ShowsNothing
<1>6. DocOK(NoFile) /\ noted'[f] \subseteq Written(NoFile) \cup lost \cup taken
  BY <1>4, NoFileOK
<1>7. longer' \subseteq Files \X Sections /\ longer \subseteq longer'
      /\ \A g \in Files \ {f} :
           /\ noted'[g] = noted[g] /\ recorded'[g] = recorded[g]
           /\ \A s \in Sections : <<g, s>> \in longer' => <<g, s>> \in longer
  BY <1>1, <1>2, <1>4
<1> QED
  BY <1>1, <1>4, <1>5, <1>6, <1>7, UnlockedInv

LEMMA ForgetInv == ASSUME IInv, Forget PROVE IInv'
<1>1. PICK i \in DOMAIN store :
        store' = SubSeq(store, 1, i - 1) \o SubSeq(store, i + 1, Len(store))
  BY DEF Forget
<1>2. /\ edits < MaxEdits /\ edits' = edits + 1 /\ saves' = saves /\ writes' = writes
      /\ UNCHANGED <<files, lock, pc, op, file, snap, mem, stale>>
  BY DEF Forget, procVars, history, files
<1>3. store' \in Seq(Nat)
  <2>1. PICK n \in Nat : n = Len(store) /\ DOMAIN store = 1 .. n /\ store \in Seq(Nat)
    BY DEF IInv, StoreOK
  <2>2. SubSeq(store, 1, i - 1) \in Seq(Nat)
    BY <2>1
  <2>3. SubSeq(store, i + 1, n) \in Seq(Nat)
    BY <2>1
  <2> QED
    BY <1>1, <2>1, <2>2, <2>3
<1>4. StoreOK'
  BY <1>2, <1>3, BoundsAssumption DEF IInv, StoreOK
<1>5. BusyInv'
  <2>1. Busy' = Busy
    BY <1>2 DEF Busy
  <2> QED
    BY <1>2, <2>1 DEF IInv, BusyInv
<1>6. ProcsOK' /\ Holds' /\ PlanWanted' /\ WriteWanted' /\ Fresh' /\ SnapShort'
  BY <1>2 DEF IInv, ProcsOK, Holds, PlanWanted, WriteWanted, Fresh, SnapShort, files
<1> QED
  BY <1>2, <1>4, <1>5, <1>6, FilesStay DEF IInv

-----------------------------------------------------------------------------
(* The theorems. *)

LEMMA InvStep == IInv /\ [Next]_vars => IInv'
<1> SUFFICES ASSUME IInv, [Next]_vars PROVE IInv'
  OBVIOUS
<1>1. ASSUME NEW p \in Procs, Start(p) \/ Step(p) \/ Fail(p) PROVE IInv'
  <2>1. CASE LockTimesOut(p) \/ Fail(p)
    <3>1. End(p) /\ pc[p] # "idle" /\ UNCHANGED <<files, store, counters>>
      BY <2>1 DEF LockTimesOut, Fail, files
    <3> QED
      BY <3>1, EndInv
  <2> QED
    BY <1>1, <2>1, StartInv, LookInv, PlanInv, LockInv, ReadInv, WriteInv DEF Step
<1>2. ASSUME NEW f \in Files, WriteNote(f) \/ WriteInSection(f) \/ BreakRegion(f) \/ Delete(f)
      PROVE  IInv'
  BY <1>2, NoteAnywhereInv, NoteInSectionInv, BreakInv, DeleteInv
<1>3. CASE UNCHANGED vars
  <2>1. Busy' = Busy
    BY <1>3 DEF vars, procVars, Busy
  <2>2. /\ UNCHANGED <<doc, lock, pc, op, file, snap, mem, store, writes, edits, saves>>
        /\ UNCHANGED <<stale, noted, lost, taken, longer, recorded>>
    BY <1>3 DEF vars, procVars, counters, history
  <2>3. ProcsOK' /\ StoreOK' /\ FilesOK' /\ BusyInv'
    BY <2>1, <2>2 DEF IInv, ProcsOK, StoreOK, FilesOK, BusyInv
  <2>4. Holds' /\ PlanWanted' /\ WriteWanted' /\ Fresh' /\ SnapShort'
    BY <2>2 DEF IInv, Holds, PlanWanted, WriteWanted, Fresh, SnapShort
  <2>5. Recorded' /\ UserTextKept'
    BY <2>2 DEF IInv, Recorded, UserTextKept
  <2> QED
    BY <2>3, <2>4, <2>5 DEF IInv
<1> QED
  BY <1>1, <1>2, <1>3, ForgetInv DEF Next

LEMMA InvAlways == Spec => []IInv
BY InvInit, InvStep, PTL DEF Spec

\* For any number of processes, files' contents and edits: what users write is
\* still there, unless it came between the read and the write of one operation, or
\* stood in the very section of memories or session block that an operation rebuilt.
THEOREM UserTextAlwaysKept == Spec => []UserTextKept
<1>1. IInv => UserTextKept
  BY DEF IInv
<1> QED
  BY <1>1, InvAlways, PTL

\* For any number of processes: every write is its operation on the file as it
\* is at that moment.
THEOREM WritesAreAtomic == Spec => WritesAtomic
<1> DEFINE A ==
      \A p \in Procs :
       (Write(p) /\ p \notin stale) =>
          /\ Wanted(op[p], doc[file[p]])
          /\ \E sizes \in [DOMAIN mem[p] -> Sizes] :
               doc' = [doc EXCEPT ![file[p]] =
                         Effect(op[p], Entries(mem[p], sizes), @)]
<1>1. IInv => A
  <2> SUFFICES ASSUME IInv, NEW p \in Procs, Write(p), p \notin stale
               PROVE  /\ Wanted(op[p], doc[file[p]])
                      /\ \E sizes \in [DOMAIN mem[p] -> Sizes] :
                           doc' = [doc EXCEPT ![file[p]] =
                             Effect(op[p], Entries(mem[p], sizes), @)]
    OBVIOUS
  <2>1. snap[p] = doc[file[p]] /\ Wanted(op[p], doc[file[p]])
    BY DEF IInv, Fresh, WriteWanted, Write
  <2> QED
    BY <2>1 DEF Write
<1>2. IInv /\ [Next]_vars => [A]_vars
  BY <1>1
<1> QED
  BY <1>2, InvAlways, PTL DEF Spec, WritesAtomic

\* Every variable of CLAUDE.md's writers keeps its type: in particular no
\* section ever holds more memories than MaxMemories, whatever the sizes of the
\* entries and whoever edits the file, and no more is written than allowed.
THEOREM TypeCorrect == Spec => []TypeOK
<1>1. IInv => TypeOK
  <2> SUFFICES ASSUME IInv PROVE TypeOK
    OBVIOUS
  <2>1. writes \in 0 .. MaxWrites
    <3>1. writes \in Nat /\ Cardinality(Busy) \in Nat
          /\ writes + Cardinality(Busy) <= MaxWrites
      BY FS_CardinalityType DEF IInv, BusyInv
    <3> QED
      BY <3>1, BoundsAssumption
  <2>2. \A f \in Files, s \in Sections : Len(doc[f].shown[s]) <= MaxMemories
    BY DEF IInv, FilesOK, DocOK
  <2> QED
    BY <2>1, <2>2 DEF IInv, ProcsOK, StoreOK, FilesOK, TypeOK
<1> QED
  BY <1>1, InvAlways, PTL

\* For any sizes of the memories and any interleaving of saves, searches, projections,
\* session starts, migrations and edits: each section shows the newest memories that
\* were written to it, in their order, never without the newest, all of them unless a
\* user lengthened one, and within its budget unless it holds text of users.
THEOREM NewestMemoriesShown == Spec => []MemoriesShown
<1>1. IInv => MemoriesShown
  <2> SUFFICES ASSUME IInv, NEW f \in Files, NEW s \in Sections
               PROVE  LET shown == doc[f].shown[s] IN
                      /\ Len(shown) <= Len(recorded[f][s])
                      /\ Ids(shown) = SubSeq(recorded[f][s], 1, Len(shown))
                      /\ recorded[f][s] # <<>> => shown # <<>>
                      /\ <<f, s>> \notin longer => Len(shown) = Len(recorded[f][s])
                      /\ (\A i \in DOMAIN shown : shown[i].head \cup shown[i].below = {})
                           => Tokens(shown) <= TokenBudget[s]
    BY DEF MemoriesShown
  <2>1. PICK shown \in Seq(Entry), rec \in Seq(Nat) :
          shown = doc[f].shown[s] /\ rec = recorded[f][s]
    BY DEF IInv, FilesOK, Doc
  <2>2. Shows(shown, rec, <<f, s>> \notin longer)
    BY <2>1 DEF IInv, Recorded
  <2>3. /\ Len(shown) <= Len(rec) /\ \A i \in 1 .. Len(shown) : shown[i].id = rec[i]
    BY <2>2 DEF Shows
  <2>4. Ids(shown) = SubSeq(rec, 1, Len(shown))
    <3>1. PICK n \in Nat : n = Len(shown)
      OBVIOUS
    <3>2. /\ Ids(shown) \in Seq(Nat) /\ Len(Ids(shown)) = n
          /\ \A i \in 1 .. n : Ids(shown)[i] = shown[i].id
      BY <3>1, IdsType
    <3>3. /\ SubSeq(rec, 1, n) \in Seq(Nat) /\ Len(SubSeq(rec, 1, n)) = n
          /\ \A i \in 1 .. n : SubSeq(rec, 1, n)[i] = rec[i]
      BY <2>3, <3>1
    <3> QED
      BY <2>3, <3>1, <3>2, <3>3
  <2>5. rec # <<>> => shown # <<>>
    BY <2>2 DEF Shows
  <2>6. <<f, s>> \notin longer => Len(shown) = Len(rec)
    BY <2>2 DEF Shows
  <2>7. Plain(shown) => Tokens(shown) <= TokenBudget[s]
    BY <2>1 DEF IInv, FilesOK, DocOK
  <2> QED
    BY <2>1, <2>3, <2>4, <2>5, <2>6, <2>7 DEF Plain
<1> QED
  BY <1>1, InvAlways, PTL

-----------------------------------------------------------------------------
(* The backlog of a project, for any sessions and users, any items and any number of
   contents.  Kept is not inductive: that a replacement loses nothing follows from
   what the session's copy was read from (LoadedBase) and from what its comparison
   still says of the file (Vouched). *)

CONSTANTS Sessions, Items, MaxVersion
VARIABLES backlog, locked, aside, version, at, cmd, base, data, outdated, intent, overtaken

Log == INSTANCE Backlog WITH file <- backlog, pc <- at, stale <- outdated

CliStep(s) ==
  \/ Log!Start(s) \/ Log!FindMissing(s) \/ Log!FindPresent(s) \/ Log!ReadBaseline(s)
  \/ Log!ReadJson(s) \/ Log!Edit(s) \/ Log!EndWithoutSaving(s) \/ Log!Compare(s)
  \/ Log!Replace(s) \/ Log!Probe(s) \/ Log!Rename(s) \/ Log!Fail(s)

Loaded == {"edit", "compare", "replace"}

\* No content has a version still to come.
NotAhead == /\ backlog.ver <= version
            /\ \A s \in Sessions : base[s].ver <= version

\* A missing file is one value, and a copy about to be written is not missing.
OneAbsent == /\ backlog.form = "absent" => backlog = Log!Absent
             /\ \A s \in Sessions :
                  at[s] \in {"compare", "replace"} => data[s].form = "good"

\* While the file is what the session's baseline says, the session's copy was
\* parsed from it: this is where the baseline being read first matters.
LoadedBase ==
  \A s \in Sessions :
    (at[s] \in Loaded /\ base[s].form # "absent" /\ backlog = base[s])
       => data[s].items = backlog.items

\* A comparison that still stands says that the file is the baseline.
Vouched ==
  \A s \in Sessions : (at[s] = "replace" /\ s \notin outdated) => backlog = base[s]

IntentWritten == \A p \in intent : p[2] # 0

\* What the probe of an unforced repair found is still so, or the session is in
\* stale.
Probed ==
  \A s \in Sessions : (at[s] = "rename" /\ ~cmd[s].force /\ s \notin outdated)
                         => Log!Readable /\ backlog.form = "corrupt"

\* The inductive invariant.
LogInv == Log!TypeOK /\ NotAhead /\ OneAbsent /\ LoadedBase /\ Vouched
        /\ IntentWritten /\ Probed /\ Log!Kept

-----------------------------------------------------------------------------
LEMMA AbsentType ==
  ASSUME Items # {}, MaxVersion \in Nat
  PROVE  /\ Log!Absent \in Log!Doc
         /\ Log!NoCommand \in [kind : Log!Kinds, item : Items, force : BOOLEAN]
<1>1. 0 \in Log!Versions
  BY DEF Log!Versions
<1> QED
  BY <1>1 DEF Log!Absent, Log!Doc, Log!Forms, Log!NoCommand, Log!Kinds

LEMMA TypeInit ==
  ASSUME Items # {}, MaxVersion \in Nat
  PROVE  Log!Init => Log!TypeOK
<1> SUFFICES ASSUME Log!Init PROVE Log!TypeOK
  OBVIOUS
<1>1. version \in Log!Versions /\ backlog \in Log!Doc
  BY AbsentType DEF Log!Init, Log!Versions
<1>2. locked \in BOOLEAN /\ (locked => Log!Exists)
  BY DEF Log!Init
<1>3. /\ at \in [Sessions -> Log!Steps]
      /\ base \in [Sessions -> Log!Doc] /\ data \in [Sessions -> Log!Doc]
  BY AbsentType DEF Log!Init, Log!Steps
<1>4. cmd \in [Sessions -> [kind : Log!Kinds, item : Items, force : BOOLEAN]]
  BY AbsentType DEF Log!Init
<1> QED
  BY <1>1, <1>2, <1>3, <1>4 DEF Log!Init, Log!TypeOK

LEMMA EndTypes ==
  ASSUME Items # {}, MaxVersion \in Nat, Log!TypeOK, NEW s \in Sessions, Log!End(s),
         UNCHANGED <<Log!fileVars, intent, overtaken>>
  PROVE  Log!TypeOK'
<1>1. at' \in [Sessions -> Log!Steps]
  BY DEF Log!TypeOK, Log!End, Log!Goto, Log!Steps
<1>2. cmd' \in [Sessions -> [kind : Log!Kinds, item : Items, force : BOOLEAN]]
  BY AbsentType DEF Log!TypeOK, Log!End
<1>3. base' \in [Sessions -> Log!Doc] /\ data' \in [Sessions -> Log!Doc]
  BY AbsentType DEF Log!TypeOK, Log!End
<1>4. outdated' \subseteq Sessions
  BY DEF Log!TypeOK, Log!End
<1> QED
  BY <1>1, <1>2, <1>3, <1>4 DEF Log!TypeOK, Log!fileVars, Log!Exists, Log!Steps, Log!Doc,
     Log!Kinds, Log!Versions, Log!Forms

LEMMA TypeStep ==
  ASSUME Items # {}, MaxVersion \in Nat,
         Log!TypeOK, NEW s \in Sessions, CliStep(s)
  PROVE  Log!TypeOK'
<1>0. Log!Absent \in Log!Doc
      /\ Log!NoCommand \in [kind : Log!Kinds, item : Items, force : BOOLEAN]
  BY AbsentType
<1> USE <1>0 DEF Log!TypeOK, Log!Steps, Log!Exists, Log!Readable
<1>1. CASE Log!Start(s)
  BY <1>1 DEF Log!Start, Log!Goto, Log!fileVars, Log!history
<1>2. CASE Log!FindMissing(s) /\ ~Log!End(s)
  <2>1. [Log!Absent EXCEPT !.form = "good"] \in Log!Doc
    BY <1>0 DEF Log!Doc, Log!Forms
  <2> QED
    <3>1. data' \in [Sessions -> Log!Doc] /\ base' \in [Sessions -> Log!Doc]
      BY <1>0, <1>2, <2>1 DEF Log!FindMissing
    <3>2. at' \in [Sessions -> Log!Steps]
      BY <1>2 DEF Log!FindMissing, Log!Goto
    <3>3. UNCHANGED <<backlog, locked, aside, version, cmd, outdated, intent, overtaken>>
      BY <1>2 DEF Log!FindMissing, Log!fileVars
    <3> QED
      BY <3>1, <3>2, <3>3 DEF Log!Doc, Log!Versions, Log!Forms, Log!Kinds
<1>3. CASE Log!FindPresent(s)
  BY <1>3 DEF Log!FindPresent, Log!Goto, Log!fileVars, Log!history
<1>4. CASE Log!ReadBaseline(s)
  BY <1>4 DEF Log!ReadBaseline, Log!Goto, Log!BytesNow, Log!fileVars, Log!history
<1>5. CASE Log!ReadJson(s) /\ ~Log!End(s)
  BY <1>5 DEF Log!ReadJson, Log!Goto, Log!fileVars
<1>6. CASE Log!Edit(s)
  <2>1. [data[s] EXCEPT !.form = "good"] \in Log!Doc
    BY <1>0 DEF Log!Doc, Log!Forms
  <2> QED
    BY <1>6, <2>1 DEF Log!Edit, Log!Goto, Log!fileVars, Log!history
<1>7. CASE /\ Log!End(s)
           /\ \/ Log!FindMissing(s) \/ Log!ReadJson(s) \/ Log!Compare(s) \/ Log!Probe(s)
              \/ Log!EndWithoutSaving(s) \/ Log!Fail(s)
  <2>1. UNCHANGED <<Log!fileVars, intent, overtaken>>
    BY <1>7 DEF Log!FindMissing, Log!ReadJson, Log!Compare, Log!Probe, Log!EndWithoutSaving,
                Log!Fail, Log!fileVars
  <2> QED
    BY <1>7, <2>1, EndTypes
<1>8. CASE Log!Compare(s) /\ ~Log!End(s)
  BY <1>8 DEF Log!Compare, Log!Goto, Log!fileVars
<1>9. CASE Log!Replace(s)
  <2>1. version + 1 \in Log!Versions
    BY <1>9 DEF Log!Replace, Log!Versions
  <2>2. [data[s] EXCEPT !.items[cmd[s].item] = version + 1, !.ver = version + 1] \in Log!Doc
    BY <2>1 DEF Log!Doc
  <2>3. intent' \subseteq Items \X Log!Versions /\ overtaken' \subseteq Items \X Log!Versions
    BY <1>9, <2>1 DEF Log!Replace, Log!InFile
  <2> QED
    BY <1>9, <2>1, <2>2, <2>3 DEF Log!Replace, Log!Goto, Log!Overtakes
<1>10. CASE Log!Probe(s) /\ ~Log!End(s)
  BY <1>10 DEF Log!Probe, Log!Goto, Log!fileVars
<1>11. CASE Log!Rename(s)
  BY <1>11 DEF Log!Rename, Log!Goto, Log!Overtakes
<1>12. CASE Log!EndWithoutSaving(s) \/ Log!Fail(s)
  BY <1>7, <1>12 DEF Log!EndWithoutSaving, Log!Fail
<1> QED
  BY <1>1, <1>2, <1>3, <1>4, <1>5, <1>6, <1>7, <1>8, <1>9, <1>10, <1>11, <1>12
     DEF CliStep

LEMMA TypeOther ==
  ASSUME Items # {}, MaxVersion \in Nat,
         Log!TypeOK, Log!HandEdit \/ Log!Chmod
  PROVE  Log!TypeOK'
<1>1. CASE Log!HandEdit
  <2>0. version < MaxVersion /\ version \in Log!Versions
    BY <1>1 DEF Log!HandEdit, Log!TypeOK
  <2>1. version + 1 \in Log!Versions
    BY <2>0 DEF Log!Versions
  <2>2. PICK form \in Log!Forms \ {"absent", backlog.form} :
          backlog' = [backlog EXCEPT !.form = form, !.ver = version + 1]
    BY <1>1 DEF Log!HandEdit
  <2>3. backlog' \in Log!Doc
    BY <2>1, <2>2 DEF Log!TypeOK, Log!Doc
  <2>4. locked' => Log!Exists'
    BY <1>1 DEF Log!HandEdit, Log!Readable
  <2> QED
    BY <1>1, <2>1, <2>3, <2>4 DEF Log!HandEdit, Log!TypeOK, Log!procVars, Log!Steps,
       Log!Kinds
<1>2. CASE Log!Chmod
  BY <1>2 DEF Log!Chmod, Log!TypeOK, Log!procVars, Log!Exists
<1> QED
  BY <1>1, <1>2

-----------------------------------------------------------------------------
(* What a change of the backlog leaves to the others *)

\* Actions that leave the file and its readability alone.
Quiet(s) == CliStep(s) /\ ~Log!Replace(s) /\ ~Log!Rename(s)

LEMMA QuietFile ==
  ASSUME NEW s \in Sessions, Quiet(s)
  PROVE  /\ UNCHANGED <<backlog, locked, aside, version, intent, overtaken>>
         /\ outdated \ {s} \subseteq outdated'
         /\ \A t \in Sessions \ {s} : t \in outdated' <=> t \in outdated
BY DEF Quiet, CliStep, Log!Start, Log!FindMissing, Log!FindPresent, Log!ReadBaseline,
   Log!ReadJson, Log!Edit,
   Log!EndWithoutSaving, Log!Compare, Log!Probe, Log!Fail, Log!End, Log!Goto, Log!fileVars,
   Log!history

LEMMA OthersAlone ==
  ASSUME Log!TypeOK, NEW s \in Sessions, CliStep(s), NEW t \in Sessions, t # s
  PROVE  at'[t] = at[t] /\ cmd'[t] = cmd[t] /\ base'[t] = base[t] /\ data'[t] = data[t]
BY DEF Log!TypeOK, CliStep, Log!Start, Log!FindMissing, Log!FindPresent, Log!ReadBaseline,
   Log!ReadJson, Log!Edit,
   Log!EndWithoutSaving, Log!Compare, Log!Replace, Log!Probe, Log!Rename, Log!Fail,
   Log!End, Log!Goto

\* A new content is nobody's baseline.
LEMMA NewContent ==
  ASSUME Items # {}, MaxVersion \in Nat,
         Log!TypeOK, NotAhead, NEW t \in Sessions
  PROVE  version + 1 # base[t].ver
<1>1. version \in Nat /\ base[t].ver \in Nat /\ base[t].ver <= version
  BY DEF Log!TypeOK, NotAhead, Log!Doc, Log!Versions
<1> QED
  BY <1>1

LEMMA Replaced ==
  ASSUME Log!TypeOK, NEW s \in Sessions, Log!Replace(s)
  PROVE  /\ backlog'.ver = version + 1
         /\ backlog'.form = data[s].form
         /\ backlog'.items = [data[s].items EXCEPT ![cmd[s].item] = version + 1]
BY DEF Log!TypeOK, Log!Replace, Log!Doc

LEMMA Ended ==
  ASSUME Log!TypeOK, NEW s \in Sessions, Log!End(s)
  PROVE  /\ at'[s] = "idle" /\ cmd'[s] = Log!NoCommand
         /\ base'[s] = Log!Absent /\ data'[s] = Log!Absent
BY DEF Log!TypeOK, Log!End, Log!Goto

-----------------------------------------------------------------------------
(* One lemma per conjunct, for the steps of the command line *)

LEMMA NotAheadStep ==
  ASSUME Items # {}, MaxVersion \in Nat,
         Log!TypeOK, NotAhead, NEW s \in Sessions, CliStep(s)
  PROVE  NotAhead'
<1>0. version \in Nat /\ backlog.ver \in Nat /\ Log!Absent.ver = 0
  BY DEF Log!TypeOK, Log!Doc, Log!Versions, Log!Absent
<1>1. version' = version \/ version' = version + 1
  <2>1. CASE Log!Replace(s)
    BY <2>1 DEF Log!Replace
  <2>2. CASE Log!Rename(s)
    BY <2>2 DEF Log!Rename
  <2>3. CASE Quiet(s)
    BY <2>3, QuietFile
  <2> QED
    BY <2>1, <2>2, <2>3 DEF Quiet
<1>2. version' \in Nat /\ version <= version'
  BY <1>0, <1>1
<1>3. backlog'.ver <= version'
  <2>1. CASE Log!Replace(s)
    <3>1. backlog'.ver = version + 1 /\ version' = version + 1
      BY <2>1, Replaced DEF Log!Replace
    <3> QED
      BY <1>0, <3>1
  <2>2. CASE Log!Rename(s)
    BY <1>0, <2>2 DEF Log!Rename
  <2>3. CASE Quiet(s)
    BY <2>3, QuietFile DEF NotAhead
  <2> QED
    BY <2>1, <2>2, <2>3 DEF Quiet
<1>4. base'[s].ver <= version'
  <2>1. base'[s] \in {base[s], Log!Absent} \/ (base'[s] = backlog /\ version' = version)
    <3>1. CASE Log!ReadBaseline(s)
      BY <3>1 DEF Log!TypeOK, Log!ReadBaseline, Log!BytesNow, Log!fileVars
    <3>2. CASE Log!End(s)
      BY <3>2 DEF Log!End, Log!TypeOK
    <3>3. CASE Log!FindMissing(s) /\ ~Log!End(s)
      BY <3>3 DEF Log!FindMissing, Log!TypeOK
    <3>4. CASE Log!Start(s) \/ Log!FindPresent(s) \/ Log!Edit(s) \/ Log!Rename(s)
      BY <3>4 DEF Log!Start, Log!FindPresent, Log!Edit, Log!Rename
    <3>5. CASE (Log!ReadJson(s) \/ Log!Compare(s) \/ Log!Probe(s)) /\ ~Log!End(s)
      BY <3>5 DEF Log!ReadJson, Log!Compare, Log!Probe
    <3>6. CASE Log!Replace(s)
      BY <3>6 DEF Log!Replace, Log!TypeOK
    <3> QED
      BY <3>1, <3>2, <3>3, <3>4, <3>5, <3>6 DEF CliStep, Log!EndWithoutSaving, Log!Fail
  <2>2. base[s].ver <= version /\ base[s].ver \in Nat
    BY DEF NotAhead, Log!TypeOK, Log!Doc, Log!Versions
  <2> QED
    BY <2>1, <2>2, <1>0, <1>2 DEF NotAhead
<1>5. ASSUME NEW t \in Sessions, t # s PROVE base'[t].ver <= version'
  <2>1. base[t].ver <= version /\ base[t].ver \in Nat
    BY DEF NotAhead, Log!TypeOK, Log!Doc, Log!Versions
  <2> QED
    BY <2>1, <1>5, <1>0, <1>2, OthersAlone
<1> QED
  BY <1>3, <1>4, <1>5 DEF NotAhead

LEMMA OneAbsentStep ==
  ASSUME Log!TypeOK, OneAbsent, NEW s \in Sessions, CliStep(s)
  PROVE  OneAbsent'
<1>1. backlog'.form = "absent" => backlog' = Log!Absent
  <2>1. CASE Log!Replace(s)
    BY <2>1, Replaced DEF Log!Replace, OneAbsent
  <2>2. CASE Log!Rename(s)
    BY <2>2 DEF Log!Rename
  <2>3. CASE Quiet(s)
    BY <2>3, QuietFile DEF OneAbsent
  <2> QED
    BY <2>1, <2>2, <2>3 DEF Quiet
<1>2. at'[s] \in {"compare", "replace"} => data'[s].form = "good"
  <2>1. CASE Log!Edit(s)
    <3>1. data'[s].form = "good"
      BY <2>1 DEF Log!Edit, Log!TypeOK, Log!Doc
    <3> QED
      BY <3>1
  <2>2. CASE Log!Compare(s)
    BY <2>2, Ended DEF Log!Compare, Log!TypeOK, Log!Goto, OneAbsent
  <2>3. CASE ~Log!Edit(s) /\ ~Log!Compare(s)
    BY <2>3, Ended DEF Log!TypeOK, CliStep, Log!Start, Log!FindMissing, Log!FindPresent,
       Log!ReadBaseline, Log!ReadJson,
       Log!EndWithoutSaving, Log!Replace, Log!Probe, Log!Rename, Log!Fail, Log!Goto
  <2> QED
    BY <2>1, <2>2, <2>3
<1>3. ASSUME NEW t \in Sessions, t # s, at'[t] \in {"compare", "replace"}
      PROVE  data'[t].form = "good"
  BY <1>3, OthersAlone DEF OneAbsent
<1> QED
  BY <1>1, <1>2, <1>3 DEF OneAbsent

LEMMA LoadedBaseStep ==
  ASSUME Items # {}, MaxVersion \in Nat,
         Log!TypeOK, NotAhead, LoadedBase, NEW s \in Sessions, CliStep(s)
  PROVE  LoadedBase'
<1>1. ASSUME NEW t \in Sessions, t # s, at'[t] \in Loaded,
             base'[t].form # "absent", backlog' = base'[t]
      PROVE  data'[t].items = backlog'.items
  <2>0. /\ at[t] \in Loaded /\ base[t].form # "absent" /\ backlog' = base[t]
        /\ data'[t] = data[t]
    BY <1>1, OthersAlone
  <2>1. CASE Log!Replace(s)
    BY <2>0, <2>1, Replaced, NewContent
  <2>2. CASE Log!Rename(s)
    BY <2>0, <2>2 DEF Log!Rename, Log!Absent
  <2>3. CASE Quiet(s)
    BY <2>0, <2>3, QuietFile DEF LoadedBase
  <2> QED
    BY <2>1, <2>2, <2>3 DEF Quiet
<1>2. ASSUME at'[s] \in Loaded, base'[s].form # "absent", backlog' = base'[s]
      PROVE  data'[s].items = backlog'.items
  <2>1. CASE Log!FindMissing(s)
    <3>1. base'[s] = Log!Absent
      BY <2>1, Ended DEF Log!FindMissing, Log!TypeOK
    <3> QED
      BY <1>2, <3>1 DEF Log!Absent
  <2>2. CASE Log!ReadJson(s)
    <3>1. ~Log!End(s)
      BY <1>2, Ended DEF Loaded
    <3>2. data'[s] = backlog /\ backlog' = backlog
      BY <2>2, <3>1 DEF Log!ReadJson, Log!TypeOK, Log!fileVars
    <3> QED
      BY <3>2
  <2>3. CASE Log!Edit(s)
    <3>1. /\ base'[s] = base[s] /\ backlog' = backlog
          /\ at[s] = "edit" /\ data'[s].items = data[s].items
      BY <2>3 DEF Log!Edit, Log!TypeOK, Log!Doc, Log!fileVars
    <3> QED
      BY <1>2, <3>1 DEF LoadedBase, Loaded
  <2>4. CASE Log!Compare(s)
    <3>1. ~Log!End(s)
      BY <1>2, Ended DEF Loaded
    <3>2. base'[s] = base[s] /\ backlog' = backlog /\ at[s] = "compare" /\ data'[s] = data[s]
      BY <2>4, <3>1 DEF Log!Compare, Log!TypeOK, Log!fileVars
    <3> QED
      BY <1>2, <3>2 DEF LoadedBase, Loaded
  <2>5. CASE ~Log!FindMissing(s) /\ ~Log!ReadJson(s) /\ ~Log!Edit(s) /\ ~Log!Compare(s)
    <3>1. at'[s] \notin Loaded
      BY <2>5, Ended DEF Log!TypeOK, CliStep, Log!Start, Log!FindPresent, Log!ReadBaseline,
         Log!EndWithoutSaving, Log!Replace,
         Log!Probe, Log!Rename, Log!Fail, Log!Goto, Loaded
    <3> QED
      BY <1>2, <3>1
  <2> QED
    BY <2>1, <2>2, <2>3, <2>4, <2>5
<1> QED
  BY <1>1, <1>2 DEF LoadedBase

LEMMA VouchedStep ==
  ASSUME Log!TypeOK, OneAbsent, Vouched, NEW s \in Sessions, CliStep(s)
  PROVE  Vouched'
<1>1. ASSUME NEW t \in Sessions, t # s, at'[t] = "replace", t \notin outdated'
      PROVE  backlog' = base'[t]
  <2>0. at[t] = "replace" /\ base'[t] = base[t]
    BY <1>1, OthersAlone
  <2>1. ~Log!Replace(s) /\ ~Log!Rename(s)
    BY <2>0, <1>1 DEF Log!Replace, Log!Rename, Log!Overtakes
  <2>2. Quiet(s)
    BY <2>1 DEF Quiet
  <2> QED
    BY <2>0, <2>2, <1>1, QuietFile DEF Vouched
<1>2. ASSUME at'[s] = "replace", s \notin outdated' PROVE backlog' = base'[s]
  <2>1. Log!Compare(s)
    BY <1>2, Ended DEF Log!TypeOK, CliStep, Log!Start, Log!FindMissing, Log!FindPresent,
       Log!ReadBaseline, Log!ReadJson, Log!Edit,
       Log!EndWithoutSaving, Log!Replace, Log!Probe, Log!Rename, Log!Fail, Log!Goto
  <2>2. ~Log!End(s)
    BY <1>2, Ended
  <2>3. Log!BytesNow = base[s] /\ ~locked /\ base'[s] = base[s] /\ backlog' = backlog
    BY <1>2, <2>1, <2>2 DEF Log!Compare, Log!fileVars
  <2>4. Log!BytesNow = backlog
    BY <2>3 DEF Log!BytesNow, Log!Readable, Log!Exists, OneAbsent
  <2> QED
    BY <2>3, <2>4
<1> QED
  BY <1>1, <1>2 DEF Vouched

LEMMA IntentWrittenStep ==
  ASSUME Items # {}, MaxVersion \in Nat,
         Log!TypeOK, IntentWritten, NEW s \in Sessions, CliStep(s)
  PROVE  IntentWritten'
<1>1. CASE Log!Replace(s)
  <2>1. version + 1 # 0
    BY DEF Log!TypeOK, Log!Versions
  <2> QED
    BY <1>1, <2>1 DEF Log!Replace, IntentWritten
<1>2. CASE Log!Rename(s)
  BY <1>2 DEF Log!Rename, IntentWritten
<1>3. CASE Quiet(s)
  BY <1>3, QuietFile DEF IntentWritten
<1> QED
  BY <1>1, <1>2, <1>3 DEF Quiet

LEMMA ProbedStep ==
  ASSUME Log!TypeOK, Probed, NEW s \in Sessions, CliStep(s)
  PROVE  Probed'
<1>1. ASSUME NEW t \in Sessions, t # s, at'[t] = "rename", ~cmd'[t].force, t \notin outdated'
      PROVE  Log!Readable' /\ backlog'.form = "corrupt"
  <2>0. at[t] = "rename" /\ ~cmd[t].force
    BY <1>1, OthersAlone
  <2>1. ~Log!Replace(s) /\ ~Log!Rename(s)
    BY <2>0, <1>1 DEF Log!Replace, Log!Rename, Log!Overtakes
  <2>2. Quiet(s)
    BY <2>1 DEF Quiet
  <2> QED
    BY <2>0, <2>2, <1>1, QuietFile DEF Probed, Log!Readable, Log!Exists
<1>2. ASSUME at'[s] = "rename", ~cmd'[s].force, s \notin outdated'
      PROVE  Log!Readable' /\ backlog'.form = "corrupt"
  <2>1. Log!Probe(s)
    BY <1>2, Ended DEF Log!TypeOK, CliStep, Log!Start, Log!FindMissing, Log!FindPresent,
       Log!ReadBaseline, Log!ReadJson, Log!Edit,
       Log!EndWithoutSaving, Log!Compare, Log!Replace, Log!Rename, Log!Fail, Log!Goto
  <2>2. ~Log!End(s)
    BY <1>2, Ended
  <2> QED
    BY <1>2, <2>1, <2>2 DEF Log!Probe, Log!Readable, Log!Exists, Log!fileVars
<1> QED
  BY <1>1, <1>2 DEF Probed

LEMMA KeptStep ==
  ASSUME LogInv, NEW s \in Sessions, CliStep(s)
  PROVE  Log!Kept'
<1>1. CASE Log!Replace(s)
  <2> DEFINE i == cmd[s].item
             v == version + 1
  <2>0. i \in Items /\ backlog'.items = [data[s].items EXCEPT ![i] = v]
        /\ data[s].items \in [Items -> Log!Versions]
    BY <1>1, Replaced DEF LogInv, Log!TypeOK, Log!Doc
  <2>1. intent' = (intent \ {<<i, data[s].items[i]>>}) \cup {<<i, v>>}
    BY <1>1 DEF Log!Replace
  <2>2. aside' = aside /\ overtaken \subseteq overtaken'
    BY <1>1 DEF Log!Replace
  <2>3. backlog'.items[i] = v
    BY <2>0
  <2> HIDE DEF i, v
  <2>4. ASSUME NEW p \in intent, p # <<i, data[s].items[i]>>, backlog.items[p[1]] = p[2]
        PROVE  backlog'.items[p[1]] = p[2] \/ p \in overtaken'
    <3>0. p \in Items \X Log!Versions /\ p[2] # 0
      BY DEF LogInv, Log!TypeOK, IntentWritten
    <3>1. CASE s \in outdated
      BY <1>1, <2>4, <3>0, <3>1 DEF Log!Replace, Log!InFile
    <3>2. CASE s \notin outdated
      <4>1. backlog = base[s]
        BY <1>1, <3>2 DEF LogInv, Vouched, Log!Replace
      <4>2. backlog # Log!Absent
        BY <2>4, <3>0 DEF Log!Absent
      <4>3. backlog.form # "absent"
        BY <4>2 DEF LogInv, OneAbsent
      <4>4. data[s].items = backlog.items
        BY <1>1, <4>1, <4>3 DEF LogInv, LoadedBase, Loaded, Log!Replace
      <4>5. p[1] # i
        BY <2>4, <3>0, <4>4
      <4> QED
        BY <2>0, <2>4, <3>0, <4>4, <4>5
    <3> QED
      BY <3>1, <3>2
  <2> QED
    BY <2>1, <2>2, <2>3, <2>4 DEF LogInv, Log!Kept
<1>2. CASE Log!Rename(s)
  BY <1>2 DEF Log!Rename, LogInv, Log!Kept
<1>3. CASE Quiet(s)
  BY <1>3, QuietFile DEF LogInv, Log!Kept
<1> QED
  BY <1>1, <1>2, <1>3 DEF Quiet

-----------------------------------------------------------------------------
LEMMA HandEditStep ==
  ASSUME Items # {}, MaxVersion \in Nat,
         LogInv, Log!HandEdit
  PROVE  LogInv'
<1>0. Log!TypeOK'
  BY TypeOther DEF LogInv
<1>1. PICK form \in Log!Forms \ {"absent", backlog.form} :
        backlog' = [backlog EXCEPT !.form = form, !.ver = version + 1]
  BY DEF Log!HandEdit
<1>2. /\ backlog'.form = form /\ backlog'.ver = version + 1 /\ backlog'.items = backlog.items
      /\ UNCHANGED <<locked, aside, at, cmd, base, data, intent, overtaken>>
      /\ version' = version + 1
  BY <1>1 DEF LogInv, Log!TypeOK, Log!Doc, Log!HandEdit, Log!procVars
<1>3. NotAhead'
  <2>1. version \in Nat /\ \A s \in Sessions : base[s].ver \in Nat
    BY DEF LogInv, Log!TypeOK, Log!Versions, Log!Doc
  <2> QED
    BY <1>2, <2>1 DEF LogInv, NotAhead
<1>4. OneAbsent' /\ IntentWritten' /\ Log!Kept'
  BY <1>2 DEF LogInv, OneAbsent, IntentWritten, Log!Kept
<1>5. LoadedBase'
  BY <1>2, NewContent DEF LogInv, LoadedBase
<1>6. Vouched' /\ Probed'
  BY <1>2 DEF Log!HandEdit, Vouched, Probed
<1> QED
  BY <1>0, <1>3, <1>4, <1>5, <1>6 DEF LogInv

LEMMA ChmodStep ==
  ASSUME Items # {}, MaxVersion \in Nat,
         LogInv, Log!Chmod
  PROVE  LogInv'
<1>0. Log!TypeOK'
  BY TypeOther DEF LogInv
<1>1. UNCHANGED <<backlog, aside, version, at, cmd, base, data, intent, overtaken>>
      /\ outdated \subseteq outdated'
  BY DEF Log!Chmod, Log!procVars
<1>2. Probed'
  BY <1>1 DEF Log!Chmod, Probed
<1> QED
  BY <1>0, <1>1, <1>2
     DEF LogInv, NotAhead, OneAbsent, LoadedBase, Vouched, IntentWritten, Log!Kept

LEMMA LogInit ==
  ASSUME Items # {}, MaxVersion \in Nat
  PROVE  Log!Init => LogInv
<1> SUFFICES ASSUME Log!Init PROVE LogInv
  OBVIOUS
<1>1. NotAhead
  BY DEF Log!Init, NotAhead, Log!Absent
<1> QED
  BY <1>1, TypeInit DEF Log!Init, LogInv, OneAbsent, LoadedBase, Vouched, IntentWritten,
     Probed, Log!Kept,
     Loaded

LEMMA LogStep ==
  ASSUME Items # {}, MaxVersion \in Nat
  PROVE  LogInv /\ [Log!Next]_Log!vars => LogInv'
<1> SUFFICES ASSUME LogInv, [Log!Next]_Log!vars PROVE LogInv'
  OBVIOUS
<1>1. CASE UNCHANGED Log!vars
  BY <1>1 DEF Log!vars, Log!fileVars, Log!procVars, Log!history, LogInv, Log!TypeOK,
     NotAhead, OneAbsent, LoadedBase,
     Vouched, IntentWritten, Probed, Log!Kept, Log!Exists, Log!Readable
<1>2. ASSUME NEW s \in Sessions, CliStep(s) PROVE LogInv'
  BY <1>2, TypeStep, NotAheadStep, OneAbsentStep, LoadedBaseStep, VouchedStep,
     IntentWrittenStep, ProbedStep, KeptStep DEF LogInv
<1>3. CASE Log!HandEdit \/ Log!Chmod
  BY <1>3, HandEditStep, ChmodStep
<1> QED
  BY <1>1, <1>2, <1>3 DEF Log!Next, CliStep

LEMMA LogAlways ==
  ASSUME Items # {}, MaxVersion \in Nat
  PROVE  Log!Spec => []LogInv
<1>1. Log!Init => LogInv
  BY LogInit
<1>2. LogInv /\ [Log!Next]_Log!vars => LogInv'
  BY LogStep
<1> QED
  BY <1>1, <1>2, PTL DEF Log!Spec

\* Every variable keeps its type.
THEOREM BacklogTypeCorrect ==
  ASSUME Items # {}, MaxVersion \in Nat
  PROVE  Log!Spec => []Log!TypeOK
<1>1. LogInv => Log!TypeOK
  BY DEF LogInv
<1> QED
  BY <1>1, LogAlways, PTL

\* Whatever the sessions, their users and their repairs do, a write that was
\* reported and not knowingly superseded is in the file or in a copy, or was
\* replaced in the window between a comparison and its os.replace (save,
\* load_or_create, repair).
THEOREM WritesKept ==
  ASSUME Items # {}, MaxVersion \in Nat
  PROVE  Log!Spec => []Log!Kept
<1>1. LogInv => Log!Kept
  BY DEF LogInv
<1> QED
  BY <1>1, LogAlways, PTL

\* repair without --force moves aside only what its probe found corrupt, unless
\* the file changed in between (repair).
THEOREM RepairSparesReadableAlways ==
  ASSUME Items # {}, MaxVersion \in Nat
  PROVE  Log!Spec => Log!RepairSparesReadable
<1>1. LogInv => \A s \in Sessions :
                (Log!Rename(s) /\ ~cmd[s].force /\ s \notin outdated)
                   => Log!Readable /\ backlog.form = "corrupt"
  BY DEF LogInv, Probed, Log!Rename
<1> QED
  BY <1>1, LogAlways, PTL DEF Log!RepairSparesReadable

=============================================================================
