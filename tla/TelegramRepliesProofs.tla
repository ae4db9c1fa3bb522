----------------------- MODULE TelegramRepliesProofs -----------------------
(***************************************************************************)
(* Which answer a question may return, where each reply of the user is,    *)
(* and which questions the clean-up may cancel, for any questions, timeouts *)
(* and limits.                                                             *)
(***************************************************************************)
EXTENDS TelegramReplies, FiniteSetTheorems, WellFoundedInduction, TLAPS

Given == 1..Len(replies)

Labels == {"idle", "sending", "waiting", "refused", "failed", "answered", "cancelled",
           "timeout"}

Typed ==
    /\ posted \in Seq(Asks \cup {Note})
    /\ replies \in Seq([to : Nat, kind : Kinds]) /\ Len(replies) <= MaxReplies
    /\ arrived \in Seq(Given) /\ updates \in Seq(Given)
    /\ handling \in Given \cup {NoReply}
    /\ pc \in [Asks -> Labels]
    /\ msg = [a \in Asks |-> msg[a]]
    /\ stamped \subseteq Asks
    /\ age \in [Asks -> Nat]
    /\ future \in [Asks -> Replies \cup {NoReply, Cancelled}]

\* A question that waits has not waited longer than its timeout.
AgeInv ==
    /\ \A a \in Asks : IF pc[a] = "waiting" THEN age[a] <= Timeout[a] ELSE age[a] = 0
    /\ \A a \in stamped : pc[a] = "waiting"

\* A question that was not sent has no message and no answer.
UnsentInv ==
    \A a \in Asks :
        pc[a] \in {"idle", "sending"} => msg[a] = NoMessage /\ future[a] \notin Replies

\* A question that returned an answer had one.
AnsweredInv == \A a \in Asks : pc[a] = "answered" => future[a] \in Replies

ButtonsInv ==
    \A r \in Given : replies[r].kind = "button" => replies[r].to # NoMessage

\* What the polling loop remembers of the reply it waits with.
TargetInv ==
    IF handling = NoReply THEN target = NoMessage
    ELSE IF target = NoMessage THEN replies[handling].to # NoMessage
         ELSE replies[handling].to \in {NoMessage, target}

\* A future holds a reply to its own question, or a plain message.
FutureInv ==
    \A a \in Asks : future[a] \in Replies =>
        future[a] \in Given /\ replies[future[a]].to \in {NoMessage, msg[a]}

IInv == /\ Typed /\ AgeInv /\ UnsentInv /\ ButtonsInv /\ TargetInv /\ FutureInv
        /\ AnsweredInv /\ CutShortOnlyLong

USE DEF NoReply, NoMessage, Replies, Cancelled

-----------------------------------------------------------------------------
LEMMA InitIInv == Init => IInv
<1> SUFFICES ASSUME Init PROVE IInv
  OBVIOUS
<1>1. Typed
  <2>1. msg = [a \in Asks |-> msg[a]]
    BY DEF Init
  <2>2. /\ <<>> \in Seq([to : Nat, kind : Kinds]) /\ <<>> \in Seq(Given)
        /\ <<>> \in Seq(Asks \cup {Note}) /\ Len(<<>>) = 0
    OBVIOUS
  <2>3. /\ posted = <<>> /\ replies = <<>> /\ arrived = <<>> /\ updates = <<>> /\ handling = NoReply
    BY DEF Init
  <2>4. pc \in [Asks -> Labels] /\ age \in [Asks -> Nat] /\ stamped \subseteq Asks
    BY DEF Init, Labels
  <2>5. future \in [Asks -> Replies \cup {NoReply, Cancelled}]
    BY DEF Init
  <2> QED
    BY <2>1, <2>2, <2>3, <2>4, <2>5, BoundsAssumption DEF Typed
<1>2. /\ AgeInv /\ UnsentInv /\ ButtonsInv /\ TargetInv /\ FutureInv /\ AnsweredInv
      /\ CutShortOnlyLong
  BY BoundsAssumption DEF Init, AgeInv, UnsentInv, ButtonsInv, TargetInv, FutureInv,
     AnsweredInv, CutShortOnlyLong, Given
<1> QED
  BY <1>1, <1>2 DEF IInv

\* The message a reply is delivered to is the one it answers, unless it is a
\* plain message.
LEMMA AddresseeFact ==
    ASSUME NEW r, Addressee(r) # NoMessage
    PROVE  replies[r].to \in {NoMessage, Addressee(r)}
BY DEF Addressee

\* Delivering a reply sets no future but one of the message it is delivered to.
LEMMA DeliverFact ==
    ASSUME Typed, NEW r \in Given, NEW m, Deliver(r, m)
    PROVE  /\ future' \in [Asks -> Replies \cup {NoReply, Cancelled}]
           /\ stamped' \subseteq stamped
           /\ \A a \in Asks : \/ future'[a] = future[a]
                              \/ future'[a] = r /\ msg[a] = m
<1>1. r \in Replies
  BY BoundsAssumption DEF Typed, Given
<1>2. CASE \E a \in DOMAIN pending : msg[a] = m /\ future[a] = NoReply
  <2> DEFINE a == CHOOSE b \in DOMAIN pending : msg[b] = m
  <2>1. msg[a] = m
    BY <1>2
  <2>2. future' = [future EXCEPT ![a] = r] /\ stamped' = stamped \ {a}
    BY <1>2 DEF Deliver
  <2> HIDE DEF a
  <2> QED
    BY <1>1, <2>1, <2>2 DEF Typed
<1>3. CASE ~\E a \in DOMAIN pending : msg[a] = m /\ future[a] = NoReply
  BY <1>3 DEF Deliver, Typed
<1> QED
  BY <1>2, <1>3

\* Steps that leave alone what the argument is about, but for the server's phase.
LEMMA Frame ==
    ASSUME IInv, UNCHANGED <<replies, arrived, updates, handling, target, asking>>,
           posted' \in Seq(Asks \cup {Note}),
           serving' = "closed" \/ serving # "closed"
    PROVE  IInv'
BY DEF IInv, Typed, AgeInv, UnsentInv, ButtonsInv, TargetInv, FutureInv, AnsweredInv, CutShortOnlyLong,
   Given, asking

-----------------------------------------------------------------------------
LEMMA UserStep ==
    ASSUME IInv, NEW m \in {NoMessage} \cup DOMAIN posted, NEW kind \in Kinds,
           UserReplies(m, kind)
    PROVE  IInv'
<1>1. /\ replies' = Append(replies, [to |-> m, kind |-> kind])
      /\ arrived' = Append(arrived, Len(replies) + 1)
      /\ UNCHANGED <<posted, updates, handling, target, serving, pc, msg, stamped, age, future>>
      /\ Len(replies) < MaxReplies
      /\ kind = "button" => m # NoMessage
  BY DEF UserReplies, asking
<1>2. [to |-> m, kind |-> kind] \in [to : Nat, kind : Kinds]
  BY DEF IInv, Typed
<1>3. /\ replies' \in Seq([to : Nat, kind : Kinds])
      /\ Len(replies') = Len(replies) + 1
      /\ \A r \in Given : replies'[r] = replies[r]
      /\ replies'[Len(replies) + 1] = [to |-> m, kind |-> kind]
  BY <1>1, <1>2 DEF IInv, Typed, Given
<1>4. Given \subseteq Given' /\ Given' = Given \cup {Len(replies) + 1}
  BY <1>3 DEF IInv, Typed, Given
<1>5. arrived' \in Seq(Given') /\ updates' \in Seq(Given')
  BY <1>1, <1>4 DEF IInv, Typed
<1>6. Typed'
  BY <1>1, <1>3, <1>4, <1>5, BoundsAssumption DEF IInv, Typed
<1>7. AgeInv' /\ UnsentInv' /\ AnsweredInv' /\ CutShortOnlyLong'
  BY <1>1 DEF IInv, AgeInv, UnsentInv, AnsweredInv, CutShortOnlyLong
<1>8. ButtonsInv'
  <2> SUFFICES ASSUME NEW r \in Given', replies'[r].kind = "button"
               PROVE  replies'[r].to # NoMessage
    BY DEF ButtonsInv
  <2>1. CASE r \in Given
    BY <1>3, <2>1 DEF IInv, ButtonsInv
  <2>2. CASE r = Len(replies) + 1
    BY <1>1, <1>3, <2>2
  <2> QED
    BY <1>4, <2>1, <2>2
<1>9. TargetInv'
  BY <1>1, <1>3 DEF IInv, Typed, TargetInv
<1>10. FutureInv'
  BY <1>1, <1>3, <1>4 DEF IInv, FutureInv
<1> QED
  BY <1>6, <1>7, <1>8, <1>9, <1>10 DEF IInv

LEMMA AskStep ==
    ASSUME IInv, NEW a \in Asks, Ask(a)
    PROVE  IInv'
<1>1. /\ pc[a] = "idle" /\ stamped' = stamped \ Stale
      /\ \E to \in {"refused", "sending"} : pc' = [pc EXCEPT ![a] = to]
      /\ future' = [b \in Asks |-> IF b \in Stale /\ future[b] = NoReply
                                   THEN Cancelled ELSE future[b]]
      /\ UNCHANGED <<posted, replies, arrived, updates, handling, target, serving, msg, age>>
  BY DEF Ask, chat, loop
<1>2. Typed'
  BY <1>1 DEF IInv, Typed, Given, Labels
<1>3. AgeInv'
  BY <1>1 DEF IInv, Typed, AgeInv
<1>4. UnsentInv' /\ ButtonsInv' /\ TargetInv' /\ FutureInv' /\ AnsweredInv'
  BY <1>1, BoundsAssumption
     DEF IInv, Typed, UnsentInv, ButtonsInv, TargetInv, FutureInv, AnsweredInv, Given, Labels
<1>5. CutShortOnlyLong'
  <2> SUFFICES ASSUME NEW b \in Asks, b \in Stale PROVE Timeout[b] > StaleAfter
    BY <1>1 DEF IInv, CutShortOnlyLong
  <2> QED
    BY TimesAssumption DEF Stale, IInv, Typed, AgeInv
<1> QED
  BY <1>2, <1>3, <1>4, <1>5 DEF IInv

LEMMA SendingStep ==
    ASSUME IInv, NEW a \in Asks, Sending(a)
    PROVE  IInv'
<1>1. /\ pc[a] = "sending"
      /\ UNCHANGED <<posted, replies, arrived, updates, handling, target, serving, age, future>>
      /\ \/ /\ pc' = [pc EXCEPT ![a] = "waiting"]
            /\ \E m : msg' = [msg EXCEPT ![a] = m]
            /\ stamped' = stamped \cup {a}
         \/ /\ pc' = [pc EXCEPT ![a] = "failed"]
            /\ UNCHANGED <<msg, stamped>>
  BY DEF Sending, Wait, SendFails, chat, loop
<1>2. Typed'
  BY <1>1 DEF IInv, Typed, Given, Labels
<1>3. AgeInv'
  BY <1>1, TimesAssumption DEF IInv, Typed, AgeInv
<1>4. UnsentInv' /\ ButtonsInv' /\ TargetInv' /\ FutureInv' /\ AnsweredInv' /\ CutShortOnlyLong'
  BY <1>1 DEF IInv, Typed, UnsentInv, ButtonsInv, TargetInv, FutureInv, AnsweredInv, CutShortOnlyLong, Given
<1> QED
  BY <1>2, <1>3, <1>4 DEF IInv

LEMMA EndingStep ==
    ASSUME IInv, NEW a \in Asks, Ending(a)
    PROVE  IInv'
<1>1. \E outcome \in {"answered", "cancelled", "timeout"} :
         End(a, outcome) /\ (outcome = "answered" => future[a] \in Replies)
  BY DEF Ending, Answered, CutShort, TimesOut, TimesOutAnswered
<1>2. /\ \E to \in {"answered", "cancelled", "timeout"} :
            pc' = [pc EXCEPT ![a] = to] /\ (to = "answered" => future[a] \in Replies)
      /\ stamped' = stamped \ {a} /\ age' = [age EXCEPT ![a] = 0]
      /\ UNCHANGED <<posted, replies, arrived, updates, handling, target, serving, msg, future>>
  BY <1>1 DEF End, chat, loop
<1>3. Typed'
  BY <1>2 DEF IInv, Typed, Given, Labels
<1>4. AgeInv'
  BY <1>2 DEF IInv, Typed, AgeInv
<1>5. UnsentInv' /\ ButtonsInv' /\ TargetInv' /\ FutureInv' /\ AnsweredInv' /\ CutShortOnlyLong'
  BY <1>2 DEF IInv, Typed, UnsentInv, ButtonsInv, TargetInv, FutureInv, AnsweredInv, CutShortOnlyLong, Given
<1> QED
  BY <1>3, <1>4, <1>5 DEF IInv

LEMMA TickStep ==
    ASSUME IInv, Tick
    PROVE  IInv'
<1>1. /\ \A a \in Asks : ~Due(a)
      /\ age' = [a \in Asks |-> IF pc[a] = "waiting" THEN Older(age[a], Oldest) ELSE age[a]]
      /\ UNCHANGED <<posted, replies, arrived, updates, handling, target, serving, pc, msg, stamped,
                     future>>
  BY DEF Tick, chat, loop
<1>2. \A a \in Asks : age'[a] \in Nat /\ age'[a] <= age[a] + 1
  BY <1>1 DEF IInv, Typed, Older
<1>3. Typed'
  BY <1>1, <1>2 DEF IInv, Typed, Given
<1>4. AgeInv'
  <2> SUFFICES ASSUME NEW a \in Asks
               PROVE  IF pc[a] = "waiting" THEN age'[a] <= Timeout[a] ELSE age'[a] = 0
    BY <1>1 DEF IInv, AgeInv
  <2> QED
    BY <1>1, <1>2, TimesAssumption DEF IInv, Typed, AgeInv, Due
<1>5. UnsentInv' /\ ButtonsInv' /\ TargetInv' /\ FutureInv' /\ AnsweredInv' /\ CutShortOnlyLong'
  BY <1>1 DEF IInv, Typed, UnsentInv, ButtonsInv, TargetInv, FutureInv, AnsweredInv, CutShortOnlyLong, Given
<1> QED
  BY <1>3, <1>4, <1>5 DEF IInv

\* The polling loop, once a reply is delivered.
LEMMA DeliveredStep ==
    ASSUME IInv, NEW r \in Given, NEW m, m # NoMessage,
           replies[r].to \in {NoMessage, m},
           Deliver(r, m),
           UNCHANGED <<posted, replies, arrived, serving, pc, msg, age>>,
           updates' \in Seq(Given), handling' = NoReply, target' = NoMessage
    PROVE  IInv'
<1>1. /\ future' \in [Asks -> Replies \cup {NoReply, Cancelled}]
      /\ stamped' \subseteq stamped
      /\ \A a \in Asks : \/ future'[a] = future[a]
                         \/ future'[a] = r /\ msg[a] = m
  BY DeliverFact DEF IInv
<1>2. Given' = Given
  BY DEF Given
<1>3. r \in Replies /\ r # Cancelled
  BY BoundsAssumption DEF IInv, Typed, Given
<1>4. Typed'
  BY <1>1, <1>2 DEF IInv, Typed
<1>5. AgeInv' /\ UnsentInv' /\ AnsweredInv'
  BY <1>1, <1>3 DEF IInv, AgeInv, UnsentInv, AnsweredInv
<1>6. ButtonsInv' /\ TargetInv'
  BY <1>2 DEF IInv, ButtonsInv, TargetInv
<1>7. FutureInv'
  BY <1>1, <1>2 DEF IInv, FutureInv
<1>8. CutShortOnlyLong'
  BY <1>1, <1>3 DEF IInv, CutShortOnlyLong
<1> QED
  BY <1>4, <1>5, <1>6, <1>7, <1>8 DEF IInv

\* The polling loop, when it delivers nothing.
LEMMA PollingFrame ==
    ASSUME IInv, UNCHANGED <<posted, replies, pc, msg, age, future, stamped>>,
           serving' = serving \/ serving = "on",
           arrived' \in Seq(Given), updates' \in Seq(Given),
           handling' \in Given \cup {NoReply}, TargetInv'
    PROVE  IInv'
<1>1. Given' = Given
  BY DEF Given
<1>2. Typed'
  BY <1>1 DEF IInv, Typed
<1> QED
  BY <1>1, <1>2 DEF IInv, AgeInv, UnsentInv, ButtonsInv, FutureInv, AnsweredInv, CutShortOnlyLong

LEMMA TakeStep ==
    ASSUME IInv, Take
    PROVE  IInv'
<1> DEFINE r == Head(updates)
           kind == replies[r].kind
           m == Addressee(r)
<1>1. /\ handling = NoReply /\ target = NoMessage
      /\ updates' = Tail(updates)
      /\ UNCHANGED <<posted, replies, arrived, serving, pc, msg, age>>
  BY DEF Take, chat, IInv, TargetInv
<1>2. r \in Given /\ updates' \in Seq(Given)
  <2>1. updates \in Seq(Given) /\ updates # <<>>
    BY DEF Take, IInv, Typed
  <2> QED
    BY <1>1, <2>1
<1>3. CASE kind = "button" /\ handling' = r /\ UNCHANGED <<target, future, stamped, buffer>>
  <2>1. TargetInv'
    BY <1>1, <1>2, <1>3 DEF IInv, ButtonsInv, TargetInv
  <2> HIDE DEF r
  <2> QED
    BY <1>1, <1>2, <1>3, <2>1, PollingFrame DEF IInv, Typed
<1>4. CASE Drop(r) /\ UNCHANGED <<handling, target>>
  <2>1. TargetInv'
    BY <1>1, <1>4 DEF TargetInv
  <2> QED
    BY <1>1, <1>2, <1>4, <2>1, PollingFrame DEF Drop, IInv, Typed
<1>5. CASE m # NoMessage /\ handling' = r /\ target' = m /\ UNCHANGED <<future, stamped, buffer>>
  <2>1. replies[r].to \in {NoMessage, m}
    BY <1>5, AddresseeFact
  <2> HIDE DEF r, m
  <2>2. TargetInv'
    BY <1>1, <1>2, <1>5, <2>1 DEF TargetInv, Given
  <2> QED
    BY <1>1, <1>2, <1>5, <2>2, PollingFrame DEF IInv, Typed
<1>6. CASE m # NoMessage /\ Deliver(r, m) /\ UNCHANGED <<handling, target>>
  <2>1. replies[r].to \in {NoMessage, m}
    BY <1>6, AddresseeFact
  <2> HIDE DEF r, m
  <2> QED
    BY <1>1, <1>2, <1>6, <2>1, DeliveredStep
<1> QED
  BY <1>3, <1>4, <1>5, <1>6 DEF Take

LEMMA ResumeStep ==
    ASSUME IInv, Resume
    PROVE  IInv'
<1> DEFINE m == IF target # NoMessage THEN target ELSE Addressee(handling)
<1>1. /\ handling \in Given
      /\ UNCHANGED <<posted, replies, arrived, updates, serving, pc, msg, age>>
      /\ handling' = NoReply /\ target' = NoMessage
      /\ Deliver(handling, m)
  BY DEF Resume, chat, IInv, Typed
<1>2. m # NoMessage /\ replies[handling].to \in {NoMessage, m}
  <2>1. handling # NoReply
    BY <1>1 DEF Given
  <2> QED
    BY <2>1 DEF IInv, TargetInv, Addressee
<1> HIDE DEF m
<1> QED
  BY <1>1, <1>2, DeliveredStep DEF IInv, Typed

LEMMA LoopStep ==
    ASSUME IInv, Fetch \/ Raise \/ StopLoop
    PROVE  IInv'
<1>1. /\ UNCHANGED <<posted, replies, pc, msg, age, future, stamped>>
      /\ serving = "on"
      /\ \/ handling = NoReply /\ UNCHANGED <<handling, target>>
         \/ handling' = NoReply /\ target' = NoMessage
  BY DEF Fetch, Raise, StopLoop, chat, asking
<1>2. arrived' \in Seq(Given) /\ updates' \in Seq(Given)
  <2>1. <<>> \in Seq(Given)
    OBVIOUS
  <2> QED
    BY <2>1 DEF Fetch, Raise, StopLoop, IInv, Typed
<1>3. TargetInv'
  BY <1>1 DEF IInv, TargetInv
<1> QED
  BY <1>1, <1>2, <1>3, PollingFrame DEF IInv, Typed

LEMMA CloseStep ==
    ASSUME IInv, Close
    PROVE  IInv'
<1>1. /\ UNCHANGED <<posted, replies, arrived, updates, handling, target, pc, msg, age>>
      /\ serving' = "closed" /\ stamped' = {}
      /\ future' = [a \in Asks |-> IF a \in DOMAIN pending /\ future[a] = NoReply
                                   THEN Cancelled ELSE future[a]]
  BY DEF Close, chat, loop
<1>2. Cancelled \notin Replies
  BY BoundsAssumption
<1>3. Typed'
  BY <1>1 DEF IInv, Typed, Given
<1>4. UnsentInv' /\ FutureInv' /\ AnsweredInv'
  BY <1>1, <1>2, BoundsAssumption DEF IInv, UnsentInv, FutureInv, AnsweredInv, Given
<1> QED
  BY <1>1, <1>3, <1>4 DEF IInv, AgeInv, ButtonsInv, TargetInv, CutShortOnlyLong, Given

LEMMA OtherStep ==
    ASSUME IInv, Notify \/ CheckReplies \/ PeekReplies \/ \E a \in Asks : Post(a)
    PROVE  IInv'
<1>1. /\ UNCHANGED <<replies, arrived, updates, handling, target, asking, serving>>
      /\ posted' = posted \/ \E x \in Asks \cup {Note} : posted' = Append(posted, x)
  BY DEF Notify, CheckReplies, PeekReplies, Post, chat, loop
<1>2. posted \in Seq(Asks \cup {Note})
  BY DEF IInv, Typed
<1>3. posted' \in Seq(Asks \cup {Note})
  BY <1>1, <1>2
<1> QED
  BY <1>1, <1>3, Frame

LEMMA IInvStep == IInv /\ [Next]_vars => IInv'
<1> SUFFICES ASSUME IInv, [Next]_vars PROVE IInv'
  OBVIOUS
<1>1. CASE UNCHANGED vars
  BY <1>1, Frame DEF vars, chat, loop, IInv, Typed
<1>2. ASSUME NEW m \in {NoMessage} \cup DOMAIN posted, NEW kind \in Kinds,
             UserReplies(m, kind)
      PROVE  IInv'
  BY <1>2, UserStep
<1>3. ASSUME NEW a \in Asks, Ask(a) \/ Sending(a) \/ Ending(a)
      PROVE  IInv'
  BY <1>3, AskStep, SendingStep, EndingStep
<1> QED
  BY <1>1, <1>2, <1>3, OtherStep, TakeStep, ResumeStep, LoopStep, CloseStep, TickStep DEF Next

LEMMA Invariant == Spec => []IInv
BY InitIInv, IInvStep, PTL DEF Spec

-----------------------------------------------------------------------------
\* telegram_ask never returns a reply to something else, whatever is sent,
\* repeated, answered and cleaned up meanwhile (_process_update, resolve_reply).
THEOREM OwnAnswers == Spec => []AnswersItsQuestion
<1>1. IInv => AnswersItsQuestion
  BY DEF IInv, FutureInv, AnsweredInv, AnswersItsQuestion
<1> QED
  BY <1>1, Invariant, PTL

\* While the server runs, the clean-up of one question cancels another only if
\* that one asked for more time than the clean-up allows (cleanup_stale_futures).
THEOREM CleanupSparesShort == Spec => []CutShortOnlyLong
<1>1. IInv => CutShortOnlyLong
  BY DEF IInv
<1> QED
  BY <1>1, Invariant, PTL
-----------------------------------------------------------------------------
(***************************************************************************)
(* Least elements, which the first question and the last copy are.         *)
(***************************************************************************)
LEMMA Least ==
    ASSUME NEW S \in SUBSET Nat, S # {}
    PROVE  \E m \in S : \A n \in S : m <= n
<1> DEFINE T == {0..k : k \in S}
           F == FiniteSubsetsOf(Nat)
           R == StrictSubsetOrdering(Nat)
<1>1. T \subseteq F /\ T # {}
  <2>1. ASSUME NEW k \in S PROVE 0..k \in F
    BY FS_Interval DEF FiniteSubsetsOf
  <2> QED
    BY <2>1
<1>2. \E x \in T : \A y \in T : ~(<<y, x>> \in R)
  <2>1. IsWellFoundedOn(R, F)
    BY FS_StrictSubsetOrderingWellFounded
  <2> HIDE DEF T, F, R
  <2> QED
    BY <1>1, <2>1, WFMin
<1>3. PICK m \in S : \A n \in S : ~(<<0..n, 0..m>> \in R)
  BY <1>2
<1>4. ASSUME NEW n \in S, n < m PROVE FALSE
  <2>1. /\ 0..n \subseteq 0..m /\ m \in 0..m /\ m \notin 0..n
        /\ 0..n \subseteq Nat /\ 0..m \subseteq Nat
    BY <1>4
  <2>2. 0..n # 0..m
    BY <2>1
  <2>3. <<0..n, 0..m>> \in R
    BY <2>1, <2>2 DEF StrictSubsetOrdering
  <2> QED
    BY <1>3, <2>3
<1> QED
  BY <1>4

LEMMA Greatest ==
    ASSUME NEW n \in Nat, NEW S \in SUBSET (0..n), S # {}
    PROVE  Max(S) \in S /\ \A k \in S : k <= Max(S)
<1> DEFINE T == {n - k : k \in S}
<1>1. T \in SUBSET Nat /\ T # {}
  <2>1. \A k \in S : n - k \in Nat
    OBVIOUS
  <2> QED
    BY <2>1
<1>2. PICK m \in T : \A k \in T : m <= k
  <2> HIDE DEF T
  <2> QED
    BY <1>1, Least
<1>3. PICK g \in S : m = n - g
  BY <1>2
<1>4. ASSUME NEW k \in S PROVE g >= k
  <2>1. n - k \in T /\ k \in Nat /\ g \in Nat
    OBVIOUS
  <2> HIDE DEF T
  <2>2. n - g <= n - k
    BY <1>2, <1>3, <2>1
  <2> QED
    BY <2>1, <2>2
<1> QED
  BY <1>4 DEF Max

LEMMA Smallest ==
    ASSUME NEW S \in SUBSET Nat, S # {}
    PROVE  Min(S) \in S /\ \A k \in S : Min(S) <= k
BY Least DEF Min

\* A finite set of naturals has a greatest element.
LEMMA Bounded ==
    ASSUME NEW S \in SUBSET Nat, IsFiniteSet(S), S # {}
    PROVE  Max(S) \in S /\ \A k \in S : k <= Max(S)
<1> DEFINE Tops(U) == {g \in U : \A k \in U : g >= k}
           T == {U \in SUBSET S : U # {} /\ Tops(U) = {}}
           R == StrictSubsetOrdering(S)
<1>1. T = {}
  <2> SUFFICES ASSUME T # {} PROVE FALSE
    OBVIOUS
  <2>1. IsWellFoundedOn(R, SUBSET S)
    <3>1. FiniteSubsetsOf(S) = SUBSET S
      BY FS_FiniteSubsetsOfFinite
    <3>2. IsWellFoundedOn(R, FiniteSubsetsOf(S))
      BY FS_StrictSubsetOrderingWellFounded
    <3> QED
      BY <3>1, <3>2
  <2>2. T \subseteq SUBSET S
    OBVIOUS
  <2>3. \E x \in T : \A y \in T : ~(<<y, x>> \in R)
    <3>1. T # {}
      OBVIOUS
    <3> HIDE DEF T, R
    <3>2. \A W : W \subseteq SUBSET S /\ W # {} => \E x \in W : \A y \in W : ~(<<y, x>> \in R)
      BY <2>1, WFMin
    <3> QED
      BY <2>2, <3>1, <3>2
  <2>4. PICK U \in T : \A y \in T : ~(<<y, U>> \in R)
    BY <2>3
  <2>5. PICK x \in U : TRUE
    OBVIOUS
  <2> DEFINE V == U \ {x}
  <2>6. V \in SUBSET S /\ <<V, U>> \in R
    BY <2>5 DEF StrictSubsetOrdering
  <2>7. V = {} \/ Tops(V) # {}
    BY <2>4, <2>6
  <2>8. CASE V = {}
    <3>1. x \in Tops(U)
      BY <2>5, <2>8
    <3> QED
      BY <3>1
  <2>9. CASE Tops(V) # {}
    <3>1. PICK g \in V : \A k \in V : g >= k
      BY <2>9
    <3>2. U \subseteq Nat /\ g \in U /\ U = V \cup {x}
      BY <2>5
    <3>3. CASE g >= x
      <4>1. \A k \in U : g >= k
        BY <3>1, <3>2, <3>3
      <4> QED
        BY <3>2, <4>1
    <3>4. CASE x >= g
      <4>1. \A k \in V : k \in Nat /\ x \in Nat /\ g \in Nat /\ g >= k
        BY <3>1, <3>2
      <4>2. \A k \in V : x >= k
        BY <3>4, <4>1
      <4>3. \A k \in U : x >= k
        BY <3>2, <4>2
      <4> QED
        BY <2>5, <4>3
    <3> QED
      BY <2>5, <3>2, <3>3, <3>4
  <2> QED
    BY <2>7, <2>8, <2>9
<1>2. S \in SUBSET S
  OBVIOUS
<1>3. \E g \in S : \A k \in S : g >= k
  BY <1>1, <1>2
<1> QED
  BY <1>3 DEF Max

-----------------------------------------------------------------------------
(***************************************************************************)
(* Where the replies are.                                                  *)
(***************************************************************************)
Entry == [reply : Replies, age : 0..(QueueTTL + 1)]

\* The message of a question is a copy of it, and the pending questions wait.
PendingInv ==
    /\ Len(posted) <= MaxMessages
    /\ \A a \in Asks :
          msg[a] # NoMessage => msg[a] \in DOMAIN posted /\ posted[msg[a]] = a
    /\ pending \in [DOMAIN pending -> Nat] /\ DOMAIN pending \subseteq Asks
    /\ \A a \in DOMAIN pending : pc[a] = "waiting" /\ msg[a] # NoMessage

MessageInv ==
    /\ serving \in {"on", "stopped", "closed"}
    /\ target \in Messages \cup {NoMessage}
    /\ \A r \in Given : replies[r].to \in Messages \cup {NoMessage}

Once(s) == \A i, j \in DOMAIN s : s[i] = s[j] => i = j
QueuedOnce(q) == \A i, j \in DOMAIN q : q[i].reply = q[j].reply => i = j

\* The replies that the polling loop has still to deal with.
Open == ToSet(arrived) \cup ToSet(updates) \cup ({handling} \ {NoReply})

OpenInv ==
    /\ Once(arrived) /\ Once(updates)
    /\ ToSet(arrived) \cap ToSet(updates) = {}
    /\ handling \notin ToSet(arrived) \cup ToSet(updates)

\* The asks whose future holds a reply they will return or have returned.
Held == {a \in Asks : pc[a] \in {"waiting", "answered"} /\ future[a] \in Replies}
Kept == {future[a] : a \in Held}

\* The replies that it has dealt with.
Done == Kept \cup Queued(queue) \cup handed \cup dropped

DoneInv ==
    /\ queue \in Seq(Entry) /\ Len(queue) <= QueueSize /\ QueuedOnce(queue)
    /\ \A a, b \in Held : future[a] = future[b] => a = b
    /\ Kept \cap (Queued(queue) \cup handed \cup dropped) = {}
    /\ Queued(queue) \cap (handed \cup dropped) = {}
    /\ handed \cap dropped = {}

PlaceInv == Open \cup Done = Given /\ Open \cap Done = {}

LInv == PendingInv /\ MessageInv /\ OpenInv /\ DoneInv /\ PlaceInv

-----------------------------------------------------------------------------
(* Sequences in which nothing occurs twice. *)

LEMMA OnceAppend ==
    ASSUME NEW S, NEW s \in Seq(S), Once(s), NEW x \in S, x \notin ToSet(s)
    PROVE  /\ Append(s, x) \in Seq(S)
           /\ Once(Append(s, x))
           /\ ToSet(Append(s, x)) = ToSet(s) \cup {x}
<1>1. Append(s, x) \in Seq(S)
  OBVIOUS
<1>2. PICK n \in Nat : n = Len(s)
  OBVIOUS
<1>3. PICK t : t = Append(s, x)
  OBVIOUS
<1>4. /\ DOMAIN s = 1..n /\ DOMAIN t = 1..(n + 1)
      /\ t[n + 1] = x /\ \A i \in 1..n : t[i] = s[i]
  BY <1>2, <1>3
<1>5. \A i \in 1..n : s[i] # x
  BY <1>4 DEF ToSet
<1>6. Once(t)
  BY <1>4, <1>5 DEF Once
<1>7. ToSet(t) = ToSet(s) \cup {x}
  <2>1. ToSet(s) = {s[i] : i \in 1..n} /\ ToSet(t) = {t[i] : i \in 1..(n + 1)}
    BY <1>4 DEF ToSet
  <2>2. \A i \in 1..(n + 1) : i \in 1..n \/ i = n + 1
    OBVIOUS
  <2>3. \A i \in 1..n : i \in 1..(n + 1)
    OBVIOUS
  <2>4. n + 1 \in 1..(n + 1)
    OBVIOUS
  <2> QED
    BY <1>4, <2>1, <2>2, <2>3, <2>4
<1> QED
  BY <1>1, <1>3, <1>6, <1>7

LEMMA OnceTail ==
    ASSUME NEW S, NEW s \in Seq(S), s # <<>>, Once(s)
    PROVE  /\ Head(s) \in S /\ Head(s) \in ToSet(s)
           /\ Tail(s) \in Seq(S) /\ Once(Tail(s))
           /\ ToSet(Tail(s)) = ToSet(s) \ {Head(s)}
<1>1. Head(s) \in S /\ Tail(s) \in Seq(S) /\ Head(s) = s[1]
  OBVIOUS
<1>2. PICK n \in Nat : n = Len(s) /\ n > 0
  OBVIOUS
<1>3. PICK t : t = Tail(s)
  OBVIOUS
<1>4. DOMAIN s = 1..n /\ DOMAIN t = 1..(n - 1) /\ \A i \in 1..(n - 1) : t[i] = s[i + 1]
  BY <1>2, <1>3
<1>5. \A i, j \in 1..n : s[i] = s[j] => i = j
  BY <1>4 DEF Once
<1>6. Once(t)
  BY <1>4, <1>5 DEF Once
<1>7. ToSet(s) = {s[i] : i \in 1..n} /\ ToSet(t) = {t[i] : i \in 1..(n - 1)}
  BY <1>4 DEF ToSet
<1>8. s[1] \in ToSet(s)
  BY <1>2, <1>7
<1>9. ASSUME NEW x \in ToSet(t) PROVE x \in ToSet(s) /\ x # s[1]
  <2>1. PICK i \in 1..(n - 1) : x = t[i]
    BY <1>7, <1>9
  <2>2. i + 1 \in 1..n /\ i + 1 # 1 /\ x = s[i + 1] /\ 1 \in 1..n
    BY <1>2, <1>4, <2>1
  <2> QED
    BY <1>5, <1>7, <2>2
<1>10. ASSUME NEW x \in ToSet(s), x # s[1] PROVE x \in ToSet(t)
  <2>1. PICK i \in 1..n : x = s[i]
    BY <1>7
  <2>2. i - 1 \in 1..(n - 1) /\ t[i - 1] = s[(i - 1) + 1] /\ (i - 1) + 1 = i
    BY <1>4, <1>10, <2>1
  <2> QED
    BY <1>7, <2>1, <2>2
<1>11. ToSet(t) = ToSet(s) \ {s[1]}
  BY <1>9, <1>10
<1> QED
  BY <1>1, <1>3, <1>6, <1>8, <1>11

LEMMA QueueAppend ==
    ASSUME NEW q \in Seq(Entry), QueuedOnce(q), NEW e \in Entry, e.reply \notin Queued(q)
    PROVE  /\ Append(q, e) \in Seq(Entry)
           /\ Len(Append(q, e)) = Len(q) + 1
           /\ QueuedOnce(Append(q, e))
           /\ Queued(Append(q, e)) = Queued(q) \cup {e.reply}
<1>1. Append(q, e) \in Seq(Entry) /\ Len(Append(q, e)) = Len(q) + 1
  OBVIOUS
<1>2. PICK n \in Nat : n = Len(q)
  OBVIOUS
<1>3. PICK t : t = Append(q, e)
  OBVIOUS
<1>4. /\ DOMAIN q = 1..n /\ DOMAIN t = 1..(n + 1)
      /\ t[n + 1] = e /\ \A i \in 1..n : t[i] = q[i]
  BY <1>2, <1>3
<1>5. \A i \in 1..n : q[i].reply # e.reply
  BY <1>4 DEF Queued
<1>6. QueuedOnce(t)
  BY <1>4, <1>5 DEF QueuedOnce
<1>7. Queued(t) = Queued(q) \cup {e.reply}
  <2>1. Queued(q) = {q[i].reply : i \in 1..n} /\ Queued(t) = {t[i].reply : i \in 1..(n + 1)}
    BY <1>4 DEF Queued
  <2>2. \A i \in 1..(n + 1) : i \in 1..n \/ i = n + 1
    OBVIOUS
  <2>3. \A i \in 1..n : i \in 1..(n + 1)
    OBVIOUS
  <2>4. n + 1 \in 1..(n + 1)
    OBVIOUS
  <2> QED
    BY <1>4, <2>1, <2>2, <2>3, <2>4
<1> QED
  BY <1>1, <1>3, <1>6, <1>7

\* The end of a queue.
LEMMA QueueEnd ==
    ASSUME NEW q \in Seq(Entry), QueuedOnce(q), NEW k \in 1..Len(q)
    PROVE  /\ SubSeq(q, k, Len(q)) \in Seq(Entry)
           /\ Len(SubSeq(q, k, Len(q))) <= Len(q)
           /\ QueuedOnce(SubSeq(q, k, Len(q)))
           /\ Queued(SubSeq(q, k, Len(q))) \subseteq Queued(q)
<1>1. PICK n \in Nat : n = Len(q)
  OBVIOUS
<1>2. SubSeq(q, k, n) \in Seq(Entry)
  BY <1>1
<1>3. PICK t : t = SubSeq(q, k, n)
  OBVIOUS
<1>4. Len(t) = n - k + 1
  BY <1>1, <1>3
<1>5. DOMAIN t = 1..(n - k + 1)
  BY <1>1, <1>3
<1>6. \A i \in 1..(n - k + 1) : t[i] = q[k + i - 1]
  BY <1>1, <1>3
<1>7. DOMAIN q = 1..n
  BY <1>1
<1>8. \A i \in 1..(n - k + 1) : k + i - 1 \in 1..n
  BY <1>1
<1>9. QueuedOnce(t)
  <2> SUFFICES ASSUME NEW i \in 1..(n - k + 1), NEW j \in 1..(n - k + 1),
                      t[i].reply = t[j].reply
               PROVE  i = j
    BY <1>5 DEF QueuedOnce
  <2>1. q[k + i - 1].reply = q[k + j - 1].reply
    BY <1>6
  <2>2. k + i - 1 = k + j - 1
    BY <1>7, <1>8, <2>1 DEF QueuedOnce
  <2> QED
    BY <1>1, <2>2
<1>10. Queued(t) \subseteq Queued(q)
  BY <1>5, <1>6, <1>7, <1>8 DEF Queued
<1>11. Len(t) <= n
  BY <1>1, <1>4
<1> QED
  BY <1>1, <1>2, <1>3, <1>9, <1>10, <1>11

LEMMA QueueTail ==
    ASSUME NEW q \in Seq(Entry), QueuedOnce(q), q # <<>>
    PROVE  /\ Tail(q) \in Seq(Entry) /\ Len(Tail(q)) = Len(q) - 1
           /\ QueuedOnce(Tail(q)) /\ Queued(Tail(q)) \subseteq Queued(q)
<1>1. PICK n \in Nat : n = Len(q) /\ n > 0
  OBVIOUS
<1>2. PICK t : t = Tail(q)
  OBVIOUS
<1>3. t \in Seq(Entry) /\ Len(t) = n - 1
  BY <1>1, <1>2
<1>4. DOMAIN q = 1..n /\ DOMAIN t = 1..(n - 1) /\ \A i \in 1..(n - 1) : t[i] = q[i + 1]
  BY <1>1, <1>2
<1>5. \A i \in 1..(n - 1) : i + 1 \in 1..n
  BY <1>1
<1>6. QueuedOnce(t)
  <2> SUFFICES ASSUME NEW i \in 1..(n - 1), NEW j \in 1..(n - 1), t[i].reply = t[j].reply
               PROVE  i = j
    BY <1>4 DEF QueuedOnce
  <2>1. i + 1 = j + 1
    BY <1>4, <1>5 DEF QueuedOnce
  <2> QED
    BY <1>1, <2>1
<1>7. Queued(t) \subseteq Queued(q)
  BY <1>4, <1>5 DEF Queued
<1> QED
  BY <1>1, <1>2, <1>3, <1>6, <1>7

LEMMA QueueEmpty ==
    /\ <<>> \in Seq(Entry) /\ Len(<<>>) = 0
    /\ QueuedOnce(<<>>) /\ Queued(<<>>) = {}
<1>1. <<>> \in Seq(Entry) /\ Len(<<>>) = 0
  OBVIOUS
<1> QED
  BY <1>1 DEF QueuedOnce, Queued

LEMMA PrunedFact ==
    ASSUME queue \in Seq(Entry), QueuedOnce(queue)
    PROVE  /\ Pruned \in Seq(Entry) /\ Len(Pruned) <= Len(queue)
           /\ QueuedOnce(Pruned) /\ Queued(Pruned) \subseteq Queued(queue)
<1> DEFINE fresh == {i \in DOMAIN queue : queue[i].age <= QueueTTL}
<1>1. CASE fresh = {}
  <2>1. Pruned = <<>>
    BY <1>1 DEF Pruned
  <2>2. 0 <= Len(queue)
    OBVIOUS
  <2> QED
    BY <2>1, <2>2, QueueEmpty
<1>2. CASE fresh # {}
  <2>1. Pruned = SubSeq(queue, Min(fresh), Len(queue))
    BY <1>2 DEF Pruned
  <2>2. fresh \in SUBSET Nat /\ fresh \subseteq 1..Len(queue)
    OBVIOUS
  <2> HIDE DEF fresh
  <2>3. Min(fresh) \in 1..Len(queue)
    BY <1>2, <2>2, Smallest
  <2>4. PICK k \in 1..Len(queue) : k = Min(fresh)
    BY <2>3
  <2> QED
    BY <2>1, <2>4, QueueEnd
<1> QED
  BY <1>1, <1>2

-----------------------------------------------------------------------------
(* Messages. *)

LEMMA LInvInit == Init => LInv
<1> SUFFICES ASSUME Init PROVE LInv
  OBVIOUS
<1>1. PendingInv
  BY BoundsAssumption DEF Init, PendingInv
<1>2. MessageInv
  BY DEF Init, MessageInv, Given
<1>3. Given = {} /\ Held = {} /\ Kept = {}
  <2>1. Given = {}
    BY DEF Init, Given
  <2>2. Held = {}
    BY DEF Init, Held
  <2> QED
    BY <2>1, <2>2 DEF Kept
<1>4. ToSet(arrived) = {} /\ ToSet(updates) = {} /\ Once(arrived) /\ Once(updates)
  BY DEF Init, ToSet, Once
<1>5. OpenInv /\ Open = {}
  BY <1>4 DEF Init, OpenInv, Open
<1>6. DoneInv /\ Done = {}
  BY <1>3, QueueEmpty, BoundsAssumption DEF Init, DoneInv, Done
<1> QED
  BY <1>1, <1>2, <1>3, <1>5, <1>6 DEF LInv, PlaceInv

\* A further message changes the message of no question.
LEMMA PostedStep ==
    ASSUME IInv, PendingInv, NEW x \in Asks \cup {Note}, Len(posted) < MaxMessages,
           posted' = Append(posted, x), UNCHANGED asking
    PROVE  PendingInv'
<1>1. posted \in Seq(Asks \cup {Note})
  BY DEF IInv, Typed
<1>2. PICK n \in Nat : n = Len(posted) /\ n < MaxMessages
  BY <1>1
<1>3. PICK p : p = Append(posted, x)
  OBVIOUS
<1>4. /\ Len(p) = n + 1 /\ DOMAIN posted = 1..n /\ DOMAIN p = 1..(n + 1)
      /\ \A i \in 1..n : p[i] = posted[i]
  BY <1>1, <1>2, <1>3
<1>5. n + 1 <= MaxMessages
  BY <1>2, BoundsAssumption
<1> QED
  BY <1>3, <1>4, <1>5 DEF PendingInv, asking

\* The question that send_message returns the message of.
LEMMA WaitStep ==
    ASSUME IInv, PendingInv, NEW a \in Asks, Wait(a)
    PROVE  PendingInv'
<1> DEFINE m == Max(CopiesOf(a))
<1>1. /\ pc' = [pc EXCEPT ![a] = "waiting"] /\ msg' = [msg EXCEPT ![a] = m]
      /\ pending' = [b \in DOMAIN pending \cup {a} |-> IF b = a THEN Turn ELSE pending[b]]
      /\ posted' = posted
  BY DEF Wait, chat
<1>2. m \in DOMAIN posted /\ posted[m] = a
  <2>1. posted \in Seq(Asks \cup {Note})
    BY DEF IInv, Typed
  <2>2. PICK n \in Nat : n = Len(posted)
    BY <2>1
  <2>3. CopiesOf(a) \subseteq 0..n /\ CopiesOf(a) # {}
    BY <2>1, <2>2 DEF CopiesOf, Wait
  <2>4. m \in CopiesOf(a)
    BY <2>3, Greatest
  <2> QED
    BY <2>4 DEF CopiesOf
<1>3. m # NoMessage
  BY <1>2 DEF IInv, Typed
<1>4. Turn \in Nat
  BY FS_Subset, FS_CardinalityType, TimesAssumption DEF Turn
<1> HIDE DEF m
<1>5. DOMAIN pending' = DOMAIN pending \cup {a} /\ pending' \in [DOMAIN pending' -> Nat]
  BY <1>1, <1>4 DEF PendingInv
<1>6. \A b \in Asks : msg'[b] = (IF b = a THEN m ELSE msg[b])
  BY <1>1 DEF IInv, Typed
<1>7. \A b \in Asks : pc'[b] = (IF b = a THEN "waiting" ELSE pc[b])
  BY <1>1 DEF IInv, Typed
<1> QED
  BY <1>1, <1>2, <1>3, <1>5, <1>6, <1>7 DEF PendingInv

\* The steps that end or clean up questions.
LEMMA FewerPending ==
    ASSUME IInv, PendingInv, NEW S \in SUBSET DOMAIN pending,
           pending' = Restrict(pending, S), UNCHANGED <<posted, msg>>,
           \A a \in S : pc'[a] = pc[a]
    PROVE  PendingInv'
BY DEF PendingInv, Restrict

LEMMA PendingStep ==
    ASSUME IInv, PendingInv, [Next]_vars
    PROVE  PendingInv'
<1>1. CASE UNCHANGED <<posted, pc, msg, pending>>
  BY <1>1 DEF PendingInv
<1>2. CASE Notify \/ \E a \in Asks : Post(a)
  BY <1>2, PostedStep DEF Notify, Post
<1>3. ASSUME NEW a \in Asks, Wait(a) PROVE PendingInv'
  BY <1>3, WaitStep
<1>4. ASSUME NEW a \in Asks, SendFails(a) PROVE PendingInv'
  BY <1>4 DEF SendFails, IInv, Typed, PendingInv, chat
<1>5. ASSUME NEW a \in Asks, Ask(a) PROVE PendingInv'
  <2>1. /\ pending' = Restrict(pending, DOMAIN pending \ Stale)
        /\ UNCHANGED <<posted, msg>>
        /\ \E to : pc' = [pc EXCEPT ![a] = to]
        /\ a \notin DOMAIN pending
    BY <1>5 DEF Ask, chat, PendingInv
  <2>2. \A b \in DOMAIN pending \ Stale : pc'[b] = pc[b]
    BY <2>1 DEF IInv, Typed, PendingInv
  <2> QED
    BY <2>1, <2>2, FewerPending
<1>6. ASSUME NEW a \in Asks, Ending(a) PROVE PendingInv'
  <2>1. /\ pending' = Restrict(pending, DOMAIN pending \ {a})
        /\ UNCHANGED <<posted, msg>>
        /\ \E to : pc' = [pc EXCEPT ![a] = to]
    BY <1>6 DEF Ending, Answered, CutShort, TimesOut, TimesOutAnswered, End, chat
  <2>2. \A b \in DOMAIN pending \ {a} : pc'[b] = pc[b]
    BY <2>1 DEF IInv, Typed, PendingInv
  <2> QED
    BY <2>1, <2>2, FewerPending
<1>7. CASE Close
  BY <1>7, FewerPending DEF Close, chat
<1>8. ASSUME NEW m \in {NoMessage} \cup DOMAIN posted, NEW kind \in Kinds,
             UserReplies(m, kind)
      PROVE  UNCHANGED <<posted, pc, msg, pending>>
  BY <1>8 DEF UserReplies, asking
<1>9. CASE CheckReplies \/ PeekReplies \/ Fetch \/ Take \/ Resume \/ Raise \/ StopLoop \/ Tick
           \/ UNCHANGED vars
  <2>1. UNCHANGED <<posted, pc, msg, pending>>
    BY <1>9 DEF CheckReplies, PeekReplies, Fetch, Take, Resume, Raise, StopLoop, Tick, vars, chat,
       asking
  <2> QED
    BY <1>1, <2>1
<1> QED
  BY <1>1, <1>2, <1>3, <1>4, <1>5, <1>6, <1>7, <1>8, <1>9 DEF Next, Sending

\* A message that a reply is taken to answer is one that was sent.
LEMMA AddresseeType ==
    ASSUME IInv, PendingInv, MessageInv, NEW r \in Given
    PROVE  Addressee(r) \in Messages \cup {NoMessage}
<1>1. replies[r].to \in Messages \cup {NoMessage}
  BY DEF MessageInv
<1>2. ASSUME DOMAIN pending # {} PROVE msg[First] \in Messages
  <2>1. {pending[a] : a \in DOMAIN pending} \in SUBSET Nat
    BY DEF PendingInv
  <2>2. PICK k \in {pending[a] : a \in DOMAIN pending} :
           \A n \in {pending[a] : a \in DOMAIN pending} : k <= n
    BY <1>2, <2>1, Least
  <2>3. \E a \in DOMAIN pending : \A b \in DOMAIN pending : pending[a] <= pending[b]
    BY <2>2
  <2>4. First \in DOMAIN pending
    BY <2>3 DEF First
  <2>5. msg[First] \in DOMAIN posted /\ Len(posted) <= MaxMessages
    BY <2>4 DEF PendingInv
  <2> QED
    BY <2>5, BoundsAssumption DEF IInv, Typed, Messages
<1> QED
  BY <1>1, <1>2 DEF Addressee

LEMMA MessageStep ==
    ASSUME IInv, PendingInv, MessageInv, [Next]_vars
    PROVE  MessageInv'
<1>1. ASSUME NEW m \in {NoMessage} \cup DOMAIN posted, NEW kind \in Kinds,
             UserReplies(m, kind)
      PROVE  MessageInv'
  <2>1. m \in Messages \cup {NoMessage}
    BY BoundsAssumption DEF IInv, Typed, PendingInv, Messages
  <2>2. /\ replies' = Append(replies, [to |-> m, kind |-> kind])
        /\ UNCHANGED <<target, serving>>
    BY <1>1 DEF UserReplies
  <2>3. PICK n \in Nat : n = Len(replies)
    <3>1. replies \in Seq([to : Nat, kind : Kinds])
      BY DEF IInv, Typed
    <3> QED
      BY <3>1
  <2>4. PICK q : q = Append(replies, [to |-> m, kind |-> kind])
    OBVIOUS
  <2>5. Len(q) = n + 1 /\ q[n + 1].to = m /\ \A r \in 1..n : q[r] = replies[r]
    BY <2>3, <2>4 DEF IInv, Typed
  <2>6. \A r \in 1..(n + 1) : q[r].to \in Messages \cup {NoMessage}
    BY <2>1, <2>3, <2>5 DEF MessageInv, Given
  <2> QED
    BY <2>2, <2>4, <2>5, <2>6 DEF MessageInv, Given
<1>2. ASSUME UNCHANGED replies, target' \in {target, NoMessage},
             serving' \in {serving, "stopped", "closed"}
      PROVE  MessageInv'
  BY <1>2 DEF MessageInv, Given
<1>3. CASE Take
  <2> DEFINE r == Head(updates)
  <2>1. r \in Given
    BY <1>3 DEF Take, IInv, Typed
  <2>2. UNCHANGED <<replies, serving>> /\ target' \in {target, Addressee(r)}
    BY <1>3 DEF Take, chat
  <2> QED
    BY <2>1, <2>2, AddresseeType DEF MessageInv, Given
<1>4. CASE Resume \/ Raise \/ StopLoop \/ Close
  <2>1. /\ UNCHANGED replies /\ target' \in {target, NoMessage}
        /\ serving' \in {serving, "stopped", "closed"}
    BY <1>4 DEF Resume, Raise, StopLoop, Close, chat, loop
  <2> QED
    BY <1>2, <2>1
<1>5. CASE CheckReplies \/ PeekReplies \/ Notify \/ Fetch \/ Tick \/ UNCHANGED vars
  <2>1. UNCHANGED <<replies, target, serving>>
    BY <1>5 DEF CheckReplies, PeekReplies, Notify, Fetch, Tick, vars, chat, loop
  <2> QED
    BY <1>2, <2>1
<1>6. ASSUME NEW a \in Asks, Ask(a) \/ Post(a) \/ Sending(a) \/ Ending(a)
      PROVE  MessageInv'
  <2>1. UNCHANGED <<replies, target, serving>>
    BY <1>6 DEF Ask, Post, Sending, Wait, SendFails, Ending, Answered, CutShort, TimesOut,
       TimesOutAnswered, End, chat, loop
  <2> QED
    BY <1>2, <2>1
<1> QED
  BY <1>1, <1>3, <1>4, <1>5, <1>6 DEF Next

-----------------------------------------------------------------------------
(* What the polling loop has dealt with. *)

\* What happens to the buffers: replies leave the queue for one of the histories.
Leaves(rest, taken, gone) ==
    /\ rest \subseteq Queued(queue) /\ taken \subseteq Queued(queue) /\ gone \subseteq Queued(queue)
    /\ rest \cup taken \cup gone = Queued(queue)
    /\ rest \cap (taken \cup gone) = {} /\ taken \cap gone = {}

LEMMA DoneFrame ==
    ASSUME DoneInv, NEW rest, NEW taken, NEW gone, Leaves(rest, taken, gone),
           Held' = Held, \A a \in Held : future'[a] = future[a],
           queue' \in Seq(Entry), Len(queue') <= QueueSize, QueuedOnce(queue'),
           Queued(queue') = rest,
           handed' = handed \cup taken, dropped' = dropped \cup gone
    PROVE  DoneInv' /\ Done' = Done
<1>1. Kept' = Kept
  BY DEF Kept
<1>2. /\ Kept' \cap (Queued(queue') \cup handed' \cup dropped') = {}
      /\ Queued(queue') \cap (handed' \cup dropped') = {}
      /\ handed' \cap dropped' = {}
      /\ Kept' \cup Queued(queue') \cup handed' \cup dropped' = Done
  BY <1>1 DEF DoneInv, Done, Leaves
<1>3. \A a, b \in Held' : future'[a] = future'[b] => a = b
  BY DEF DoneInv
<1> QED
  BY <1>2, <1>3 DEF DoneInv, Done

\* The buffers stay, but for replies that are given up.
LEMMA GivenUp ==
    ASSUME DoneInv, NEW new, new \cap Done = {}, UNCHANGED <<queue, handed>>,
           Held' = Held, \A a \in Held : future'[a] = future[a],
           dropped' = dropped \cup new
    PROVE  DoneInv' /\ Done' = Done \cup new
<1>1. Kept' = Kept
  BY DEF Kept
<1>2. Queued(queue') = Queued(queue)
  OBVIOUS
<1>3. /\ Kept' \cap (Queued(queue') \cup handed' \cup dropped') = {}
      /\ Queued(queue') \cap (handed' \cup dropped') = {}
      /\ handed' \cap dropped' = {}
      /\ Kept' \cup Queued(queue') \cup handed' \cup dropped' = Done \cup new
  BY <1>1, <1>2 DEF DoneInv, Done
<1>4. \A a, b \in Held' : future'[a] = future'[b] => a = b
  BY DEF DoneInv
<1> QED
  BY <1>3, <1>4 DEF DoneInv, Done

LEMMA DoneStays ==
    ASSUME DoneInv, UNCHANGED <<queue, handed, dropped>>, Held' = Held,
           \A a \in Held : future'[a] = future[a]
    PROVE  DoneInv' /\ Done' = Done
<1>1. {} \cap Done = {} /\ dropped' = dropped \cup {} /\ Done \cup {} = Done
  OBVIOUS
<1> QED
  BY <1>1, GivenUp

\* A reply enters the queue, and the oldest leaves it if it is full.
LEMMA EnqueueFact ==
    ASSUME DoneInv, NEW r \in Replies, r \notin Done, Enqueue(r),
           UNCHANGED <<pc, future>>
    PROVE  DoneInv' /\ Done' = Done \cup {r}
<1> DEFINE kept == IF Len(queue) = QueueSize THEN Tail(queue) ELSE queue
           e == [reply |-> r, age |-> 0]
<1>1. /\ queue' = Append(kept, e) /\ handed' = handed
      /\ dropped' = dropped \cup (Queued(queue) \ Queued(kept))
  BY DEF Enqueue
<1>2. e \in Entry /\ e.reply = r
  BY TimesAssumption DEF Entry
<1>3. queue \in Seq(Entry) /\ QueuedOnce(queue) /\ Len(queue) <= QueueSize
  BY DEF DoneInv
<1>4. /\ kept \in Seq(Entry) /\ QueuedOnce(kept) /\ Queued(kept) \subseteq Queued(queue)
      /\ Len(kept) + 1 <= QueueSize
  <2>1. CASE Len(queue) = QueueSize
    <3>1. queue # <<>>
      BY <2>1, BoundsAssumption
    <3> QED
      BY <1>3, <2>1, <3>1, QueueTail, BoundsAssumption
  <2>2. CASE Len(queue) # QueueSize
    <3>1. PICK n \in Nat : n = Len(queue)
      BY <1>3
    <3> QED
      BY <1>3, <2>2, <3>1, BoundsAssumption
  <2> QED
    BY <2>1, <2>2
<1>5. r \notin Queued(queue)
  BY DEF Done
<1> HIDE DEF kept, e
<1>6. /\ queue' \in Seq(Entry) /\ Len(queue') <= QueueSize /\ QueuedOnce(queue')
      /\ Queued(queue') = Queued(kept) \cup {r}
  BY <1>1, <1>2, <1>4, <1>5, QueueAppend
<1>7. Held' = Held /\ Kept' = Kept /\ \A a \in Held : future'[a] = future[a]
  BY DEF Held, Kept
<1>8. /\ Kept' \cap (Queued(queue') \cup handed' \cup dropped') = {}
      /\ Queued(queue') \cap (handed' \cup dropped') = {}
      /\ handed' \cap dropped' = {}
      /\ Kept' \cup Queued(queue') \cup handed' \cup dropped' = Done \cup {r}
  BY <1>1, <1>4, <1>6, <1>7 DEF DoneInv, Done
<1> QED
  BY <1>6, <1>7, <1>8 DEF DoneInv, Done

\* A question gets its answer, or the reply enters the queue.
LEMMA DeliverDone ==
    ASSUME IInv, PendingInv, DoneInv, NEW r \in Given, r \notin Done, NEW m, m # NoMessage,
           Deliver(r, m), UNCHANGED pc
    PROVE  DoneInv' /\ Done' = Done \cup {r}
<1>1. r \in Replies
  BY BoundsAssumption DEF IInv, Typed, Given
<1>2. CASE \E a \in DOMAIN pending : msg[a] = m /\ future[a] = NoReply
  <2> DEFINE a == CHOOSE b \in DOMAIN pending : msg[b] = m
  <2>1. a \in DOMAIN pending /\ msg[a] = m
    BY <1>2
  <2>2. future' = [future EXCEPT ![a] = r] /\ UNCHANGED <<queue, handed, dropped>>
    BY <1>2 DEF Deliver, buffer
  <2> HIDE DEF a
  <2>3. a \in Asks /\ pc[a] = "waiting" /\ future[a] = NoReply
    BY <1>2, <2>1 DEF PendingInv
  <2>4. a \notin Held
    BY <2>3 DEF Held
  <2>5. \A b \in Asks : future'[b] = (IF b = a THEN r ELSE future[b])
    BY <2>2 DEF IInv, Typed
  <2>6. Held' = Held \cup {a}
    BY <1>1, <2>3, <2>5 DEF Held
  <2>7. Kept' = Kept \cup {r}
    BY <2>3, <2>4, <2>5, <2>6 DEF Kept, Held
  <2>8. r \notin Kept
    BY DEF Done
  <2>9. \A b, c \in Held' : future'[b] = future'[c] => b = c
    BY <2>4, <2>5, <2>6, <2>8 DEF DoneInv, Kept, Held
  <2> QED
    BY <2>2, <2>7, <2>9 DEF DoneInv, Done
<1>3. CASE ~\E a \in DOMAIN pending : msg[a] = m /\ future[a] = NoReply
  <2>1. Enqueue(r) /\ UNCHANGED future
    BY <1>3 DEF Deliver
  <2> QED
    BY <1>1, <2>1, EnqueueFact
<1> QED
  BY <1>2, <1>3

\* The queue is read, with what has expired given up.
LEMMA PrunedLeaves ==
    ASSUME DoneInv
    PROVE  /\ Leaves(Queued(Pruned), {}, Expired) /\ Leaves({}, Queued(Pruned), Expired)
           /\ Pruned \in Seq(Entry) /\ Len(Pruned) <= QueueSize /\ QueuedOnce(Pruned)
<1>1. /\ Pruned \in Seq(Entry) /\ Len(Pruned) <= Len(queue)
      /\ QueuedOnce(Pruned) /\ Queued(Pruned) \subseteq Queued(queue)
  BY PrunedFact DEF DoneInv
<1>2. Len(Pruned) <= QueueSize
  <2>1. PICK n \in Nat : n = Len(queue)
    BY DEF DoneInv
  <2>2. PICK k \in Nat : k = Len(Pruned)
    BY <1>1
  <2> QED
    BY <1>1, <2>1, <2>2, BoundsAssumption DEF DoneInv
<1> QED
  BY <1>1, <1>2 DEF Leaves, Expired

LEMMA ReadStep ==
    ASSUME DoneInv, CheckReplies \/ PeekReplies
    PROVE  DoneInv' /\ Done' = Done
<1>1. UNCHANGED asking /\ dropped' = dropped \cup Expired
  BY DEF CheckReplies, PeekReplies
<1>2. Held' = Held /\ \A a \in Held : future'[a] = future[a]
  BY <1>1 DEF asking, Held
<1>3. CASE CheckReplies
  <2>1. /\ queue' \in Seq(Entry) /\ Len(queue') <= QueueSize /\ QueuedOnce(queue')
        /\ Queued(queue') = {} /\ handed' = handed \cup Queued(Pruned)
    BY <1>3, QueueEmpty, BoundsAssumption DEF CheckReplies
  <2> QED
    BY <1>1, <1>2, <2>1, PrunedLeaves, DoneFrame
<1>4. CASE PeekReplies
  <2>1. queue' = Pruned /\ handed' = handed \cup {}
    BY <1>4 DEF PeekReplies
  <2> QED
    BY <1>1, <1>2, <2>1, PrunedLeaves, DoneFrame
<1> QED
  BY <1>3, <1>4

LEMMA AskDone ==
    ASSUME IInv, DoneInv, NEW a \in Asks, Ask(a)
    PROVE  DoneInv' /\ Done' = Done
<1>1. /\ pc[a] = "idle" /\ queue' = Pruned
      /\ \E to \in {"refused", "sending"} : pc' = [pc EXCEPT ![a] = to]
      /\ future' = [b \in Asks |-> IF b \in Stale /\ future[b] = NoReply
                                   THEN Cancelled ELSE future[b]]
      /\ handed' = handed \cup {} /\ dropped' = dropped \cup Expired
  BY DEF Ask
<1>2. Cancelled \notin Replies /\ NoReply \notin Replies
  BY BoundsAssumption
<1>3. \A b \in Asks : future'[b] # future[b] => future'[b] \notin Replies /\ future[b] \notin Replies
  BY <1>1, <1>2
<1>4. \A b \in Asks : pc'[b] # pc[b] => /\ pc'[b] \notin {"waiting", "answered"}
                                        /\ pc[b] \notin {"waiting", "answered"}
  BY <1>1 DEF IInv, Typed
<1>5. Held' = Held /\ \A b \in Held : future'[b] = future[b]
  BY <1>3, <1>4 DEF Held
<1> QED
  BY <1>1, <1>5, PrunedLeaves, DoneFrame

LEMMA SendingDone ==
    ASSUME IInv, DoneInv, NEW a \in Asks, Sending(a)
    PROVE  DoneInv' /\ Done' = Done
<1>1. /\ pc[a] = "sending" /\ UNCHANGED <<future, queue, handed, dropped>>
      /\ \E to \in {"waiting", "failed"} : pc' = [pc EXCEPT ![a] = to]
  BY DEF Sending, Wait, SendFails, buffer
<1>2. future[a] \notin Replies
  BY <1>1 DEF IInv, UnsentInv
<1>3. Held' = Held
  BY <1>1, <1>2 DEF Held, IInv, Typed
<1> QED
  BY <1>1, <1>3, DoneStays

LEMMA EndingDone ==
    ASSUME IInv, DoneInv, NEW a \in Asks, Ending(a)
    PROVE  DoneInv' /\ Done' = Done
<1>1. pc[a] = "waiting" /\ UNCHANGED <<future, queue, handed>>
  BY DEF Ending, Answered, CutShort, TimesOut, TimesOutAnswered, End
<1>2. CASE Answered(a) \/ CutShort(a) \/ TimesOut(a)
  <2>1. /\ UNCHANGED dropped
        /\ \E to : pc' = [pc EXCEPT ![a] = to] /\ (to = "answered" \/ future[a] \notin Replies)
    BY <1>2, BoundsAssumption DEF Answered, CutShort, TimesOut, End
  <2>2. Held' = Held
    BY <1>1, <2>1 DEF Held, IInv, Typed
  <2> QED
    BY <1>1, <2>1, <2>2, DoneStays
<1>3. CASE TimesOutAnswered(a)
  <2>1. /\ future[a] \in Replies /\ pc' = [pc EXCEPT ![a] = "timeout"]
        /\ dropped' = dropped \cup {future[a]}
    BY <1>3 DEF TimesOutAnswered, End
  <2>2. Held' = Held \ {a} /\ a \in Held
    BY <1>1, <2>1 DEF Held, IInv, Typed
  <2>3. Kept' = Kept \ {future[a]} /\ future[a] \in Kept
    BY <1>1, <2>2 DEF Kept, DoneInv
  <2>4. \A b, c \in Held' : future'[b] = future'[c] => b = c
    BY <1>1, <2>2 DEF DoneInv
  <2> QED
    BY <1>1, <2>1, <2>3, <2>4 DEF DoneInv, Done
<1> QED
  BY <1>2, <1>3 DEF Ending

LEMMA CloseDone ==
    ASSUME IInv, DoneInv, Close
    PROVE  DoneInv' /\ Done' = Done
<1>1. /\ future' = [a \in Asks |-> IF a \in DOMAIN pending /\ future[a] = NoReply
                                   THEN Cancelled ELSE future[a]]
      /\ pc' = pc /\ queue' = <<>>
      /\ handed' = handed \cup {} /\ dropped' = dropped \cup Queued(queue)
  BY DEF Close
<1>2. \A b \in Asks : future'[b] # future[b] => future'[b] \notin Replies /\ future[b] \notin Replies
  BY <1>1, BoundsAssumption
<1>3. Held' = Held /\ \A b \in Held : future'[b] = future[b]
  BY <1>1, <1>2 DEF Held
<1>4. Leaves({}, {}, Queued(queue))
  BY DEF Leaves
<1>5. queue' \in Seq(Entry) /\ Len(queue') <= QueueSize /\ QueuedOnce(queue') /\ Queued(queue') = {}
  BY <1>1, QueueEmpty, BoundsAssumption
<1> QED
  BY <1>1, <1>3, <1>4, <1>5, DoneFrame

LEMMA TickDone ==
    ASSUME DoneInv, Tick
    PROVE  DoneInv' /\ Done' = Done
<1>1. /\ queue' = [i \in DOMAIN queue |-> [queue[i] EXCEPT !.age = Older(@, QueueTTL + 1)]]
      /\ UNCHANGED <<pc, future, handed, dropped>>
  BY DEF Tick
<1>2. queue \in Seq(Entry)
  BY DEF DoneInv
<1>3. PICK n \in Nat : n = Len(queue) /\ DOMAIN queue = 1..n
  BY <1>2
<1>4. ASSUME NEW i \in 1..n
      PROVE  queue'[i] \in Entry /\ queue'[i].reply = queue[i].reply
  <2>1. queue[i] \in Entry
    BY <1>2, <1>3
  <2>2. PICK e \in Entry : e = queue[i]
    BY <2>1
  <2>3. queue'[i] = [e EXCEPT !.age = Older(@, QueueTTL + 1)]
    BY <1>1, <1>3, <2>2
  <2>4. e.age \in 0..(QueueTTL + 1)
    BY DEF Entry
  <2>5. Older(e.age, QueueTTL + 1) \in 0..(QueueTTL + 1)
    BY <2>4, TimesAssumption DEF Older
  <2> QED
    BY <2>2, <2>3, <2>5 DEF Entry
<1>5. DOMAIN queue' = 1..n
  BY <1>1, <1>3
<1>6. queue' \in [1..n -> Entry]
  BY <1>1, <1>3, <1>4
<1>7. queue' \in Seq(Entry) /\ Len(queue') = n
  BY <1>5, <1>6
<1>8. QueuedOnce(queue') /\ Queued(queue') = Queued(queue)
  <2>1. QueuedOnce(queue)
    BY DEF DoneInv
  <2> QED
    BY <1>3, <1>4, <1>5, <2>1 DEF QueuedOnce, Queued
<1>9. Held' = Held /\ \A b \in Held : future'[b] = future[b]
  BY <1>1 DEF Held
<1>10. Leaves(Queued(queue), {}, {})
  BY DEF Leaves
<1>11. /\ handed' = handed \cup {} /\ dropped' = dropped \cup {}
       /\ Len(queue') <= QueueSize
  BY <1>1, <1>3, <1>7 DEF DoneInv
<1> QED
  BY <1>7, <1>8, <1>9, <1>10, <1>11, DoneFrame

-----------------------------------------------------------------------------
(* What it has still to deal with, and all of it. *)

LEMMA PlaceFrame ==
    ASSUME PlaceInv, Open' = Open, Done' = Done, UNCHANGED replies
    PROVE  PlaceInv'
BY DEF PlaceInv, Given

LEMMA OpenStays ==
    ASSUME OpenInv, UNCHANGED <<arrived, updates, handling>>
    PROVE  OpenInv' /\ Open' = Open
BY DEF OpenInv, Open

\* Replies that are dealt with: their places are exchanged, and none is lost.
LEMMA Settled ==
    ASSUME PlaceInv, NEW S \in SUBSET Open, Open' = Open \ S, Done' = Done \cup S,
           UNCHANGED replies
    PROVE  PlaceInv'
BY DEF PlaceInv, Given

LEMMA UserPlaces ==
    ASSUME IInv, LInv, NEW m \in {NoMessage} \cup DOMAIN posted, NEW kind \in Kinds,
           UserReplies(m, kind)
    PROVE  OpenInv' /\ DoneInv' /\ PlaceInv'
<1>1. /\ replies' = Append(replies, [to |-> m, kind |-> kind])
      /\ arrived' = Append(arrived, Len(replies) + 1)
      /\ UNCHANGED <<updates, handling, asking, buffer>>
  BY DEF UserReplies
<1>2. PICK n \in Nat : n = Len(replies)
  <2>1. replies \in Seq([to : Nat, kind : Kinds])
    BY DEF IInv, Typed
  <2> QED
    BY <2>1
<1>3. Len(replies') = n + 1
  BY <1>1, <1>2 DEF IInv, Typed
<1>4. Given = 1..n /\ Given' = 1..n \cup {n + 1} /\ n + 1 \notin 1..n /\ n + 1 # NoReply
  BY <1>2, <1>3 DEF Given
<1>5. n + 1 \notin Open /\ n + 1 \notin Done
  BY <1>4 DEF LInv, PlaceInv
<1>6. arrived \in Seq(Nat) /\ Once(arrived) /\ n + 1 \in Nat /\ n + 1 \notin ToSet(arrived)
  BY <1>2, <1>5 DEF IInv, Typed, LInv, OpenInv, Given, Open
<1>7. Once(arrived') /\ ToSet(arrived') = ToSet(arrived) \cup {n + 1}
  BY <1>1, <1>2, <1>6, OnceAppend
<1>8. OpenInv' /\ Open' = Open \cup {n + 1}
  BY <1>1, <1>4, <1>5, <1>7 DEF LInv, OpenInv, Open
<1>9. DoneInv' /\ Done' = Done
  BY <1>1, DoneStays DEF LInv, asking, buffer, Held
<1> QED
  BY <1>4, <1>5, <1>8, <1>9 DEF LInv, PlaceInv

\* get_updates returns.
LEMMA FetchPlaces ==
    ASSUME IInv, LInv, Fetch
    PROVE  OpenInv' /\ DoneInv' /\ PlaceInv'
<1>1. /\ updates = <<>> /\ updates' = arrived /\ arrived' = <<>>
      /\ UNCHANGED <<replies, handling, asking, buffer>>
  BY DEF Fetch, chat
<1>2. /\ ToSet(updates) = {} /\ ToSet(arrived') = {} /\ Once(arrived')
      /\ ToSet(updates') = ToSet(arrived)
  BY <1>1 DEF ToSet, Once
<1>3. OpenInv' /\ Open' = Open
  BY <1>1, <1>2 DEF LInv, OpenInv, Open
<1>4. DoneInv' /\ Done' = Done
  BY <1>1, DoneStays DEF LInv, asking, buffer, Held
<1> QED
  BY <1>1, <1>3, <1>4, PlaceFrame DEF LInv

LEMMA TakePlaces ==
    ASSUME IInv, LInv, Take
    PROVE  OpenInv' /\ DoneInv' /\ PlaceInv'
<1> DEFINE r == Head(updates)
           m == Addressee(r)
<1>1. /\ handling = NoReply /\ updates # <<>> /\ updates' = Tail(updates)
      /\ UNCHANGED <<replies, arrived, pc>>
  BY DEF Take, chat
<1>2. updates \in Seq(Given) /\ Once(updates)
  BY DEF IInv, Typed, LInv, OpenInv
<1>3. /\ r \in Given /\ r \in ToSet(updates) /\ Once(updates')
      /\ ToSet(updates') = ToSet(updates) \ {r}
  BY <1>1, <1>2, OnceTail
<1>4. r # NoReply /\ r \in Open /\ r \notin Done /\ r \notin ToSet(arrived)
  BY <1>3 DEF Given, Open, LInv, PlaceInv, OpenInv
<1>5. CASE handling' = r /\ UNCHANGED <<future, buffer>>
  <2>1. OpenInv' /\ Open' = Open
    BY <1>1, <1>3, <1>4, <1>5 DEF LInv, OpenInv, Open
  <2>2. DoneInv' /\ Done' = Done
    BY <1>1, <1>5, DoneStays DEF LInv, buffer, Held
  <2> QED
    BY <1>1, <2>1, <2>2, PlaceFrame DEF LInv
<1>6. CASE handling' = handling /\ DoneInv' /\ Done' = Done \cup {r}
  <2>1. OpenInv' /\ Open' = Open \ {r}
    BY <1>1, <1>3, <1>4, <1>6 DEF LInv, OpenInv, Open
  <2> HIDE DEF r
  <2>2. {r} \in SUBSET Open
    BY <1>4
  <2> QED
    BY <1>1, <1>6, <2>1, <2>2, Settled DEF LInv
<1>7. CASE Drop(r) /\ UNCHANGED handling
  <2>1. UNCHANGED <<queue, handed>> /\ dropped' = dropped \cup {r} /\ {r} \cap Done = {}
    BY <1>4, <1>7 DEF Drop
  <2>2. Held' = Held /\ \A a \in Held : future'[a] = future[a]
    BY <1>1, <1>7 DEF Drop, Held
  <2> HIDE DEF r
  <2>3. DoneInv' /\ Done' = Done \cup {r}
    BY <2>1, <2>2, GivenUp DEF LInv
  <2> QED
    BY <1>6, <1>7, <2>3
<1>8. CASE m # NoMessage /\ Deliver(r, m) /\ UNCHANGED handling
  <2> HIDE DEF r, m
  <2>1. DoneInv' /\ Done' = Done \cup {r}
    BY <1>1, <1>3, <1>4, <1>8, DeliverDone DEF LInv
  <2> QED
    BY <1>6, <1>8, <2>1
<1>9. \/ handling' = r /\ UNCHANGED <<future, buffer>>
      \/ Drop(r) /\ UNCHANGED handling
      \/ m # NoMessage /\ Deliver(r, m) /\ UNCHANGED handling
  BY DEF Take
<1> QED
  BY <1>5, <1>7, <1>8, <1>9

LEMMA ResumePlaces ==
    ASSUME IInv, LInv, Resume
    PROVE  OpenInv' /\ DoneInv' /\ PlaceInv'
<1> DEFINE m == IF target # NoMessage THEN target ELSE Addressee(handling)
<1>1. /\ handling # NoReply /\ handling' = NoReply /\ Deliver(handling, m)
      /\ UNCHANGED <<replies, arrived, updates, pc>>
  BY DEF Resume, chat
<1>2. m # NoMessage
  BY <1>1 DEF IInv, TargetInv, Addressee
<1>3. handling \in Given /\ handling \in Open /\ handling \notin Done
  BY <1>1 DEF IInv, Typed, Open, LInv, PlaceInv
<1> HIDE DEF m
<1>4. DoneInv' /\ Done' = Done \cup {handling}
  BY <1>1, <1>2, <1>3, DeliverDone DEF LInv
<1>5. NoReply \notin Given
  BY DEF Given
<1>6. OpenInv' /\ Open' = Open \ {handling}
  BY <1>1, <1>5 DEF IInv, Typed, LInv, PlaceInv, OpenInv, Open
<1>7. {handling} \in SUBSET Open
  BY <1>3
<1> QED
  BY <1>1, <1>4, <1>6, <1>7, Settled DEF LInv

\* The rest of the batch is gone.
LEMMA GonePlaces ==
    ASSUME IInv, LInv, Raise \/ StopLoop
    PROVE  OpenInv' /\ DoneInv' /\ PlaceInv'
<1> DEFINE gone == ToSet(updates) \cup ({handling} \ {NoReply})
<1>1. /\ updates' = <<>> /\ handling' = NoReply
      /\ UNCHANGED <<replies, arrived, asking, queue, handed>>
      /\ dropped' = dropped \cup gone
  BY DEF Raise, StopLoop, chat
<1>2. ToSet(updates') = {} /\ Once(updates')
  BY <1>1 DEF ToSet, Once
<1>3. NoReply \notin Given
  BY DEF Given
<1>4. OpenInv' /\ Open' = Open \ gone /\ gone \in SUBSET Open
  BY <1>1, <1>2, <1>3 DEF LInv, PlaceInv, OpenInv, Open
<1>5. Held' = Held /\ \A a \in Held : future'[a] = future[a]
  BY <1>1 DEF asking, Held
<1>6. gone \cap Done = {}
  BY <1>4 DEF LInv, PlaceInv
<1> HIDE DEF gone
<1>7. DoneInv' /\ Done' = Done \cup gone
  BY <1>1, <1>5, <1>6, GivenUp DEF LInv
<1> QED
  BY <1>1, <1>4, <1>7, Settled DEF LInv

LEMMA PlaceStep ==
    ASSUME IInv, LInv, [Next]_vars
    PROVE  OpenInv' /\ DoneInv' /\ PlaceInv'
<1>1. ASSUME NEW m \in {NoMessage} \cup DOMAIN posted, NEW kind \in Kinds,
             UserReplies(m, kind)
      PROVE  OpenInv' /\ DoneInv' /\ PlaceInv'
  BY <1>1, UserPlaces
<1>2. ASSUME UNCHANGED <<replies, arrived, updates, handling>>, DoneInv' /\ Done' = Done
      PROVE  OpenInv' /\ DoneInv' /\ PlaceInv'
  BY <1>2, OpenStays, PlaceFrame DEF LInv
<1>3. CASE Notify \/ (\E a \in Asks : Post(a)) \/ UNCHANGED vars
  <2>1. UNCHANGED <<replies, arrived, updates, handling, asking, buffer>>
    BY <1>3 DEF Notify, Post, vars, chat, loop
  <2>2. DoneInv' /\ Done' = Done
    BY <2>1, DoneStays DEF LInv, asking, buffer, Held
  <2> QED
    BY <1>2, <2>1, <2>2
<1>4. CASE CheckReplies \/ PeekReplies \/ Close \/ Tick
  <2>1. UNCHANGED <<replies, arrived, updates, handling>>
    BY <1>4 DEF CheckReplies, PeekReplies, Close, Tick, chat, loop
  <2>2. DoneInv' /\ Done' = Done
    BY <1>4, ReadStep, CloseDone, TickDone DEF LInv
  <2> QED
    BY <1>2, <2>1, <2>2
<1>5. ASSUME NEW a \in Asks, Ask(a) \/ Sending(a) \/ Ending(a)
      PROVE  OpenInv' /\ DoneInv' /\ PlaceInv'
  <2>1. UNCHANGED <<replies, arrived, updates, handling>>
    BY <1>5 DEF Ask, Sending, Wait, SendFails, Ending, Answered, CutShort, TimesOut,
       TimesOutAnswered, End, chat, loop
  <2>2. DoneInv' /\ Done' = Done
    BY <1>5, AskDone, SendingDone, EndingDone DEF LInv
  <2> QED
    BY <1>2, <2>1, <2>2
<1> QED
  BY <1>1, <1>3, <1>4, <1>5, FetchPlaces, TakePlaces, ResumePlaces, GonePlaces DEF Next

LEMMA LInvariant == Spec => [](IInv /\ LInv)
<1>1. IInv /\ LInv /\ [Next]_vars => LInv'
  BY PendingStep, MessageStep, PlaceStep DEF LInv
<1> QED
  BY <1>1, InitIInv, IInvStep, LInvInit, PTL DEF Spec

-----------------------------------------------------------------------------
Tag(t, S) == {<<t, i>> : i \in S}

LEMMA Tagged ==
    ASSUME NEW t, NEW S, \A i, j \in S : i = j
    PROVE  IF S = {} THEN Tag(t, S) = {} ELSE \E x : Tag(t, S) = {x}
<1>1. CASE S # {}
  <2>1. PICK k \in S : TRUE
    BY <1>1
  <2>2. S = {k}
    BY <2>1
  <2>3. Tag(t, S) = {<<t, k>>}
    BY <2>2 DEF Tag
  <2> QED
    BY <1>1, <2>3
<1> QED
  BY <1>1 DEF Tag

\* A reply in one place of the account is in one place.
LEMMA OneHome ==
    ASSUME IInv, LInv, NEW r \in Given
    PROVE  Cardinality(Homes(r)) = 1
<1> DEFINE A == {<<"arrived", i>> : i \in {i \in DOMAIN arrived : arrived[i] = r}}
           U == {<<"updates", i>> : i \in {i \in DOMAIN updates : updates[i] = r}}
           H == {<<"handling", 0>> : i \in {handling} \cap {r}}
           K == {<<"ask", a>> : a \in {a \in Asks : /\ future[a] = r
                                                    /\ pc[a] \in {"waiting", "answered"}}}
           Q == {<<"queue", i>> : i \in {i \in DOMAIN queue : queue[i].reply = r}}
           N == {<<"handed", 0>> : i \in handed \cap {r}}
           D == {<<"dropped", 0>> : i \in dropped \cap {r}}
<1>1. Homes(r) = A \cup U \cup H \cup K \cup Q \cup N \cup D
  BY DEF Homes
<1>2. r \in Replies /\ r # NoReply
  BY BoundsAssumption DEF IInv, Typed, Given
<1>3. IF r \in ToSet(arrived) THEN \E x : A = {x} ELSE A = {}
  <2> DEFINE S == {i \in DOMAIN arrived : arrived[i] = r}
  <2>1. (\A i, j \in S : i = j) /\ (r \in ToSet(arrived) <=> S # {})
    BY DEF LInv, OpenInv, Once, ToSet
  <2>2. A = Tag("arrived", S)
    BY DEF Tag
  <2> HIDE DEF S, A
  <2> QED
    BY <2>1, <2>2, Tagged
<1>4. IF r \in ToSet(updates) THEN \E x : U = {x} ELSE U = {}
  <2> DEFINE S == {i \in DOMAIN updates : updates[i] = r}
  <2>1. (\A i, j \in S : i = j) /\ (r \in ToSet(updates) <=> S # {})
    BY DEF LInv, OpenInv, Once, ToSet
  <2>2. U = Tag("updates", S)
    BY DEF Tag
  <2> HIDE DEF S, U
  <2> QED
    BY <2>1, <2>2, Tagged
<1>5. IF r = handling THEN \E x : H = {x} ELSE H = {}
  OBVIOUS
<1>6. IF r \in Kept THEN \E x : K = {x} ELSE K = {}
  <2> DEFINE S == {a \in Asks : future[a] = r /\ pc[a] \in {"waiting", "answered"}}
  <2>1. (\A i, j \in S : i = j) /\ (r \in Kept <=> S # {})
    BY <1>2 DEF LInv, DoneInv, Kept, Held
  <2>2. K = Tag("ask", S)
    BY DEF Tag
  <2> HIDE DEF S, K
  <2> QED
    BY <2>1, <2>2, Tagged
<1>7. IF r \in Queued(queue) THEN \E x : Q = {x} ELSE Q = {}
  <2> DEFINE S == {i \in DOMAIN queue : queue[i].reply = r}
  <2>1. (\A i, j \in S : i = j) /\ (r \in Queued(queue) <=> S # {})
    BY DEF LInv, DoneInv, QueuedOnce, Queued
  <2>2. Q = Tag("queue", S)
    BY DEF Tag
  <2> HIDE DEF S, Q
  <2> QED
    BY <2>1, <2>2, Tagged
<1>8. /\ IF r \in handed THEN \E x : N = {x} ELSE N = {}
      /\ IF r \in dropped THEN \E x : D = {x} ELSE D = {}
  OBVIOUS
<1> HIDE DEF A, U, H, K, Q, N, D
<1>9. r \in Open \cup Done /\ ~(r \in Open /\ r \in Done)
  BY DEF LInv, PlaceInv
<1>10. CASE r \in Open
  <2>1. r \notin Kept /\ r \notin Queued(queue) /\ r \notin handed /\ r \notin dropped
    BY <1>9, <1>10 DEF Done
  <2>2. K = {} /\ Q = {} /\ N = {} /\ D = {}
    BY <1>6, <1>7, <1>8, <2>1
  <2>3. r \in ToSet(arrived) \/ r \in ToSet(updates) \/ r = handling
    BY <1>10 DEF Open
  <2>4. /\ r \in ToSet(arrived) => r \notin ToSet(updates) /\ r # handling
        /\ r \in ToSet(updates) => r # handling
    BY DEF LInv, OpenInv
  <2>5. \E x : Homes(r) = {x}
    BY <1>1, <1>3, <1>4, <1>5, <2>2, <2>3, <2>4
  <2> QED
    BY <2>5, FS_Singleton
<1>11. CASE r \in Done
  <2>1. r \notin ToSet(arrived) /\ r \notin ToSet(updates) /\ r # handling
    BY <1>2, <1>9, <1>11 DEF Open
  <2>2. A = {} /\ U = {} /\ H = {}
    BY <1>3, <1>4, <1>5, <2>1
  <2>3. r \in Kept \/ r \in Queued(queue) \/ r \in handed \/ r \in dropped
    BY <1>11 DEF Done
  <2>4. /\ r \in Kept => r \notin Queued(queue) /\ r \notin handed /\ r \notin dropped
        /\ r \in Queued(queue) => r \notin handed /\ r \notin dropped
        /\ r \in handed => r \notin dropped
    BY DEF LInv, DoneInv
  <2>5. \E x : Homes(r) = {x}
    BY <1>1, <1>6, <1>7, <1>8, <2>2, <2>3, <2>4
  <2> QED
    BY <2>5, FS_Singleton
<1> QED
  BY <1>9, <1>10, <1>11

\* Every reply of the user is in one place: on its way, with the one question it
\* answers, in the queue, handed out or given up; the queue makes room, expires
\* and is emptied, questions are answered, time out and are cleaned up, and no
\* reply is lost or used twice (_process_update, resolve_reply, reply_queue).
THEOREM NoReplyLost == Spec => []RepliesAccounted
<1>1. IInv /\ LInv => RepliesAccounted
  <2> SUFFICES ASSUME IInv, LInv, NEW r \in DOMAIN replies
               PROVE  Cardinality(Homes(r)) = 1
    BY DEF RepliesAccounted
  <2>1. r \in Given
    BY DEF IInv, Typed, Given
  <2> QED
    BY <2>1, OneHome
<1> QED
  BY <1>1, LInvariant, PTL

\* The bound on the ages is above every timeout.
LEMMA OldestFact ==
    Oldest \in Nat /\ \A a \in Asks : Timeout[a] <= Oldest
<1> DEFINE T == {Timeout[a] : a \in Asks}
           S == {StaleAfter + 1} \cup T
<1>1. IsFiniteSet(T)
  <2>1. Timeout \in Surjection(Asks, T)
    BY TimesAssumption DEF Surjection
  <2> HIDE DEF T
  <2> QED
    BY <2>1, TimesAssumption, FS_Surjection
<1>2. IsFiniteSet({StaleAfter + 1})
  BY FS_Singleton
<1>3. IsFiniteSet(S)
  <2> HIDE DEF T
  <2> QED
    BY <1>1, <1>2, FS_Union
<1>4. S \in SUBSET Nat /\ S # {} /\ \A a \in Asks : Timeout[a] \in S
  BY TimesAssumption
<1>5. Oldest = Max(S)
  BY DEF Oldest
<1> HIDE DEF S
<1> QED
  BY <1>3, <1>4, <1>5, Bounded

LEMMA WiderSeq ==
    ASSUME NEW S, NEW T, S \subseteq T, NEW s \in Seq(S)
    PROVE  s \in Seq(T)
OBVIOUS

\* Every variable keeps its type, and the queue of replies its limit.
THEOREM TypeCorrect == Spec => []TypeOK
<1>1. IInv /\ LInv => TypeOK
  <2> SUFFICES ASSUME IInv, LInv PROVE TypeOK
    OBVIOUS
  <2>1. Given \subseteq Replies
    BY BoundsAssumption DEF IInv, Typed, Given
  <2>2. /\ posted \in Seq(Asks \cup {Note}) /\ Len(posted) <= MaxMessages
        /\ arrived \in Seq(Replies) /\ updates \in Seq(Replies)
        /\ handling \in Replies \cup {NoReply}
    <3>1. /\ posted \in Seq(Asks \cup {Note})
          /\ arrived \in Seq(Given) /\ updates \in Seq(Given)
          /\ handling \in Given \cup {NoReply}
      BY DEF IInv, Typed
    <3>2. Len(posted) <= MaxMessages
      BY DEF LInv, PendingInv
    <3> QED
      BY <2>1, <3>1, <3>2, WiderSeq
  <2>3. replies \in Seq([to : Messages \cup {NoMessage}, kind : Kinds])
    <3> DEFINE Sent == [to : Nat, kind : Kinds]
               Reply == [to : Messages \cup {NoMessage}, kind : Kinds]
    <3>1. replies \in Seq(Sent)
      BY DEF IInv, Typed
    <3>2. PICK n \in Nat : n = Len(replies)
      <4> HIDE DEF Sent
      <4> QED
        BY <3>1
    <3>3. ASSUME NEW r \in 1..n PROVE replies[r] \in Reply
      <4>1. replies[r] \in Sent
        <5> HIDE DEF Sent
        <5> QED
          BY <3>1, <3>2
      <4>2. replies[r].to \in Messages \cup {NoMessage}
        BY <3>2 DEF LInv, MessageInv, Given
      <4> QED
        BY <4>1, <4>2
    <3> HIDE DEF Sent, Reply
    <3>4. DOMAIN replies = 1..n /\ replies = [r \in DOMAIN replies |-> replies[r]]
      BY <3>1, <3>2
    <3>5. replies \in [1..n -> Reply]
      BY <3>3, <3>4
    <3>6. replies \in Seq(Reply)
      BY <3>2, <3>5
    <3> QED
      BY <3>6 DEF Reply
  <2>4. target \in Messages \cup {NoMessage} /\ serving \in {"on", "stopped", "closed"}
    BY DEF LInv, MessageInv
  <2>5. msg \in [Asks -> Messages \cup {NoMessage}]
    BY BoundsAssumption DEF IInv, Typed, LInv, PendingInv, Messages
  <2>6. /\ pc \in [Asks -> Labels] /\ stamped \subseteq Asks
        /\ future \in [Asks -> Replies \cup {NoReply, Cancelled}]
        /\ pending \in [DOMAIN pending -> Nat] /\ DOMAIN pending \subseteq Asks
    BY DEF IInv, Typed, LInv, PendingInv
  <2>7. age \in [Asks -> 0..Oldest]
    <3>1. \A a \in Asks : age[a] \in 0..Oldest
      BY OldestFact, TimesAssumption DEF IInv, Typed, AgeInv
    <3> QED
      BY <3>1 DEF IInv, Typed
  <2>8. queue \in Seq([reply : Replies, age : 0..(QueueTTL + 1)]) /\ Len(queue) <= QueueSize
    BY DEF LInv, DoneInv, Entry
  <2>9. handed \subseteq Replies /\ dropped \subseteq Replies
    BY <2>1 DEF LInv, PlaceInv, Done
  <2> QED
    BY <2>2, <2>3, <2>4, <2>5, <2>6, <2>7, <2>8, <2>9 DEF TypeOK, Labels
<1> QED
  BY <1>1, LInvariant, PTL

=============================================================================
