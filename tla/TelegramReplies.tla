-------------------------- MODULE TelegramReplies --------------------------
(***************************************************************************)
(* The tools of one session and its polling loop: telegram_ask sends a     *)
(* question and waits for a future, the polling loop resolves the future   *)
(* with the user's reply or puts the reply in a queue, which               *)
(* telegram_check_replies empties.  Router and chat are the environment:   *)
(* replies arrive in order, in batches.                                    *)
(*                                                                         *)
(* Everything runs in one event loop.  The polling loop only lets others   *)
(* run while it waits for updates, for the acknowledgement of a button or  *)
(* for a transcription: between two text messages of a batch nobody else   *)
(* runs.                                                                   *)
(*                                                                         *)
(* Time passes in ticks, and what the code compares with time.time() is    *)
(* kept as an age.  Messages are numbered by their place in `posted',      *)
(* replies by their place in `replies'.                                    *)
(***************************************************************************)
EXTENDS Integers, Sequences, FiniteSets, SequencesExt, FiniteSetsExt

CONSTANTS
    Asks,         \* calls of telegram_ask
    Timeout,      \* Timeout[a]: its timeout_seconds
    StaleAfter,   \* DEFAULT_ASK_TIMEOUT + STALE_FUTURE_BUFFER
    MaxPending,   \* MAX_PENDING_REPLIES
    QueueSize,    \* REPLY_QUEUE_MAX_SIZE
    QueueTTL,     \* REPLY_QUEUE_TTL
    Note,         \* a notification
    Kinds,        \* kinds of replies the user sends
    MaxMessages,  \* bound: messages sent
    MaxReplies    \* bound: replies of the user

ASSUME TimesAssumption ==
    /\ Timeout \in [Asks -> Nat \ {0}] /\ IsFiniteSet(Asks)
    /\ StaleAfter \in Nat /\ QueueTTL \in Nat
ASSUME BoundsAssumption ==
    /\ MaxPending \in Nat /\ QueueSize \in Nat \ {0}
    /\ MaxMessages \in Nat /\ MaxReplies \in Nat
    /\ Note \notin Asks
    /\ Kinds \subseteq {"text", "voice", "button", "other"}

NoMessage == 0
NoReply == 0
Messages == 1..MaxMessages
Replies == 1..MaxReplies
Oldest == Max({StaleAfter + 1} \cup {Timeout[a] : a \in Asks})

VARIABLES
    posted,    \* messages in the chat: the ask they are a copy of, or Note
    replies,   \* the user's replies: the message they answer, and their kind
    arrived,   \* replies on their way to the session
    updates,   \* the batch the polling loop is working on
    handling,  \* the reply it waits with, or NoReply
    target,    \* the message this reply is taken to answer
    serving,   \* "on", then "stopped" (no loop), then "closed"
    pc,        \* of each ask
    msg,       \* msg[a]: message_id of the question
    pending,   \* pending_replies: the asks in it, with their turn of insertion
    stamped,   \* asks in _pending_timestamps
    age,       \* age[a]: since the future was created, while a waits
    future,    \* future[a]: NoReply, the result, or Cancelled
    queue,     \* reply_queue
    handed,    \* history: replies returned by telegram_check_replies
    dropped    \* history: replies that were given up

chat == <<posted, replies>>
loop == <<arrived, updates, handling, target>>
asking == <<pc, msg, pending, stamped, age, future>>
buffer == <<queue, handed, dropped>>
vars == <<chat, loop, serving, asking, buffer>>

Cancelled == MaxReplies + 1

Init ==
    /\ posted = <<>> /\ replies = <<>>
    /\ arrived = <<>> /\ updates = <<>>
    /\ handling = NoReply /\ target = NoMessage
    /\ serving = "on"
    /\ pc = [a \in Asks |-> "idle"]
    /\ msg = [a \in Asks |-> NoMessage]
    /\ pending = [a \in {} |-> 0] /\ stamped = {}
    /\ age = [a \in Asks |-> 0]
    /\ future = [a \in Asks |-> NoReply]
    /\ queue = <<>> /\ handed = {} /\ dropped = {}

\* The polling loop is at an await, or gone: other tasks run.
AtAwait == handling # NoReply \/ updates = <<>>

-----------------------------------------------------------------------------
(* The user *)

UserReplies(m, kind) ==
    /\ Len(replies) < MaxReplies
    /\ kind = "button" => m # NoMessage /\ posted[m] \in Asks
    /\ replies' = Append(replies, [to |-> m, kind |-> kind])
    /\ arrived' = Append(arrived, Len(replies) + 1)
    /\ UNCHANGED <<posted, updates, handling, target, serving, asking, buffer>>

-----------------------------------------------------------------------------
(* The reply queue *)

Queued(q) == {q[i].reply : i \in DOMAIN q}

\* deque(maxlen): the oldest entry makes room.
EnqueueUnbounded(r) ==
    /\ queue' = Append(queue, [reply |-> r, age |-> 0])
    /\ UNCHANGED <<handed, dropped>>

Enqueue(r) ==
    LET full == Len(queue) = QueueSize
        kept == IF full THEN Tail(queue) ELSE queue
    IN /\ queue' = Append(kept, [reply |-> r, age |-> 0])
       /\ dropped' = dropped \cup (Queued(queue) \ Queued(kept))
       /\ handed' = handed

\* _prune_expired_replies: from the front, up to the first that is not expired.
Pruned ==
    LET fresh == {i \in DOMAIN queue : queue[i].age <= QueueTTL}
    IN IF fresh = {} THEN <<>> ELSE SubSeq(queue, Min(fresh), Len(queue))

Expired == Queued(queue) \ Queued(Pruned)

CheckReplies ==
    /\ AtAwait /\ serving = "on"
    /\ queue # <<>>
    /\ queue' = <<>>
    /\ handed' = handed \cup Queued(Pruned)
    /\ dropped' = dropped \cup Expired
    /\ UNCHANGED <<chat, loop, serving, asking>>

\* With clear = False.
PeekReplies ==
    /\ AtAwait /\ serving = "on"
    /\ queue' = Pruned
    /\ dropped' = dropped \cup Expired
    /\ UNCHANGED <<chat, loop, serving, asking, handed>>

-----------------------------------------------------------------------------
(* telegram_notify and telegram_ask *)

Notify ==
    /\ AtAwait /\ serving = "on"
    /\ Len(posted) < MaxMessages
    /\ posted' = Append(posted, Note)
    /\ UNCHANGED <<replies, loop, serving, asking, buffer>>

Stale == {a \in stamped : age[a] > StaleAfter}

\* cleanup_stale_futures, then the limit on pending questions.
Ask(a) ==
    /\ AtAwait /\ serving = "on"
    /\ pc[a] = "idle"
    /\ pending' = Restrict(pending, DOMAIN pending \ Stale)
    /\ stamped' = stamped \ Stale
    /\ future' = [b \in Asks |-> IF b \in Stale /\ future[b] = NoReply
                                 THEN Cancelled ELSE future[b]]
    /\ pc' = [pc EXCEPT ![a] = IF Cardinality(DOMAIN pending') >= MaxPending THEN "refused"
                               ELSE "sending"]
    /\ queue' = Pruned
    /\ dropped' = dropped \cup Expired
    /\ UNCHANGED <<chat, loop, serving, msg, age, handed>>

\* Telegram takes the question: once more if the answer to the first request
\* was lost and send_message tries again.
Post(a) ==
    /\ pc[a] = "sending"
    /\ Len(posted) < MaxMessages
    /\ posted' = Append(posted, a)
    /\ UNCHANGED <<replies, loop, serving, asking, buffer>>

CopiesOf(a) == {m \in DOMAIN posted : posted[m] = a}

\* The turn of the next ask: how many have been inserted before.
Turn == Cardinality({b \in Asks : msg[b] # NoMessage})

\* send_message returns; the future is created and awaited.
Wait(a) ==
    /\ AtAwait
    /\ pc[a] = "sending" /\ CopiesOf(a) # {}
    /\ pc' = [pc EXCEPT ![a] = "waiting"]
    /\ msg' = [msg EXCEPT ![a] = Max(CopiesOf(a))]
    /\ pending' = [b \in DOMAIN pending \cup {a} |-> IF b = a THEN Turn ELSE pending[b]]
    /\ stamped' = stamped \cup {a}
    /\ UNCHANGED <<chat, loop, serving, age, future, buffer>>

SendFails(a) ==
    /\ AtAwait
    /\ pc[a] = "sending"
    /\ pc' = [pc EXCEPT ![a] = "failed"]
    /\ UNCHANGED <<chat, loop, serving, msg, pending, stamped, age, future, buffer>>

\* telegram_ask returns, or is cancelled, and cleans up after itself.
End(a, outcome) ==
    /\ AtAwait
    /\ pc[a] = "waiting"
    /\ pc' = [pc EXCEPT ![a] = outcome]
    /\ pending' = Restrict(pending, DOMAIN pending \ {a})
    /\ stamped' = stamped \ {a}
    /\ age' = [age EXCEPT ![a] = 0]
    /\ UNCHANGED <<chat, loop, serving, msg, future, queue, handed>>

Answered(a) ==
    /\ future[a] \in Replies
    /\ End(a, "answered")
    /\ UNCHANGED dropped

\* The future was cancelled: so is the call.
CutShort(a) ==
    /\ future[a] = Cancelled
    /\ End(a, "cancelled")
    /\ UNCHANGED dropped

Due(a) == pc[a] = "waiting" /\ age[a] >= Timeout[a]

\* Mutant: the future is awaited without wait_for.
TimesOutNever(a) ==
    /\ Due(a) /\ future[a] = Cancelled
    /\ End(a, "timeout")
    /\ UNCHANGED dropped

TimesOut(a) ==
    /\ Due(a) /\ future[a] = NoReply
    /\ End(a, "timeout")
    /\ UNCHANGED dropped

\* The time is up when the future has its result and the ask has not run yet:
\* wait_for may still raise TimeoutError (it does from Python 3.12 on).
TimesOutAnswered(a) ==
    /\ Due(a) /\ future[a] \in Replies
    /\ End(a, "timeout")
    /\ dropped' = dropped \cup {future[a]}

-----------------------------------------------------------------------------
(* The polling loop *)

\* get_updates returns.
Fetch ==
    /\ serving = "on"
    /\ handling = NoReply /\ updates = <<>> /\ arrived # <<>>
    /\ updates' = arrived
    /\ arrived' = <<>>
    /\ UNCHANGED <<chat, handling, target, serving, asking, buffer>>

\* Mutant: the result is set without looking whether the future is done.
DeliverAgain(r, m) ==
    IF \E a \in DOMAIN pending : msg[a] = m
    THEN LET a == CHOOSE b \in DOMAIN pending : msg[b] = m
         IN /\ future' = [future EXCEPT ![a] = r]
            /\ stamped' = stamped \ {a}
            /\ UNCHANGED buffer
    ELSE Enqueue(r) /\ UNCHANGED <<future, stamped>>

\* Resolve the future of message m with reply r, or queue r.
Deliver(r, m) ==
    IF \E a \in DOMAIN pending : msg[a] = m /\ future[a] = NoReply
    THEN LET a == CHOOSE b \in DOMAIN pending : msg[b] = m
         IN /\ future' = [future EXCEPT ![a] = r]
            /\ stamped' = stamped \ {a}
            /\ UNCHANGED buffer
    ELSE Enqueue(r) /\ UNCHANGED <<future, stamped>>

Drop(r) ==
    /\ dropped' = dropped \cup {r}
    /\ UNCHANGED <<queue, handed, future, stamped>>

\* The first key of pending_replies.
First == CHOOSE a \in DOMAIN pending : \A b \in DOMAIN pending : pending[a] <= pending[b]

\* Mutant: a reply to a message nobody waits for goes to the first question too.
AddresseeFirst(r) ==
    LET to == replies[r].to IN
    IF \E a \in DOMAIN pending : msg[a] = to THEN to
    ELSE IF DOMAIN pending # {} THEN msg[First] ELSE to

\* The message a reply is taken to answer: a plain message answers the first
\* pending question.
Addressee(r) ==
    LET to == replies[r].to IN
    IF to # NoMessage THEN to
    ELSE IF DOMAIN pending # {} THEN msg[First] ELSE NoMessage

\* _process_update, up to its first await.
Take ==
    /\ serving = "on"
    /\ handling = NoReply /\ updates # <<>>
    /\ updates' = Tail(updates)
    /\ LET r == Head(updates)
           kind == replies[r].kind
           m == Addressee(r)
       IN \/ /\ kind = "button"
             /\ handling' = r
             /\ UNCHANGED <<target, future, stamped, buffer>>
          \/ /\ kind # "button" /\ (m = NoMessage \/ kind = "other")
             /\ Drop(r)
             /\ UNCHANGED <<handling, target>>
          \/ /\ kind = "voice" /\ m # NoMessage
             /\ handling' = r /\ target' = m
             /\ UNCHANGED <<future, stamped, buffer>>
          \/ /\ kind = "text" /\ m # NoMessage
             /\ Deliver(r, m)
             /\ UNCHANGED <<handling, target>>
    /\ UNCHANGED <<chat, arrived, serving, pc, msg, pending, age>>

\* The button is acknowledged, or the voice message transcribed (or not).
Resume ==
    /\ serving = "on"
    /\ handling # NoReply
    /\ Deliver(handling, IF target # NoMessage THEN target ELSE Addressee(handling))
    /\ handling' = NoReply /\ target' = NoMessage
    /\ UNCHANGED <<chat, arrived, updates, serving, pc, msg, pending, age>>

\* An unexpected exception: the rest of the batch is gone.
Raise ==
    /\ serving = "on"
    /\ handling # NoReply
    /\ dropped' = dropped \cup ToSet(updates) \cup {handling}
    /\ updates' = <<>>
    /\ handling' = NoReply /\ target' = NoMessage
    /\ UNCHANGED <<chat, arrived, serving, asking, queue, handed>>

-----------------------------------------------------------------------------
(* The server shuts down *)

StopLoop ==
    /\ serving = "on" /\ AtAwait
    /\ serving' = "stopped"
    /\ dropped' = dropped \cup ToSet(updates) \cup ({handling} \ {NoReply})
    /\ updates' = <<>>
    /\ handling' = NoReply /\ target' = NoMessage
    /\ UNCHANGED <<chat, arrived, asking, queue, handed>>

Close ==
    /\ serving = "stopped"
    /\ serving' = "closed"
    /\ future' = [a \in Asks |-> IF a \in DOMAIN pending /\ future[a] = NoReply
                                 THEN Cancelled ELSE future[a]]
    /\ pending' = Restrict(pending, {}) /\ stamped' = {}
    /\ queue' = <<>>
    /\ dropped' = dropped \cup Queued(queue)
    /\ UNCHANGED <<chat, loop, pc, msg, age, handed>>

-----------------------------------------------------------------------------
Older(n, cap) == IF n < cap THEN n + 1 ELSE n

\* The timers of the event loop fire within the tick they are due in.
Tick ==
    /\ \A a \in Asks : ~Due(a)
    /\ age' = [a \in Asks |-> IF pc[a] = "waiting" THEN Older(age[a], Oldest) ELSE age[a]]
    /\ queue' = [i \in DOMAIN queue |->
                   [queue[i] EXCEPT !.age = Older(@, QueueTTL + 1)]]
    /\ UNCHANGED <<chat, loop, serving, pc, msg, pending, stamped, future, handed, dropped>>

Sending(a) == Wait(a) \/ SendFails(a)
Ending(a) == Answered(a) \/ CutShort(a) \/ TimesOut(a) \/ TimesOutAnswered(a)

Next ==
    \/ \E m \in {NoMessage} \cup DOMAIN posted, kind \in Kinds : UserReplies(m, kind)
    \/ Notify \/ CheckReplies \/ PeekReplies
    \/ \E a \in Asks : Ask(a) \/ Post(a) \/ Sending(a) \/ Ending(a)
    \/ Fetch \/ Take \/ Resume \/ Raise
    \/ StopLoop \/ Close
    \/ Tick

Spec == Init /\ [][Next]_vars

\* Requests are answered or given up, the event loop runs what is ready, and
\* time passes.
FairSpec ==
    /\ Spec
    /\ \A a \in Asks : WF_vars(Sending(a)) /\ WF_vars(Ending(a))
    /\ WF_vars(Take) /\ WF_vars(Resume)
    /\ WF_vars(Tick)

-----------------------------------------------------------------------------
(* Properties *)

\* Every variable has its type, and the queue its size.
TypeOK ==
    /\ posted \in Seq(Asks \cup {Note}) /\ Len(posted) <= MaxMessages
    /\ replies \in Seq([to : Messages \cup {NoMessage}, kind : Kinds])
    /\ arrived \in Seq(Replies) /\ updates \in Seq(Replies)
    /\ handling \in Replies \cup {NoReply}
    /\ target \in Messages \cup {NoMessage}
    /\ serving \in {"on", "stopped", "closed"}
    /\ pc \in [Asks -> {"idle", "sending", "waiting", "refused", "failed",
                        "answered", "cancelled", "timeout"}]
    /\ msg \in [Asks -> Messages \cup {NoMessage}]
    /\ pending \in [DOMAIN pending -> Nat]
    /\ DOMAIN pending \subseteq Asks /\ stamped \subseteq Asks
    /\ age \in [Asks -> 0..Oldest]
    /\ future \in [Asks -> Replies \cup {NoReply, Cancelled}]
    /\ queue \in Seq([reply : Replies, age : 0..(QueueTTL + 1)])
    /\ Len(queue) <= QueueSize
    /\ handed \subseteq Replies /\ dropped \subseteq Replies

\* Where a reply is: on its way, with an ask that will return it or has
\* returned it, in the queue, handed out, or given up.
Homes(r) ==
    {<<"arrived", i>> : i \in {i \in DOMAIN arrived : arrived[i] = r}}
    \cup {<<"updates", i>> : i \in {i \in DOMAIN updates : updates[i] = r}}
    \cup {<<"handling", 0>> : i \in {handling} \cap {r}}
    \cup {<<"ask", a>> : a \in {a \in Asks : /\ future[a] = r
                                             /\ pc[a] \in {"waiting", "answered"}}}
    \cup {<<"queue", i>> : i \in {i \in DOMAIN queue : queue[i].reply = r}}
    \cup {<<"handed", 0>> : i \in handed \cap {r}}
    \cup {<<"dropped", 0>> : i \in dropped \cap {r}}

\* No reply of the user is lost silently or used twice, whatever arrives while
\* questions are sent, answered, timed out and cleaned up.
RepliesAccounted == \A r \in DOMAIN replies : Cardinality(Homes(r)) = 1

\* An ask returns a reply to its own question, or a plain message; not a reply
\* to something else.
AnswersItsQuestion ==
    \A a \in Asks :
        pc[a] = "answered" => replies[future[a]].to \in {NoMessage, msg[a]}

\* While the server runs, cleanup_stale_futures cancels no ask but those that
\* were allowed to wait longer than it does.
CutShortOnlyLong ==
    \A a \in Asks :
        serving # "closed" /\ future[a] = Cancelled => Timeout[a] > StaleAfter

\* telegram_ask "blocks the MCP call until the user replies, taps a button, or
\* the timeout expires": it is never cancelled while the server runs.
AskRunsItsTime == \A a \in Asks : pc[a] = "cancelled" => serving = "closed"

\* Every question ends.
AsksEnd == \A a \in Asks : (pc[a] # "idle") ~> (pc[a] \notin {"idle", "sending", "waiting"})
=============================================================================
