--------------------------- MODULE TelegramRouter ---------------------------
(***************************************************************************)
(* FileBasedRouter: server processes (sessions) of one user share a        *)
(* Telegram bot.  The holder of the flock poll.lock polls Telegram and     *)
(* fans the updates out to inbox files; the others read their inbox.  All  *)
(* they share is the coordinator directory.                                *)
(*                                                                         *)
(* One action is one system call of a session on that directory, or one    *)
(* exchange with Telegram, with the local computation around it.  Within a *)
(* session the polling loop, the tools and the heartbeat are tasks of one  *)
(* event loop: a task that is between two system calls of a synchronous    *)
(* function blocks the others, one that waits at an await does not.        *)
(*                                                                         *)
(* Updates are numbered by update_id: update u is chat[u].  A message that *)
(* the bot sent is numbered by its position in `sent'.  `delivered',       *)
(* `registered', `risked' and `unsaved' are history variables: no guard    *)
(* reads them; `lapses' counts for a bound.                                *)
(***************************************************************************)
EXTENDS Integers, Sequences, FiniteSets, SequencesExt

CONSTANTS
    Sessions,     \* server processes; each has a fresh session id
    None,         \* no session
    Batch,        \* the most updates one getUpdates answers (100)
    MaxTable,     \* MAX_ROUTING_TABLE_ENTRIES
    MaxUpdates,   \* bound: length of the chat
    MaxSends,     \* bound: messages sent by all sessions
    MaxSeats,     \* bound: session files ever created anew
    Strangers,    \* whether other chats write to the bot
    Senders,      \* sessions whose tools send messages
    Stopping,     \* sessions that may shut down
    Crashing,     \* sessions that may be killed
    Stalling,     \* sessions that may miss heartbeats for STALE_SESSION_TTL
    Failing,      \* sessions whose calls may fail
    MaxLapses     \* bound: failed writes of offset.json

ASSUME BoundsAssumption ==
    /\ Batch \in Nat \ {0} /\ MaxTable \in Nat
    /\ MaxUpdates \in Nat /\ MaxSends \in Nat /\ MaxSeats \in Nat /\ MaxLapses \in Nat
    /\ Strangers \in BOOLEAN
ASSUME SessionsAssumption ==
    /\ None \notin Sessions
    /\ Senders \subseteq Sessions /\ Stopping \subseteq Sessions
    /\ Crashing \subseteq Sessions /\ Stalling \subseteq Sessions
    /\ Failing \subseteq Sessions

Updates == 1..MaxUpdates
Messages == 1..MaxSends
NoReply == 0
Offsets == 0..(MaxUpdates + 1)
Seats == 0..MaxSeats
Unseated == 0
Tables == Seq([msg : Messages, session : Sessions])

VARIABLES
    \* the Telegram side
    chat,         \* updates: from the authorized chat?, the message replied to
    confirmed,    \* getUpdates no longer returns updates up to this one
    sent,         \* sent[m]: the session that sent message m
    \* the coordinator directory
    seat,         \* seat[s]: rank of registered_at in s.json, or Unseated
    seats,        \* how many registered_at values were handed out
    stale,        \* sessions whose last_heartbeat is past STALE_SESSION_TTL
    inbox,        \* inbox[s]: s.jsonl; <<>> when there is no file
    offset,       \* offset.json; 0 when there is no file
    table,        \* routing-table.json, in insertion order
    lock,         \* the session that holds poll.lock, or None
    \* the sessions
    pc,           \* lifespan and polling loop
    task,         \* the tool or heartbeat task
    client,       \* TelegramClient._update_offset
    sweep,        \* session files the start-up sweep has not visited
    doomed,       \* the session file the sweep is about to remove, or None
    orphan,       \* the session whose inbox it removes after that, or None
    batch,        \* fetched updates not routed yet; they come in ascending order
    mine,         \* updates get_updates returned and not processed yet
    copy,         \* the routing table as last read
    roster,       \* active_sessions of the batch
    primary,      \* primary_session of the batch
    msg,          \* the message a tool is registering
    kept,         \* registered_at of the session file a heartbeat read
    \* history
    delivered,    \* delivered[s]: updates processed by s, oldest first
    registered,   \* messages in the order their register_message returned
    risked,       \* messages registered while another session was rewriting
    unsaved,      \* updates routed although offset.json could not be written
    lapses        \* how often it could not

telegram == <<chat, confirmed, sent>>
registry == <<seat, seats, stale>>
files == <<inbox, offset, table, lock>>
startup == <<sweep, doomed, orphan>>
polling == <<client, batch, mine, roster, primary>>
tools == <<task, msg, kept>>
history == <<delivered, registered, risked, unsaved, lapses>>
vars == <<telegram, registry, files, pc, startup, polling, tools, copy, history>>

-----------------------------------------------------------------------------
Alive(s) == pc[s] \notin {"off", "gone"}
Running(s) == pc[s] \in {"loop", "fetched", "saved", "tabled", "rostered",
                         "route", "reader", "unlink", "process"}

\* The polling task of s waits at an await, and no other task of s is inside
\* a synchronous function.
AtAwait(s) == pc[s] \in {"loop", "process"} /\ task[s] \in {"none", "sent"}

Goto(s, label) == pc' = [pc EXCEPT ![s] = label]

\* _atomic_write_json: an OSError is logged and the old content stays.
Written(s, old, new) == {new} \cup (IF s \in Failing THEN {old} ELSE {})

\* The values of a routing table for message m: none or one session.
Asker(t, m) == {t[i].session : i \in {j \in DOMAIN t : t[j].msg = m}}

Larger(x, y) == IF x > y THEN x ELSE y
Smaller(x, y) == IF x < y THEN x ELSE y

\* Mutant: the newest entries are evicted instead of the oldest.
NewestEvicted(t) == SubSeq(t, 1, Smaller(MaxTable, Len(t)))

\* The newest MaxTable entries.
Newest(t) == IF Len(t) > MaxTable THEN SubSeq(t, Len(t) - MaxTable + 1, Len(t))
                                  ELSE t

\* The entries of the other sessions.
Without(t, s) ==
    LET rest[n \in 0..Len(t)] ==
            IF n = 0 THEN <<>>
            ELSE IF t[n].session = s THEN rest[n - 1]
                 ELSE Append(rest[n - 1], t[n])
    IN  rest[Len(t)]

SeatedSessions == {s \in Sessions : seat[s] # Unseated}

-----------------------------------------------------------------------------
Init ==
    /\ chat = <<>> /\ confirmed = 0 /\ sent = <<>>
    /\ seat = [s \in Sessions |-> Unseated] /\ seats = 0 /\ stale = {}
    /\ inbox = [s \in Sessions |-> <<>>]
    /\ offset = 0 /\ table = <<>> /\ lock = None
    /\ pc = [s \in Sessions |-> "off"]
    /\ task = [s \in Sessions |-> "none"]
    /\ client = [s \in Sessions |-> 0]
    /\ sweep = [s \in Sessions |-> {}]
    /\ doomed = [s \in Sessions |-> None]
    /\ orphan = [s \in Sessions |-> None]
    /\ batch = [s \in Sessions |-> {}]
    /\ mine = [s \in Sessions |-> <<>>]
    /\ copy = [s \in Sessions |-> <<>>]
    /\ roster = [s \in Sessions |-> {}]
    /\ primary = [s \in Sessions |-> None]
    /\ msg = [s \in Sessions |-> 0]
    /\ kept = [s \in Sessions |-> Unseated]
    /\ delivered = [s \in Sessions |-> <<>>]
    /\ registered = <<>> /\ risked = {} /\ unsaved = {} /\ lapses = 0

-----------------------------------------------------------------------------
(* The chat *)

\* The user answers message m, or writes without answering one (NoReply).
\* `due' records that m was registered when the user answered.
UserWrites(m) ==
    /\ Len(chat) < MaxUpdates
    /\ m = NoReply \/ m \in DOMAIN sent
    /\ chat' = Append(chat, [auth |-> TRUE, re |-> m, due |-> m \in ToSet(registered)])
    /\ UNCHANGED <<confirmed, sent, registry, files, pc, startup, polling,
                   tools, copy, history>>

StrangerWrites ==
    /\ Strangers
    /\ Len(chat) < MaxUpdates
    /\ chat' = Append(chat, [auth |-> FALSE, re |-> NoReply, due |-> FALSE])
    /\ UNCHANGED <<confirmed, sent, registry, files, pc, startup, polling,
                   tools, copy, history>>

-----------------------------------------------------------------------------
(* Start-up: register_session, count_active_sessions, start *)

Register(s) ==
    /\ pc[s] = "off"
    /\ seats < MaxSeats
    /\ seat' \in Written(s, seat, [seat EXCEPT ![s] = seats + 1])
    /\ seats' = seats + 1
    /\ sweep' = [sweep EXCEPT ![s] = {x \in Sessions : seat'[x] # Unseated}]
    /\ Goto(s, "count")
    /\ UNCHANGED <<stale, telegram, files, doomed, orphan, polling, tools, copy,
                   history>>

Outdated(x) == ~Alive(x) \/ x \in stale

\* The sweep reads one session file.  It will remove it if its process is dead
\* or its heartbeat too old, and _cleanup_stale_sessions its inbox too.  A file
\* that vanished since it was listed raises: then it removes that path as well.
SweepVisit(s, x) ==
    LET vanished == seat[x] = Unseated
    IN  /\ pc[s] \in {"count", "clean"}
        /\ doomed[s] = None /\ orphan[s] = None
        /\ x \in sweep[s]
        /\ sweep' = [sweep EXCEPT ![s] = @ \ {x}]
        /\ doomed' = [doomed EXCEPT
                        ![s] = IF vanished \/ Outdated(x) THEN x ELSE None]
        /\ orphan' = [orphan EXCEPT
                        ![s] = IF ~vanished /\ Outdated(x) /\ pc[s] = "clean"
                               THEN x ELSE None]
        /\ UNCHANGED <<telegram, registry, files, pc, polling, tools, copy, history>>

RemoveSeat(s) ==
    /\ doomed[s] # None
    /\ seat' = [seat EXCEPT ![doomed[s]] = Unseated]
    /\ doomed' = [doomed EXCEPT ![s] = None]
    /\ UNCHANGED <<seats, stale, telegram, files, pc, sweep, orphan, polling,
                   tools, copy, history>>

RemoveInbox(s) ==
    /\ doomed[s] = None /\ orphan[s] # None
    /\ inbox' = [inbox EXCEPT ![orphan[s]] = <<>>]
    /\ orphan' = [orphan EXCEPT ![s] = None]
    /\ UNCHANGED <<telegram, registry, offset, table, lock, pc, sweep, doomed,
                   polling, tools, copy, history>>

Swept(s) == sweep[s] = {} /\ doomed[s] = None /\ orphan[s] = None

\* start lists the session files again.
Start(s) ==
    /\ pc[s] = "count"
    /\ Swept(s)
    /\ sweep' = [sweep EXCEPT ![s] = SeatedSessions]
    /\ Goto(s, "clean")
    /\ UNCHANGED <<telegram, registry, files, doomed, orphan, polling, tools, copy,
                   history>>

\* _try_acquire_lock in start; when another session holds the lock this one
\* is a reader.
Started(s) ==
    /\ pc[s] = "clean"
    /\ Swept(s)
    /\ lock' = IF lock = None THEN s ELSE lock
    /\ Goto(s, "loop")
    /\ UNCHANGED <<telegram, registry, inbox, offset, table, startup, polling,
                   tools, copy, history>>

-----------------------------------------------------------------------------
(* The polling loop: get_updates *)

\* A reader finds the lock free.
Promote(s) ==
    /\ pc[s] = "loop" /\ AtAwait(s)
    /\ lock = None
    /\ lock' = s
    /\ UNCHANGED <<telegram, registry, inbox, offset, table, pc, startup,
                   polling, tools, copy, history>>

\* Mutant: a promoted reader goes on with its own offset.
AskedOwn(s) == client[s]

\* Mutant: the offset is that of the last update seen.
AskedLast(s) == (IF offset > 0 THEN offset ELSE client[s]) - 1

\* The offset of the next getUpdates: offset.json overrides the client's.
Asked(s) == IF offset > 0 THEN offset ELSE client[s]

\* One getUpdates.  Telegram forgets the updates below the offset and answers
\* at most Batch of the others.  The client moves its offset past all of them
\* and keeps those of the authorized chat; if none is left the batch is empty
\* and offset.json is not written.
Poll(s) ==
    LET last == Smaller(confirmed' + Batch, Len(chat))
        got == (confirmed' + 1)..last
        wanted == {u \in got : chat[u].auth}
    IN  /\ pc[s] = "loop" /\ AtAwait(s)
        /\ lock = s
        /\ confirmed' = Larger(confirmed, Asked(s) - 1)
        /\ client' = [client EXCEPT ![s] = IF got = {} THEN Asked(s)
                                                       ELSE last + 1]
        /\ batch' = [batch EXCEPT ![s] = wanted]
        /\ Goto(s, IF wanted = {} THEN "loop" ELSE "fetched")
        /\ UNCHANGED <<chat, sent, registry, files, startup, mine, roster,
                       primary, tools, copy, history>>

\* The answer is an error, or is lost on its way.
PollFails(s) ==
    /\ s \in Failing
    /\ pc[s] = "loop" /\ AtAwait(s)
    /\ lock = s
    /\ confirmed' \in {confirmed, Larger(confirmed, Asked(s) - 1)}
    /\ client' = [client EXCEPT ![s] = Asked(s)]
    /\ UNCHANGED <<chat, sent, registry, files, pc, startup, batch, mine,
                   roster, primary, tools, copy, history>>

\* A failed write leaves offset.json as it is; the batch is routed all the same.
SaveOffset(s) ==
    /\ pc[s] = "fetched"
    /\ \/ offset' = client[s] /\ UNCHANGED <<unsaved, lapses>>
       \/ /\ s \in Failing
          /\ lapses < MaxLapses
          /\ unsaved' = unsaved \cup batch[s]
          /\ lapses' = lapses + 1
          /\ UNCHANGED offset
    /\ Goto(s, "saved")
    /\ UNCHANGED <<telegram, registry, inbox, table, lock, startup, polling,
                   tools, copy, delivered, registered, risked>>

ReadTable(s) ==
    /\ pc[s] = "saved"
    /\ copy' = [copy EXCEPT ![s] = table]
    /\ Goto(s, "tabled")
    /\ UNCHANGED <<telegram, registry, files, startup, polling, tools, history>>

\* _get_active_session_ids: whoever has a session file, alive or not.
ReadRoster(s) ==
    /\ pc[s] = "tabled"
    /\ roster' = [roster EXCEPT ![s] = SeatedSessions]
    /\ Goto(s, "rostered")
    /\ UNCHANGED <<telegram, registry, files, startup, client, batch, mine,
                   primary, tools, copy, history>>

\* _get_primary_session: the oldest session whose file can still be read.
PickPrimary(s) ==
    LET readable == {x \in roster[s] : seat[x] # Unseated}
        oldest == {x \in readable : \A y \in readable : seat[x] <= seat[y]}
    IN  /\ pc[s] = "rostered"
        /\ primary' = [primary EXCEPT
                         ![s] = IF oldest = {} THEN None
                                               ELSE CHOOSE x \in oldest : TRUE]
        /\ Goto(s, "route")
        /\ UNCHANGED <<telegram, registry, files, startup, client, batch, mine,
                       roster, tools, copy, history>>

\* _route_update: the session that sent the message replied to, if its file
\* is there, and the primary session otherwise.
Target(s, u) ==
    LET askers == Asker(copy[s], chat[u].re) \cap roster[s]
    IN  IF askers # {} THEN CHOOSE x \in askers : TRUE ELSE primary[s]

\* The next update of the batch goes to the session itself, to an inbox, or
\* nowhere; a failed append is logged and the update dropped.
Route(s) ==
    /\ pc[s] = "route"
    /\ \E u \in batch[s] :
         /\ \A v \in batch[s] : u <= v
         /\ batch' = [batch EXCEPT ![s] = @ \ {u}]
         /\ LET t == Target(s, u)
            IN  \/ /\ t = s
                   /\ mine' = [mine EXCEPT ![s] = Append(@, u)]
                   /\ UNCHANGED inbox
                \/ /\ t \notin {s, None}
                   /\ inbox' \in Written(s, inbox, [inbox EXCEPT ![t] = Append(@, u)])
                   /\ UNCHANGED mine
                \/ /\ t = None
                   /\ UNCHANGED <<mine, inbox>>
    /\ UNCHANGED <<telegram, registry, offset, table, lock, pc, startup, client,
                   roster, primary, tools, copy, history>>

\* _poll_and_route returns: its locals are gone.
Routed(s) ==
    /\ pc[s] = "route"
    /\ batch[s] = {}
    /\ copy' = [copy EXCEPT ![s] = <<>>]
    /\ roster' = [roster EXCEPT ![s] = {}]
    /\ primary' = [primary EXCEPT ![s] = None]
    /\ Goto(s, IF mine[s] = <<>> THEN "loop" ELSE "process")
    /\ UNCHANGED <<telegram, registry, files, startup, client, batch, mine,
                   tools, history>>

\* The lock is taken: this session reads as a reader ...
Denied(s) ==
    /\ pc[s] = "loop" /\ AtAwait(s)
    /\ lock \notin {s, None}
    /\ Goto(s, "reader")
    /\ UNCHANGED <<telegram, registry, files, startup, polling, tools, copy,
                   history>>

\* ... and sleeps when its inbox has no file.  Otherwise _read_inbox reads
\* the file ...
NoInbox(s) ==
    /\ pc[s] = "reader"
    /\ inbox[s] = <<>>
    /\ Goto(s, "loop")
    /\ UNCHANGED <<telegram, registry, files, startup, polling, tools, copy,
                   history>>

ReadInbox(s) ==
    /\ pc[s] = "reader"
    /\ inbox[s] # <<>>
    /\ mine' = [mine EXCEPT ![s] = inbox[s]]
    /\ Goto(s, "unlink")
    /\ UNCHANGED <<telegram, registry, files, startup, client, batch, roster,
                   primary, tools, copy, history>>

\* ... then unlinks it.
UnlinkInbox(s) ==
    /\ pc[s] = "unlink"
    /\ inbox' = [inbox EXCEPT ![s] = <<>>]
    /\ Goto(s, "process")
    /\ UNCHANGED <<telegram, registry, offset, table, lock, startup, polling,
                   tools, copy, history>>

\* unlink fails: _read_inbox returns nothing and the file stays.
UnlinkInboxFails(s) ==
    /\ pc[s] = "unlink"
    /\ s \in Failing
    /\ mine' = [mine EXCEPT ![s] = <<>>]
    /\ Goto(s, "loop")
    /\ UNCHANGED <<telegram, registry, files, startup, client, batch, roster,
                   primary, tools, copy, history>>

\* _process_update takes the next update.
Process(s) ==
    /\ pc[s] = "process" /\ AtAwait(s)
    /\ delivered' = [delivered EXCEPT ![s] = Append(@, Head(mine[s]))]
    /\ mine' = [mine EXCEPT ![s] = Tail(@)]
    /\ Goto(s, IF Len(mine[s]) = 1 THEN "loop" ELSE "process")
    /\ UNCHANGED <<telegram, registry, files, startup, client, batch, roster,
                   primary, tools, copy, registered, risked, unsaved, lapses>>

\* It raises: the loop drops the rest of what get_updates returned.
ProcessFails(s) ==
    /\ s \in Failing
    /\ pc[s] = "process" /\ AtAwait(s)
    /\ delivered' = [delivered EXCEPT ![s] = Append(@, Head(mine[s]))]
    /\ mine' = [mine EXCEPT ![s] = <<>>]
    /\ Goto(s, "loop")
    /\ UNCHANGED <<telegram, registry, files, startup, client, batch, roster,
                   primary, tools, copy, registered, risked, unsaved, lapses>>

-----------------------------------------------------------------------------
(* The tools: send a message, then register_message *)

Send(s) ==
    /\ s \in Senders
    /\ AtAwait(s) /\ task[s] = "none"
    /\ Len(sent) < MaxSends
    /\ sent' = Append(sent, s)
    /\ msg' = [msg EXCEPT ![s] = Len(sent) + 1]
    /\ task' = [task EXCEPT ![s] = "sent"]
    /\ UNCHANGED <<chat, confirmed, registry, files, pc, startup, polling, kept,
                   copy, history>>

RegisterRead(s) ==
    /\ AtAwait(s) /\ task[s] = "sent"
    /\ copy' = [copy EXCEPT ![s] = table]
    /\ task' = [task EXCEPT ![s] = "register"]
    /\ UNCHANGED <<telegram, registry, files, pc, startup, polling, msg, kept,
                   history>>

\* x has read the routing table and will write it back: what is written in
\* between is lost.
Rewriting(x) == task[x] = "register" \/ pc[x] = "rewrite"

RegisterWrite(s) ==
    /\ task[s] = "register"
    /\ table' \in Written(s, table,
                          Newest(Append(copy[s], [msg |-> msg[s], session |-> s])))
    /\ registered' = Append(registered, msg[s])
    /\ risked' = IF \E x \in Sessions \ {s} : Rewriting(x) THEN risked \cup {msg[s]}
                                                          ELSE risked
    /\ copy' = [copy EXCEPT ![s] = <<>>]
    /\ msg' = [msg EXCEPT ![s] = 0]
    /\ task' = [task EXCEPT ![s] = "none"]
    /\ UNCHANGED <<telegram, registry, inbox, offset, lock, pc, startup,
                   polling, kept, delivered, unsaved, lapses>>

-----------------------------------------------------------------------------
(* The heartbeat: _update_heartbeat rewrites the session file if it exists *)

\* The last heartbeat of a running session gets too old (the machine slept).
GoStale(s) ==
    /\ s \in Stalling
    /\ AtAwait(s)
    /\ s \notin stale
    /\ stale' = stale \cup {s}
    /\ UNCHANGED <<seat, seats, telegram, files, pc, startup, polling, tools,
                   copy, history>>

\* The file exists.
BeatCheck(s) ==
    /\ AtAwait(s) /\ task[s] = "none"
    /\ seat[s] # Unseated
    /\ task' = [task EXCEPT ![s] = "beat"]
    /\ UNCHANGED <<telegram, registry, files, pc, startup, polling, msg, kept,
                   copy, history>>

BeatRead(s) ==
    /\ task[s] = "beat"
    /\ seat[s] # Unseated
    /\ kept' = [kept EXCEPT ![s] = seat[s]]
    /\ task' = [task EXCEPT ![s] = "beating"]
    /\ UNCHANGED <<telegram, registry, files, pc, startup, polling, msg, copy,
                   history>>

\* The file vanished after the check: it is created anew.
BeatRecreate(s) ==
    /\ task[s] = "beat"
    /\ seat[s] = Unseated
    /\ seats < MaxSeats
    /\ seat' = [seat EXCEPT ![s] = seats + 1]
    /\ seats' = seats + 1
    /\ stale' = stale \ {s}
    /\ task' = [task EXCEPT ![s] = "none"]
    /\ UNCHANGED <<telegram, files, pc, startup, polling, msg, kept, copy, history>>

\* The rename puts the file back even if it was removed since it was read.
BeatWrite(s) ==
    /\ task[s] = "beating"
    /\ seat' = [seat EXCEPT ![s] = kept[s]]
    /\ stale' = stale \ {s}
    /\ kept' = [kept EXCEPT ![s] = Unseated]
    /\ task' = [task EXCEPT ![s] = "none"]
    /\ UNCHANGED <<seats, telegram, files, pc, startup, polling, msg, copy, history>>

-----------------------------------------------------------------------------
(* Shutdown: the lifespan's finally block, stop, unregister_session *)

\* Mutant: a heartbeat in progress is not awaited.
StopKeepsHeartbeat(s) ==
    /\ s \in Stopping
    /\ pc[s] \in {"loop", "process"}
    /\ mine' = [mine EXCEPT ![s] = <<>>]
    /\ Goto(s, "release")
    /\ UNCHANGED <<telegram, registry, files, startup, client, batch, roster,
                   primary, tools, copy, history>>

\* The polling task and the heartbeat are cancelled at an await; what they
\* had not processed is dropped, and so is a tool call in progress.
Stop(s) ==
    /\ s \in Stopping
    /\ AtAwait(s)
    /\ mine' = [mine EXCEPT ![s] = <<>>]
    /\ task' = [task EXCEPT ![s] = "none"]
    /\ msg' = [msg EXCEPT ![s] = 0]
    /\ Goto(s, "release")
    /\ UNCHANGED <<telegram, registry, files, startup, client, batch, roster,
                   primary, kept, copy, history>>

\* Mutant: the lock is freed whoever holds it.
StopReleaseAnyones(s) ==
    /\ pc[s] = "release"
    /\ lock' = None
    /\ Goto(s, "discard")
    /\ UNCHANGED <<telegram, registry, inbox, offset, table, startup, polling,
                   tools, copy, history>>

StopRelease(s) ==
    /\ pc[s] = "release"
    /\ lock' = IF lock = s THEN None ELSE lock
    /\ Goto(s, "discard")
    /\ UNCHANGED <<telegram, registry, inbox, offset, table, startup, polling,
                   tools, copy, history>>

StopDiscard(s) ==
    /\ pc[s] = "discard"
    /\ inbox' = [inbox EXCEPT ![s] = <<>>]
    /\ Goto(s, "forget")
    /\ UNCHANGED <<telegram, registry, offset, table, lock, startup, polling,
                   tools, copy, history>>

StopReadTable(s) ==
    /\ pc[s] = "forget"
    /\ copy' = [copy EXCEPT ![s] = table]
    /\ Goto(s, "rewrite")
    /\ UNCHANGED <<telegram, registry, files, startup, polling, tools, history>>

StopWriteTable(s) ==
    /\ pc[s] = "rewrite"
    /\ table' \in Written(s, table, Without(copy[s], s))
    /\ copy' = [copy EXCEPT ![s] = <<>>]
    /\ Goto(s, "unregister")
    /\ UNCHANGED <<telegram, registry, inbox, offset, lock, startup, polling,
                   tools, history>>

Unregister(s) ==
    /\ pc[s] = "unregister"
    /\ seat' = [seat EXCEPT ![s] = Unseated]
    /\ stale' = stale \ {s}
    /\ Goto(s, "gone")
    /\ UNCHANGED <<seats, telegram, files, startup, polling, tools, copy, history>>

\* The process is killed: the kernel drops its flock, its files stay.
Crash(s) ==
    /\ s \in Crashing
    /\ Alive(s)
    /\ lock' = IF lock = s THEN None ELSE lock
    /\ stale' = stale \ {s}
    /\ task' = [task EXCEPT ![s] = "none"]
    /\ sweep' = [sweep EXCEPT ![s] = {}]
    /\ doomed' = [doomed EXCEPT ![s] = None]
    /\ orphan' = [orphan EXCEPT ![s] = None]
    /\ batch' = [batch EXCEPT ![s] = {}]
    /\ mine' = [mine EXCEPT ![s] = <<>>]
    /\ copy' = [copy EXCEPT ![s] = <<>>]
    /\ roster' = [roster EXCEPT ![s] = {}]
    /\ primary' = [primary EXCEPT ![s] = None]
    /\ msg' = [msg EXCEPT ![s] = 0]
    /\ kept' = [kept EXCEPT ![s] = Unseated]
    /\ Goto(s, "gone")
    /\ UNCHANGED <<telegram, seat, seats, inbox, offset, table, client, history>>

-----------------------------------------------------------------------------
Launch(s) ==
    \/ \E x \in Sessions : SweepVisit(s, x)
    \/ RemoveSeat(s) \/ RemoveInbox(s) \/ Start(s) \/ Started(s)

PollingLoop(s) ==
    \/ Promote(s) \/ Poll(s) \/ PollFails(s) \/ SaveOffset(s) \/ ReadTable(s)
    \/ ReadRoster(s) \/ PickPrimary(s) \/ Route(s) \/ Routed(s)
    \/ Denied(s) \/ NoInbox(s) \/ ReadInbox(s) \/ UnlinkInbox(s) \/ UnlinkInboxFails(s)
    \/ Process(s) \/ ProcessFails(s)

RegisterMessage(s) == RegisterRead(s) \/ RegisterWrite(s)

Heartbeat(s) == BeatCheck(s) \/ BeatRead(s) \/ BeatRecreate(s) \/ BeatWrite(s)

Shutdown(s) ==
    \/ StopRelease(s) \/ StopDiscard(s) \/ StopReadTable(s)
    \/ StopWriteTable(s) \/ Unregister(s)

Next ==
    \/ \E m \in {NoReply} \cup Messages : UserWrites(m)
    \/ StrangerWrites
    \/ \E s \in Sessions :
         \/ Register(s) \/ Launch(s) \/ PollingLoop(s)
         \/ Send(s) \/ RegisterMessage(s)
         \/ GoStale(s) \/ Heartbeat(s)
         \/ Stop(s) \/ Shutdown(s) \/ Crash(s)

Spec == Init /\ [][Next]_vars

\* The event loop of a session serves its tasks in turn.  A task that is ready
\* is not ready while another one is inside a synchronous function, hence the
\* strong fairness of the two that start at an await.
FairSpec ==
    /\ Spec
    /\ \A s \in Sessions :
         /\ WF_vars(Launch(s))
         /\ SF_vars(PollingLoop(s))
         /\ SF_vars(RegisterMessage(s))
         /\ WF_vars(Heartbeat(s))
         /\ WF_vars(Shutdown(s))

-----------------------------------------------------------------------------
(* Properties *)

Labels == {"off", "count", "clean", "loop", "fetched", "saved", "tabled",
           "rostered", "route", "reader", "unlink", "process", "release",
           "discard", "forget", "rewrite", "unregister", "gone"}

\* Every variable has its type.
TypeOK ==
    /\ chat \in Seq([auth : BOOLEAN, re : Messages \cup {NoReply}, due : BOOLEAN])
    /\ confirmed \in 0..MaxUpdates
    /\ sent \in Seq(Senders)
    /\ Len(chat) <= MaxUpdates /\ Len(sent) <= MaxSends
    /\ seat \in [Sessions -> Seats] /\ seats \in Seats /\ stale \subseteq Stalling
    /\ inbox \in [Sessions -> Seq(Updates)]
    /\ offset \in Offsets
    /\ table \in Tables
    /\ lock \in Sessions \cup {None}
    /\ pc \in [Sessions -> Labels]
    /\ task \in [Sessions -> {"none", "sent", "register", "beat", "beating"}]
    /\ client \in [Sessions -> Offsets]
    /\ sweep \in [Sessions -> SUBSET Sessions]
    /\ doomed \in [Sessions -> Sessions \cup {None}]
    /\ orphan \in [Sessions -> Sessions \cup {None}]
    /\ batch \in [Sessions -> SUBSET Updates]
    /\ mine \in [Sessions -> Seq(Updates)]
    /\ copy \in [Sessions -> Tables]
    /\ roster \in [Sessions -> SUBSET Sessions]
    /\ primary \in [Sessions -> Sessions \cup {None}]
    /\ msg \in [Sessions -> Messages \cup {0}]
    /\ kept \in [Sessions -> Seats]
    /\ delivered \in [Sessions -> Seq(Updates)]
    /\ registered \in Seq(Messages) /\ risked \subseteq Messages
    /\ unsaved \subseteq Updates /\ lapses \in 0..MaxLapses

Routing(s) == pc[s] \in {"fetched", "saved", "tabled", "rostered", "route"}

\* Leader election: whoever routes a batch, and writes offset.json, holds
\* poll.lock, and poll.lock is never left with a session that is gone or that
\* no longer polls, however sessions start, stop and die.
OnePoller ==
    /\ \A s \in Sessions : Routing(s) => lock = s
    /\ lock # None => Running(lock) \/ pc[lock] = "release"

\* A running session that sends its heartbeats in time keeps its session file,
\* whatever sweeps the other sessions do when they start.
RunningSeated ==
    \A s \in Sessions \ (Stalling \cup Failing) : Running(s) => seat[s] # Unseated

\* A session that shut down cleanly has no session file: nobody rewrites the
\* file after unregister_session removed it.
NoGhostFile ==
    \A s \in Sessions \ Crashing : pc[s] = "gone" => seat[s] = Unseated

\* Delivery: an update of the authorized chat is processed by at most one
\* session and at most once, and each session processes its updates in the
\* order of the chat, across elections, promotions, stops and crashes; the
\* exceptions are the updates routed while offset.json could not be written,
\* and no update becomes one after it was processed as a saved one.
Delivery == INSTANCE UpdateDelivery
              WITH posted <- [u \in DOMAIN chat |-> chat[u].auth],
                   repeatable <- unsaved
DeliveredOnceInOrder == Delivery!Spec

\* A reply to a message that had been registered before the user answered,
\* and that the table need not have evicted since, is not processed by
\* another session while the asker runs, keeps its session file and does not
\* fail to write the table (register_message, _route_update).  Exempt are
\* messages whose entry may be lost.
RepliesReach(Exempt) ==
    \A s \in Sessions : \A u \in ToSet(delivered[s]) :
        LET m == chat[u].re
        IN  /\ chat[u].due /\ m \notin Exempt
            /\ \E i \in DOMAIN registered :
                 registered[i] = m /\ Len(registered) - i < MaxTable
            /\ Running(sent[m]) /\ sent[m] \notin Stalling \cup Failing
            => sent[m] = s

\* Nothing is lost but what was registered while another session was between
\* reading and writing the table (register_message, stop).
RepliesReachAsker == RepliesReach(risked)

\* That nothing at all is lost is false of two sessions that register messages.
NoReplyStrays == RepliesReach({})

\* An inbox file of a running session is only emptied by that session, and it
\* holds everything that was in the file (_read_inbox).
InboxOnlyTaken ==
    [][\A s \in Sessions :
         Running(s) /\ inbox[s] # <<>> /\ inbox'[s] = <<>>
           => ToSet(inbox[s]) \subseteq ToSet(mine'[s])]_vars

\* Once a session polls, every update of the authorized chat is processed.
AuthorizedDelivered ==
    \A u \in Updates : \A s \in Sessions :
        (Running(s) /\ u \in DOMAIN chat /\ chat[u].auth)
          ~> (u \in UNION {ToSet(delivered[x]) : x \in Sessions})
=============================================================================
