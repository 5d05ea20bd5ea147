------------------------------ MODULE AppInbox ------------------------------
(***************************************************************************)
(* The message side of the virtual node: apps connect over TCP, name       *)
(* themselves with APP_START, are handed what they missed since their      *)
(* cursor, and pull live messages from an inbox of their own.  A pull      *)
(* moves the cursor, which a delayed task and the end of the connection    *)
(* write to the database.                                                  *)
(*                                                                         *)
(* A step is the effect of one database call and the code that runs after  *)
(* it up to the next await.  Messages are row ids; what a row holds is     *)
(* reduced to whether apps are shown it.                                   *)
(***************************************************************************)
EXTENDS Integers, Sequences, FiniteSetsExt

CONSTANTS
  Clients,       \* "<app name>@<host>", the identity an app connects with
  Sessions,      \* connections that may be open at a time
  None,
  Arrivals,      \* the kinds of the messages, in the order they are stored
  MaxConnects,   \* bound on connections
  MaxFailures,   \* bound on failed calls, forgotten apps, stops and crashes
  InboxSize,     \* MAX_QUEUED_MESSAGES
  ReplayLimit    \* settings.virtual_node_replay_limit

ASSUME InboxAssumption ==
  /\ Arrivals \in Seq({"text", "quiet", "mark", "own"})
  /\ MaxConnects \in Nat /\ MaxFailures \in Nat
  /\ InboxSize \in Nat \ {0} /\ ReplayLimit \in Nat
  /\ None \notin Clients

VARIABLES
  latest,     \* the newest row of the message table
  fresh,      \* rows stored and not broadcast yet
  tasks,      \* rows whose _enqueue_message task has not run yet
  rows,       \* virtual_node_clients: None or the cursor and whether it is back
  sess,       \* ClientSession objects with the position of their coroutine
  listening,  \* the server accepts connections
  budget,     \* connections made and failures happened
  unbuilt,    \* history: rows whose _enqueue_message task raised
  pulled,     \* history: the messages each client has taken from an inbox
  first       \* history: where each client's row began

vars == <<latest, fresh, tasks, unbuilt, rows, sess, listening, budget, pulled, first>>

\* "text" has a companion frame and is broadcast as it is stored, "quiet" has one
\* and is broadcast with realtime=False (a decrypted old packet, an unhidden
\* reaction), "mark" is an incoming row without a frame (a local marker, a channel
\* without a slot), and "own" is a sent message or a reaction.
Ids == 1..Len(Arrivals)
IsText(m) == Arrivals[m] \in {"text", "quiet"}
IsLive(m) == Arrivals[m] = "text"

Gone == [pc |-> "gone", app |-> None, client |-> None, started |-> FALSE,
         cursor |-> 0, dirty |-> FALSE, inbox |-> <<>>, latest |-> 0,
         task |-> "done", writes |-> 0, since |-> 0]

Connected(s) == sess[s].pc \notin {"gone", "leaving"}

SessionSet ==
  [pc : {"gone", "reading", "latest", "record", "replay", "answer", "leaving"},
   app : Clients \cup {None}, client : Clients \cup {None}, started : BOOLEAN,
   cursor : 0..Len(Arrivals), dirty : BOOLEAN, inbox : Seq(Ids),
   latest : 0..Len(Arrivals), task : {"done", "sleeping", "writing"},
   writes : 0..Len(Arrivals), since : 0..Len(Arrivals)]

TypeOK ==
  /\ latest \in 0..Len(Arrivals)
  /\ fresh \in SUBSET Ids /\ tasks \in SUBSET Ids /\ unbuilt \in SUBSET Ids
  /\ rows \in [Clients -> {None} \cup [cursor : 0..Len(Arrivals), back : BOOLEAN]]
  /\ sess \in [Sessions -> SessionSet]
  /\ \A s \in Sessions : Len(sess[s].inbox) <= InboxSize
  /\ listening \in BOOLEAN
  /\ budget \in [connects : 0..MaxConnects, failures : 0..MaxFailures]
  /\ pulled \in [Clients -> SUBSET Ids]
  /\ first \in [Clients -> 0..Len(Arrivals)]

Init ==
  /\ latest = 0 /\ fresh = {} /\ tasks = {} /\ unbuilt = {}
  /\ rows = [c \in Clients |-> None]
  /\ sess = [s \in Sessions |-> Gone]
  /\ listening = TRUE
  /\ budget = [connects |-> 0, failures |-> 0]
  /\ pulled = [c \in Clients |-> {}]
  /\ first = [c \in Clients |-> 0]

Fails == budget.failures < MaxFailures /\ budget' = [budget EXCEPT !.failures = @ + 1]

-----------------------------------------------------------------------------
(* Messages come in and are queued for the apps.                           *)

\* A row is stored; on_app_event hears of it only when it is live.
Store ==
  /\ latest < Len(Arrivals)
  /\ latest' = latest + 1
  /\ fresh' = IF IsLive(latest') THEN fresh \cup {latest'} ELSE fresh
  /\ UNCHANGED <<tasks, unbuilt, rows, sess, listening, budget, pulled, first>>

\* on_app_event: nothing is spawned while no app is connected.
Broadcast(m) ==
  /\ m \in fresh
  /\ fresh' = fresh \ {m}
  /\ tasks' = IF \E s \in Sessions : Connected(s) THEN tasks \cup {m} ELSE tasks
  /\ UNCHANGED <<latest, unbuilt, rows, sess, listening, budget, pulled, first>>

\* Slip: a list without a limit.
QueuedAll(inbox, m) == Append(inbox, m)

\* A deque with maxlen: a full one drops its oldest entry.
Queued(inbox, m) ==
  IF Len(inbox) < InboxSize THEN Append(inbox, m) ELSE Append(Tail(inbox), m)

\* What an overrun loses is no longer owed to the app.
Fed(session, m) ==
  [session EXCEPT !.inbox = Queued(@, m),
                  !.since = IF Len(session.inbox) < InboxSize THEN @
                            ELSE Max({@, Head(session.inbox)})]

\* Slip: an app whose command is being served is left out.
EnqueueIdle(m) ==
  /\ m \in tasks
  /\ tasks' = tasks \ {m}
  /\ sess' = [s \in Sessions |->
       IF sess[s].pc = "reading" THEN Fed(sess[s], m) ELSE sess[s]]
  /\ UNCHANGED <<latest, fresh, unbuilt, rows, listening, budget, pulled, first>>

Enqueue(m) ==
  /\ m \in tasks
  /\ tasks' = tasks \ {m}
  /\ sess' = [s \in Sessions |->
       IF Connected(s) THEN Fed(sess[s], m) ELSE sess[s]]
  /\ UNCHANGED <<latest, fresh, unbuilt, rows, listening, budget, pulled, first>>

\* _frame_for_message raises, the query for the channels' slots having failed:
\* the task ends and no app is handed the message.
EnqueueFails(m) ==
  /\ m \in tasks
  /\ Fails
  /\ tasks' = tasks \ {m} /\ unbuilt' = unbuilt \cup {m}
  /\ UNCHANGED <<latest, fresh, rows, sess, listening, pulled, first>>

-----------------------------------------------------------------------------
(* One connection.                                                         *)

Connect(s, c) ==
  /\ listening
  /\ sess[s].pc = "gone" /\ sess[s].task = "done"
  /\ budget.connects < MaxConnects
  /\ budget' = [budget EXCEPT !.connects = @ + 1]
  /\ sess' = [sess EXCEPT ![s] = [Gone EXCEPT !.pc = "reading", !.app = c]]
  /\ UNCHANGED <<latest, fresh, tasks, unbuilt, rows, listening, pulled, first>>

\* A second APP_START on the connection changes nothing.
AppStart(s) ==
  /\ sess[s].pc = "reading" /\ ~sess[s].started
  /\ sess' = [sess EXCEPT ![s].pc = "latest", ![s].started = TRUE,
                          ![s].client = sess[s].app]
  /\ UNCHANGED <<latest, fresh, tasks, unbuilt, rows, listening, budget, pulled, first>>

GetLatest(s) ==
  /\ sess[s].pc = "latest"
  /\ sess' = [sess EXCEPT ![s].pc = "record", ![s].latest = latest]
  /\ UNCHANGED <<latest, fresh, tasks, unbuilt, rows, listening, budget, pulled, first>>

Recorded(row, newest) ==
  IF row = None THEN [cursor |-> newest, back |-> FALSE] ELSE [row EXCEPT !.back = TRUE]

\* record_connection, and the inbox cleared for the replay.
RecordConnection(s) ==
  LET c   == sess[s].client
      row == Recorded(rows[c], sess[s].latest)
  IN
  /\ sess[s].pc = "record"
  /\ rows' = [rows EXCEPT ![c] = row]
  /\ first' = IF rows[c] = None THEN [first EXCEPT ![c] = Max({@, row.cursor})] ELSE first
  /\ sess' = [sess EXCEPT ![s].cursor = row.cursor, ![s].inbox = <<>>, ![s].latest = 0,
       ![s].since = latest,
       ![s].pc = IF row.back /\ ReplayLimit > 0 /\ row.cursor < sess[s].latest
                 THEN "replay" ELSE "answer"]
  /\ UNCHANGED <<latest, fresh, tasks, unbuilt, listening, budget, pulled>>

\* A query fails: the session goes on without its history.
LoadFails(s) ==
  /\ sess[s].pc \in {"latest", "record", "replay"}
  /\ Fails
  /\ sess' = [sess EXCEPT ![s].pc = "answer", ![s].latest = 0,
                          ![s].since = latest]
  /\ UNCHANGED <<latest, fresh, tasks, unbuilt, rows, listening, pulled, first>>

\* _note_delivered: the session after a cursor move, its persist task started.
NoteDelivered(session, m) ==
  IF m <= session.cursor THEN session
  ELSE [session EXCEPT !.cursor = m, !.dirty = TRUE,
                       !.task = IF @ = "done" THEN "sleeping" ELSE @]

\* get_incoming_after_id: the newest ReplayLimit incoming rows after a cursor.
IncomingAfter(cursor) == {m \in cursor + 1..latest : Arrivals[m] # "own"}
Newest(ms) == {m \in ms : Cardinality({n \in ms : n > m}) < ReplayLimit}

InOrder(ms) ==
  {q \in [1..Cardinality(ms) -> ms] : \A i, j \in DOMAIN q : i < j => q[i] < q[j]}

\* A deque with maxlen keeps the newest of what is offered to it.
Kept(inbox) ==
  IF Len(inbox) <= InboxSize THEN inbox
  ELSE SubSeq(inbox, Len(inbox) - InboxSize + 1, Len(inbox))

\* Slip: the cursor jumps onto the first replayed row, not in front of it.
ReplayOnto(s) ==
  LET incoming == IncomingAfter(sess[s].cursor)
      missed   == Newest(incoming)
  IN
  /\ sess[s].pc = "replay"
  /\ \E texts \in InOrder({m \in missed : IsText(m)}) :
       LET filled == [sess[s] EXCEPT !.pc = "answer", !.since = latest,
                                     !.inbox = Kept(@ \o texts)]
       IN sess' = [sess EXCEPT ![s] =
            IF missed = incoming THEN filled ELSE NoteDelivered(filled, Min(missed))]
  /\ UNCHANGED <<latest, fresh, tasks, unbuilt, rows, listening, budget, pulled, first>>

Replay(s) ==
  LET incoming == IncomingAfter(sess[s].cursor)
      missed   == Newest(incoming)
  IN
  /\ sess[s].pc = "replay"
  /\ \E texts \in InOrder({m \in missed : IsText(m)}) :
       LET filled == [sess[s] EXCEPT !.pc = "answer", !.since = latest,
                                     !.inbox = Kept(@ \o texts)]
       IN sess' = [sess EXCEPT ![s] =
            IF missed = incoming THEN filled ELSE NoteDelivered(filled, Min(missed) - 1)]
  /\ UNCHANGED <<latest, fresh, tasks, unbuilt, rows, listening, budget, pulled, first>>

\* SYNC_NEXT_MESSAGE with something to hand out.
Pull(s) ==
  /\ sess[s].pc = "reading" /\ sess[s].inbox # <<>>
  /\ LET m    == Head(sess[s].inbox)
         rest == [sess[s] EXCEPT !.pc = "answer", !.inbox = Tail(@)]
     IN
     /\ sess' = [sess EXCEPT ![s] = NoteDelivered(rest, m)]
     /\ pulled' = [pulled EXCEPT ![sess[s].app] = @ \cup {m}]
  /\ UNCHANGED <<latest, fresh, tasks, unbuilt, rows, listening, budget, first>>

\* The response is written to the socket.
Answer(s) ==
  /\ sess[s].pc = "answer"
  /\ sess' = [sess EXCEPT ![s].pc = "reading"]
  /\ UNCHANGED <<latest, fresh, tasks, unbuilt, rows, listening, budget, pulled, first>>

Leaving(session) == [session EXCEPT !.pc = "leaving", !.inbox = <<>>, !.latest = 0,
                                      !.since = 0]

\* The peer closes, the operator disconnects it, or a write fails.
Hangup(s) ==
  /\ sess[s].pc \in {"reading", "answer"}
  /\ sess' = [sess EXCEPT ![s] = Leaving(@)]
  /\ UNCHANGED <<latest, fresh, tasks, unbuilt, rows, listening, budget, pulled, first>>

-----------------------------------------------------------------------------
(* The cursor is written: a second after it moved, and on the way out.     *)

\* Slip: the row takes whatever cursor a session has.
AdvancedPlain(row, cursor) == IF row = None THEN None ELSE [row EXCEPT !.cursor = cursor]

\* advance_cursor: never backwards, and nothing for a forgotten client.
Advanced(row, cursor) ==
  IF row = None THEN None ELSE [row EXCEPT !.cursor = Max({@, cursor})]

MustPersist(session) == session.dirty /\ session.client # None

\* The persist task is over, and with it the last of a session that has left.
Ended(session) ==
  IF session.pc = "gone" THEN Gone ELSE [session EXCEPT !.task = "done", !.writes = 0]

\* _persist_cursor_later after its sleep: the cursor of this moment is written.
PersistWakes(s) ==
  /\ sess[s].task = "sleeping"
  /\ sess' = [sess EXCEPT ![s] =
       IF MustPersist(@) THEN [@ EXCEPT !.task = "writing", !.writes = sess[s].cursor]
       ELSE Ended(@)]
  /\ UNCHANGED <<latest, fresh, tasks, unbuilt, rows, listening, budget, pulled, first>>

PersistWrites(s) ==
  /\ sess[s].task = "writing"
  /\ rows' = [rows EXCEPT ![sess[s].client] = Advanced(@, sess[s].writes)]
  /\ sess' = [sess EXCEPT ![s] = Ended([@ EXCEPT !.dirty = FALSE])]
  /\ UNCHANGED <<latest, fresh, tasks, unbuilt, listening, budget, pulled, first>>

PersistFails(s) ==
  /\ sess[s].task = "writing"
  /\ Fails
  /\ sess' = [sess EXCEPT ![s] = Ended(@)]
  /\ UNCHANGED <<latest, fresh, tasks, unbuilt, rows, listening, pulled, first>>

\* What the persist task still sees of a session that has left.
Left(session, dirty) ==
  IF session.task = "done" THEN Gone
  ELSE [Gone EXCEPT !.client = session.client, !.cursor = session.cursor,
                    !.dirty = dirty, !.task = session.task, !.writes = session.writes]

\* The finally block of _handle_client.
Leave(s) ==
  /\ sess[s].pc = "leaving"
  /\ rows' = IF MustPersist(sess[s])
             THEN [rows EXCEPT ![sess[s].client] = Advanced(@, sess[s].cursor)]
             ELSE rows
  /\ sess' = [sess EXCEPT ![s] = Left(@, @.dirty /\ @.client = None)]
  /\ UNCHANGED <<latest, fresh, tasks, unbuilt, listening, budget, pulled, first>>

LeaveFails(s) ==
  /\ sess[s].pc = "leaving" /\ MustPersist(sess[s])
  /\ Fails
  /\ sess' = [sess EXCEPT ![s] = Left(@, TRUE)]
  /\ UNCHANGED <<latest, fresh, tasks, unbuilt, rows, listening, pulled, first>>

\* The operator forgets a remembered app.
Forget(c) ==
  /\ rows[c] # None
  /\ Fails
  /\ rows' = [rows EXCEPT ![c] = None]
  /\ UNCHANGED <<latest, fresh, tasks, unbuilt, sess, listening, pulled, first>>

\* stop(): every connection is cancelled and leaves.
Stop ==
  /\ listening
  /\ Fails
  /\ listening' = FALSE
  /\ sess' = [s \in Sessions |->
       IF Connected(s) THEN Leaving(sess[s]) ELSE sess[s]]
  /\ UNCHANGED <<latest, fresh, tasks, unbuilt, rows, pulled, first>>

\* The process ends, after stop() or without it, and starts again.
Restart ==
  /\ listening => budget.failures < MaxFailures
  /\ budget' = IF listening THEN [budget EXCEPT !.failures = @ + 1] ELSE budget
  /\ listening' = TRUE
  /\ sess' = [s \in Sessions |-> Gone]
  /\ fresh' = {} /\ tasks' = {}
  /\ UNCHANGED <<latest, unbuilt, rows, pulled, first>>

-----------------------------------------------------------------------------
SessionStep(s) ==
  \/ \E c \in Clients : Connect(s, c)
  \/ AppStart(s) \/ GetLatest(s) \/ RecordConnection(s) \/ LoadFails(s)
  \/ Replay(s) \/ Pull(s) \/ Answer(s) \/ Hangup(s)
  \/ PersistWakes(s) \/ PersistWrites(s) \/ PersistFails(s)
  \/ Leave(s) \/ LeaveFails(s)

Next ==
  \/ Store
  \/ \E m \in Ids : Broadcast(m) \/ Enqueue(m) \/ EnqueueFails(m)
  \/ \E s \in Sessions : SessionStep(s)
  \/ \E c \in Clients : Forget(c)
  \/ Stop \/ Restart

Spec == Init /\ [][Next]_vars

-----------------------------------------------------------------------------
(* A client's row never loses ground: two connections of one client and    *)
(* delayed writes of old cursors cannot move it back (advance_cursor).     *)
CursorNeverBack ==
  [][\A c \in Clients :
       rows[c] # None /\ rows'[c] # None => rows'[c].cursor >= rows[c].cursor]_vars

(* An app resumes from what it pulled: a message newer than everything it  *)
(* has taken, and within the replay limit, is still ahead of its cursor,   *)
(* so the replay of its next APP_START reads it, whatever failed or was    *)
(* cut off.                                                                *)
ResumesFromPulled ==
  \A c \in Clients : rows[c] # None =>
    \A m \in Newest(IncomingAfter(first[c])) :
      IsText(m) /\ (\A n \in pulled[c] : n < m) => rows[c].cursor < m

(* Every connected app is fed its own copy: a live message stored after    *)
(* its APP_START was served is on its way to the app, in its inbox or      *)
(* taken by it, whatever other apps do, unless its inbox overran or no     *)
(* frame could be built of it (_enqueue_message).                          *)
EveryAppFed ==
  \A s \in Sessions : sess[s].started /\ sess[s].pc \in {"reading", "answer"} =>
    \A m \in sess[s].since + 1..latest : IsLive(m) =>
      m \in fresh \cup tasks \cup unbuilt \cup Range(sess[s].inbox) \cup pulled[sess[s].app]

(* What the design note says of the inbox: "500 live frames; a history     *)
(* replay may fill it further up to the replay limit".  A replay puts      *)
(* every text it read into the inbox.                                      *)
ReplayFillsInbox ==
  [][\A s \in Sessions : Replay(s) =>
       \A m \in Newest(IncomingAfter(sess[s].cursor)) :
         IsText(m) => m \in Range(sess'[s].inbox)]_vars

=============================================================================
