--------------------------- MODULE ChannelMessages ---------------------------
(* One text in one channel: the requests that send it, the echoes of the mesh that    *)
(* come back, the rows of the messages table, and the browser that shows them.        *)
(*                                                                                    *)
(* The server is one event loop: an action is what one task does between two awaits   *)
(* that suspend it, a database call included.  All requests fall into one second, so  *)
(* that every sender timestamp after the first has to be moved: an own message is its *)
(* timestamp, a message of somebody else a member of Foreign.                         *)
EXTENDS ChatClient, Sequences

CONSTANTS
  Requests,    \* HTTP requests of the user that may overlap
  Hearers,     \* frames of the radio that may be processed at the same time
  Foreign,     \* messages of other nodes
  MaxAsks,     \* bound: requests
  MaxHears,    \* bound: frames heard
  MaxDrops,    \* bound: lost and abandoned websocket connections
  MaxEvents,   \* bound: requests, frames and lost connections together
  AutoResend   \* app_settings.auto_resend_channel

Stamps == 1..MaxAsks

ASSUME MessagesAssumption ==
  /\ MaxAsks \in Nat /\ MaxHears \in Nat /\ MaxDrops \in Nat /\ MaxEvents \in Nat
  /\ AutoResend \in BOOLEAN
  /\ Contents = Stamps \cup Foreign /\ Stamps \cap Foreign = {}
  /\ Ids = 1..MaxEvents
  /\ IsFiniteSet(Hearers)

VARIABLES
  rows,      \* the messages table, by content: its unique index for channel messages
  nextId,    \* AUTOINCREMENT
  named,     \* history: the content a row id was given to
  reserved,  \* _pending_outgoing_timestamp_reservations
  req,       \* where each request is
  obs,       \* where the processing of each frame is
  dogs,      \* _channel_echo_watchdog, by row id
  radio,     \* who holds the radio operation lock
  aired,     \* contents that were transmitted, by us or by others
  wire,      \* websocket events on their way to the browser
  http,      \* responses on their way to the browser
  client,    \* the open conversation in the browser
  socket,    \* the websocket: open, down, or mute: open for the browser only
  page,      \* the reconciling fetch: none, asked for, or served with these rows
  asks, hears, drops,
  heard,     \* history: echoes that found the row, by row id
  dropped,   \* history: own contents whose row was deleted
  silenced,  \* history: row ids deleted with no transmission pending
  told,      \* history: contents the browser has shown
  lost       \* history: events may be missing that no page has made up for

table == <<rows, nextId, named>>
serverVars == <<table, reserved, req, obs, dogs, radio, aired>>
browserVars == <<client, socket, page, told, lost>>
boundVars == <<asks, hears, drops>>
histVars == <<heard, dropped, silenced>>
vars == <<serverVars, wire, http, browserVars, boundVars, histVars>>

Row(id, mine, acked, paths) == [id |-> id, mine |-> mine, acked |-> acked, paths |-> paths]
IdleReq == [pc |-> "idle", kind |-> "none", content |-> None, id |-> None,
            reply |-> None, late |-> FALSE]
IdleObs ==
  [pc |-> "idle", content |-> None, id |-> None, mine |-> FALSE, acked |-> 0, paths |-> 0]

RowType == [id: Ids, mine: BOOLEAN, acked: Nat, paths: Nat]
EventType == [type: {"message", "acked", "deleted"}, id: Ids, content: Contents \cup {None},
              acked: Nat, paths: Nat]
ReqType == [pc: {"idle", "lock", "pick", "store", "air", "undo", "announce", "watch", "drop"},
            kind: {"none", "send", "again", "resend", "delete"}, content: Contents \cup {None},
            id: Ids \cup {None}, reply: EventType \cup {None}, late: BOOLEAN]
ObsType == [pc: {"idle", "tell", "find", "path", "count"}, content: Contents \cup {None},
            id: Ids \cup {None}, mine: BOOLEAN, acked: Nat, paths: Nat]

\* None is no value of any kind.
ASSUME NoneApart ==
  None \notin Contents /\ None \notin Ids /\ None \notin RowType /\ None \notin BubbleType
  /\ None \notin AckType /\ None \notin [content: Contents, acked: Nat]

NoPage == [state |-> "none", list |-> [i \in Ids |-> None]]

Init ==
  /\ rows = [c \in Contents |-> None] /\ nextId = 1 /\ named = [i \in Ids |-> None]
  /\ reserved = {}
  /\ req = [r \in Requests |-> IdleReq] /\ obs = [h \in Hearers |-> IdleObs]
  /\ dogs = [i \in Ids |-> "none"] /\ radio = None /\ aired = Foreign
  /\ wire = << >> /\ http = {}
  /\ client = EmptyClient /\ socket = "open" /\ page = NoPage
  /\ asks = 0 /\ hears = 0 /\ drops = 0
  /\ heard = [i \in Ids |-> 0] /\ dropped = {} /\ silenced = {} /\ told = {} /\ lost = FALSE

-----------------------------------------------------------------------------
(* The messages table.                                                                *)

\* The content of the row with this id, if it is still there.
Holder(i) == {c \in Contents : rows[c] # None /\ rows[c].id = i}

\* MessageRepository.create: INSERT OR IGNORE of a content that is not there; Ids is a bound.
Insert(c, mine, paths) ==
  /\ nextId \in Ids
  /\ rows' = [rows EXCEPT ![c] = Row(nextId, mine, 0, paths)]
  /\ nextId' = nextId + 1 /\ named' = [named EXCEPT ![nextId] = c]

\* delete_by_id.
Without(i) == [c \in Contents |-> IF c \in Holder(i) THEN None ELSE rows[c]]

\* Events: message, message_acked and message_deleted.
MessageEvent(i, c, acked, paths) ==
  [type |-> "message", id |-> i, content |-> c, acked |-> acked, paths |-> paths]
AckedEvent(i, acked, paths) ==
  [type |-> "acked", id |-> i, content |-> None, acked |-> acked, paths |-> paths]
DeletedEvent(i) ==
  [type |-> "deleted", id |-> i, content |-> None, acked |-> 0, paths |-> 0]

\* broadcast_event: reaches the browser in order, if its socket is in active_connections.
Broadcast(e) == wire' = IF socket = "open" THEN Append(wire, e) ELSE wire

InBudget == asks + hears + drops < MaxEvents

Lock(who) == radio = None /\ radio' = who
Unlock(who) == radio = who /\ radio' = None

ToPc(r, label) == req' = [req EXCEPT ![r].pc = label]
Done(r) == req' = [req EXCEPT ![r] = IdleReq]

-----------------------------------------------------------------------------
(* send_channel_message_to_channel, and resend_channel_message_record with a new      *)
(* timestamp: kinds "send" and "again".                                               *)

MayAsk == asks < MaxAsks /\ InBudget

Ask(r, kind, content, i) ==
  /\ req[r].pc = "idle" /\ MayAsk
  /\ asks' = asks + 1
  /\ req' = [req EXCEPT ![r] = [IdleReq EXCEPT !.pc = "lock", !.kind = kind,
                                               !.content = content, !.id = i]]

\* The user sees the message and it is still stored: what the routes load first.
OnScreen(i) == client.ref[i] # None /\ Holder(i) # {}
Stored(i) == CHOOSE c \in Holder(i) : TRUE

AskSend(r) ==
  /\ Ask(r, "send", None, None)
  /\ UNCHANGED <<table, reserved, obs, dogs, radio, aired, wire, http, browserVars,
                 hears, drops, histVars>>

AskAgain(r, i) ==
  /\ OnScreen(i) /\ rows[Stored(i)].mine
  /\ Ask(r, "again", None, None)
  /\ UNCHANGED <<table, reserved, obs, dogs, radio, aired, wire, http, browserVars,
                 hears, drops, histVars>>

\* The next candidate that nobody has reserved; Stamps is a bound.
Free(from) == {s \in Stamps \ reserved : s >= from}
Unreserved(from) == {s \in Free(from) : \A t \in Free(from) : s <= t}

SendLocked(r) ==
  /\ req[r].pc = "lock" /\ req[r].kind # "resend"
  /\ Lock(r)
  /\ \E s \in Unreserved(1) :
       req' = [req EXCEPT ![r] = [@ EXCEPT !.pc = "pick", !.content = s]]
  /\ UNCHANGED <<table, reserved, obs, dogs, aired, wire, http, browserVars, boundVars,
                 histVars>>

\* Slip: transmitted as soon as the timestamp is known, before the row is there.
SendPickEager(r) ==
  /\ req[r].pc = "pick"
  /\ IF rows[req[r].content] # None
     THEN /\ \E s \in Unreserved(req[r].content + 1) : req' = [req EXCEPT ![r].content = s]
          /\ UNCHANGED <<reserved, aired>>
     ELSE /\ reserved' = reserved \cup {req[r].content}
          /\ aired' = aired \cup {req[r].content}
          /\ ToPc(r, "store")
  /\ UNCHANGED <<table, obs, dogs, radio, wire, http, browserVars, boundVars, histVars>>

\* allocate_outgoing_sender_timestamp: one look at the table, and the reservation when
\* the candidate is free.
SendPick(r) ==
  /\ req[r].pc = "pick"
  /\ IF rows[req[r].content] # None
     THEN /\ \E s \in Unreserved(req[r].content + 1) : req' = [req EXCEPT ![r].content = s]
          /\ UNCHANGED reserved
     ELSE /\ reserved' = reserved \cup {req[r].content}
          /\ ToPc(r, "store")
  /\ UNCHANGED <<table, obs, dogs, radio, aired, wire, http, browserVars, boundVars, histVars>>

\* The row is stored before anything is transmitted.
SendStored(r) ==
  /\ req[r].pc = "store" /\ rows[req[r].content] = None
  /\ Insert(req[r].content, TRUE, 0)
  /\ req' = [req EXCEPT ![r] = [@ EXCEPT !.pc = "air", !.id = nextId]]
  /\ UNCHANGED <<reserved, obs, dogs, radio, aired, wire, http, browserVars, boundVars, histVars>>

\* 422: an echo of an earlier transmission came in between.
SendDuplicate(r) ==
  /\ req[r].pc = "store" /\ rows[req[r].content] # None
  /\ reserved' = reserved \ {req[r].content}
  /\ Unlock(r) /\ Done(r)
  /\ UNCHANGED <<table, obs, dogs, aired, wire, http, browserVars, boundVars, histVars>>

\* The radio accepted the text.
SendAccepted(r) ==
  /\ req[r].pc = "air" /\ req[r].kind # "resend"
  /\ aired' = aired \cup {req[r].content}
  /\ reserved' = reserved \ {req[r].content}
  /\ Unlock(r) /\ ToPc(r, "announce")
  /\ UNCHANGED <<table, obs, dogs, wire, http, browserVars, boundVars, histVars>>

\* An error, or no answer, in which case the text may be on the air.
SendRefused(r, out) ==
  /\ req[r].pc = "air" /\ req[r].kind # "resend"
  /\ aired' = IF out THEN aired \cup {req[r].content} ELSE aired
  /\ Unlock(r) /\ ToPc(r, "undo")
  /\ UNCHANGED <<table, reserved, obs, dogs, wire, http, browserVars, boundVars, histVars>>

\* A failed send takes its row back.
SendUndone(r) ==
  /\ req[r].pc = "undo"
  /\ rows' = Without(req[r].id)
  /\ reserved' = reserved \ {req[r].content}
  /\ dropped' = dropped \cup {req[r].content}
  /\ Done(r)
  /\ UNCHANGED <<nextId, named, obs, dogs, radio, aired, wire, http, browserVars, boundVars, heard,
                 silenced>>

\* The row as it is by now: get_ack_and_paths, 0 and none when it is gone.
Current(i, c) ==
  IF Holder(i) = {} THEN MessageEvent(i, c, 0, 0)
  ELSE MessageEvent(i, c, rows[Stored(i)].acked, rows[Stored(i)].paths)

\* The row is read again and broadcast; it is also what the response carries, at once
\* for a resend, after the settings were read for a send.
SendAnnounced(r) ==
  /\ req[r].pc = "announce"
  /\ LET e == Current(req[r].id, req[r].content)
     IN  /\ Broadcast(e)
         /\ \/ /\ req[r].kind = "send"
               /\ req' = [req EXCEPT ![r] = [@ EXCEPT !.pc = "watch", !.reply = e]]
               /\ UNCHANGED http
            \/ /\ req[r].kind = "again"
               /\ http' = http \cup {e}
               /\ Done(r)
  /\ UNCHANGED <<table, reserved, obs, dogs, radio, aired, browserVars, boundVars, histVars>>

\* The echo watchdog is started for a message that was just sent.
SendAnswered(r) ==
  /\ req[r].pc = "watch"
  /\ dogs' = IF AutoResend THEN [dogs EXCEPT ![req[r].id] = "sleep"] ELSE dogs
  /\ http' = http \cup {req[r].reply}
  /\ Done(r)
  /\ UNCHANGED <<table, reserved, obs, radio, aired, wire, browserVars, boundVars, histVars>>

Send(r) ==
  \/ AskSend(r) \/ \E i \in Ids : AskAgain(r, i)
  \/ SendLocked(r) \/ SendPick(r) \/ SendStored(r) \/ SendDuplicate(r) \/ SendAccepted(r)
  \/ \E out \in BOOLEAN : SendRefused(r, out)
  \/ SendUndone(r) \/ SendAnnounced(r) \/ SendAnswered(r)

-----------------------------------------------------------------------------
(* A byte-perfect resend, a delete, and the echo watchdog.                            *)

AskResend(r, i) ==
  /\ OnScreen(i) /\ rows[Stored(i)].mine
  /\ Ask(r, "resend", Stored(i), i)
  /\ UNCHANGED <<table, reserved, obs, dogs, radio, aired, wire, http, browserVars,
                 hears, drops, histVars>>

ResendLocked(r) ==
  /\ req[r].pc = "lock" /\ req[r].kind = "resend"
  /\ Lock(r) /\ ToPc(r, "air")
  /\ UNCHANGED <<table, reserved, obs, dogs, aired, wire, http, browserVars, boundVars,
                 histVars>>

\* Whatever the radio answers, the row keeps its content and its echo count; the text
\* has been on the air before.
ResendEnds(r) ==
  /\ req[r].pc = "air" /\ req[r].kind = "resend"
  /\ Unlock(r) /\ Done(r)
  /\ UNCHANGED <<table, reserved, obs, dogs, aired, wire, http, browserVars, boundVars,
                 histVars>>

\* A resend of this message is waiting for the radio or on the air.
Resending(i) == \E r \in Requests : req[r].kind = "resend" /\ req[r].id = i

\* Slip: only a watchdog that still sleeps is stopped.
CancelSleeping(i) ==
  /\ dogs' = [dogs EXCEPT ![i] = IF @ = "sleep" THEN "done" ELSE @]
  /\ UNCHANGED radio

\* send_tracker.cancel: a watchdog on the air gives the radio back.
Cancel(i) ==
  /\ dogs' = [dogs EXCEPT ![i] = IF @ = "none" THEN @ ELSE "done"]
  /\ radio' = IF radio = i THEN None ELSE radio

\* The request that sends this message is at it, or has yet to start its watchdog.
StillSends(i) ==
  \E r \in Requests : /\ req[r].pc \in {"air", "announce", "watch"} /\ req[r].kind # "resend"
                      /\ req[r].id = i

\* delete_message: pending transmissions are cancelled first.
AskDelete(r, i) ==
  /\ OnScreen(i)
  /\ req[r].pc = "idle" /\ MayAsk
  /\ asks' = asks + 1
  /\ req' = [req EXCEPT ![r] = [IdleReq EXCEPT !.pc = "drop", !.kind = "delete", !.id = i,
                                               !.late = StillSends(i)]]
  /\ Cancel(i)
  /\ UNCHANGED <<table, reserved, obs, aired, wire, http, browserVars, hears, drops, histVars>>

DeleteRow(r) ==
  /\ req[r].pc = "drop"
  /\ rows' = Without(req[r].id)
  /\ Broadcast(DeletedEvent(req[r].id))
  /\ http' = http \cup {DeletedEvent(req[r].id)}
  /\ dropped' = dropped \cup (Holder(req[r].id) \cap Stamps)
  /\ silenced' = silenced \cup {i \in {req[r].id} : ~Resending(i) /\ ~req[r].late}
  /\ Done(r)
  /\ UNCHANGED <<nextId, named, reserved, obs, dogs, radio, aired, browserVars, boundVars, heard>>

\* The delay is over: nothing to do for a message that is gone or was heard.
WatchdogLooks(i) ==
  /\ dogs[i] = "sleep"
  /\ dogs' = [dogs EXCEPT ![i] =
                IF \E c \in Holder(i) : rows[c].acked = 0 THEN "ready" ELSE "done"]
  /\ UNCHANGED <<table, reserved, req, obs, radio, aired, wire, http, browserVars,
                 boundVars, histVars>>

\* blocking=False: a busy radio ends the watchdog.
WatchdogLocks(i) ==
  /\ dogs[i] = "ready"
  /\ \/ Lock(i) /\ dogs' = [dogs EXCEPT ![i] = "air"]
     \/ radio # None /\ dogs' = [dogs EXCEPT ![i] = "done"] /\ UNCHANGED radio
  /\ UNCHANGED <<table, reserved, req, obs, aired, wire, http, browserVars, boundVars,
                 histVars>>

\* It sends the text it read before, whatever has become of the row.
WatchdogSends(i) ==
  /\ dogs[i] = "air"
  /\ dogs' = [dogs EXCEPT ![i] = "done"] /\ Unlock(i)
  /\ UNCHANGED <<table, reserved, req, obs, aired, wire, http, browserVars, boundVars,
                 histVars>>

Watchdog(i) == WatchdogLooks(i) \/ WatchdogLocks(i) \/ WatchdogSends(i)

-----------------------------------------------------------------------------
(* What the radio hears: process_raw_packet, create_message_from_decrypted and        *)
(* reconcile_duplicate_message for the frame itself, create_fallback_channel_message   *)
(* for the copy the radio queued, which carries no path.                               *)

Hear(c) == c \in aired /\ hears < MaxHears /\ InBudget /\ hears' = hears + 1

\* The first copy of a content makes a row; own texts are told by their content only.
HearNew(h, c) ==
  /\ obs[h].pc = "idle" /\ Hear(c)
  /\ rows[c] = None
  /\ Insert(c, FALSE, 1)
  /\ obs' = [obs EXCEPT ![h] = [IdleObs EXCEPT !.pc = "tell", !.content = c, !.id = nextId]]
  /\ UNCHANGED <<reserved, req, dogs, radio, aired, wire, http, browserVars, asks, drops,
                 heard, dropped, silenced>>

HearAgain(h, c) ==
  /\ obs[h].pc = "idle" /\ Hear(c)
  /\ rows[c] # None
  /\ obs' = [obs EXCEPT ![h] = [IdleObs EXCEPT !.pc = "find", !.content = c]]
  /\ UNCHANGED <<table, reserved, req, dogs, radio, aired, wire, http, browserVars, asks,
                 drops, histVars>>

\* The packet is marked decrypted before the message is broadcast.
Tell(h) ==
  /\ obs[h].pc = "tell"
  /\ Broadcast(MessageEvent(obs[h].id, obs[h].content, 0, 1))
  /\ obs' = [obs EXCEPT ![h] = IdleObs]
  /\ UNCHANGED <<table, reserved, req, dogs, radio, aired, http, browserVars, boundVars,
                 histVars>>

\* get_by_content: the row may be gone by now.
Find(h) ==
  /\ obs[h].pc = "find"
  /\ LET row == rows[obs[h].content]
     IN  IF row = None
         THEN obs' = [obs EXCEPT ![h] = IdleObs] /\ UNCHANGED heard
         ELSE /\ obs' = [obs EXCEPT ![h] = [pc |-> "path", content |-> @.content, id |-> row.id,
                           mine |-> row.mine, acked |-> row.acked, paths |-> row.paths]]
              /\ heard' = [heard EXCEPT ![row.id] = @ + 1]
  /\ UNCHANGED <<table, reserved, req, dogs, radio, aired, wire, http, browserVars,
                 boundVars, dropped, silenced>>

\* add_path on the row with that id, and the list it returns.
AddPath(h) ==
  /\ obs[h].pc = "path"
  /\ LET i == obs[h].id
         longer == [c \in Contents |-> IF c \in Holder(i)
                                       THEN [rows[c] EXCEPT !.paths = @ + 1] ELSE rows[c]]
         n == IF Holder(i) = {} THEN 0 ELSE rows[Stored(i)].paths + 1
     IN  /\ rows' = longer
         /\ IF obs[h].mine
            THEN /\ obs' = [obs EXCEPT ![h] = [@ EXCEPT !.pc = "count", !.paths = n]]
                 /\ UNCHANGED wire
            ELSE obs' = [obs EXCEPT ![h] = IdleObs] /\ Broadcast(AckedEvent(i, obs[h].acked, n))
  /\ UNCHANGED <<nextId, named, reserved, req, dogs, radio, aired, http, browserVars, boundVars,
                 histVars>>

\* Slip: the count that was read with the row is written back, plus one.
CountEchoRead(h) ==
  /\ obs[h].pc = "count"
  /\ LET i == obs[h].id
     IN  /\ rows' = [c \in Contents |-> IF c \in Holder(i)
                      THEN [rows[c] EXCEPT !.acked = obs[h].acked + 1] ELSE rows[c]]
         /\ Broadcast(AckedEvent(i, obs[h].acked + 1, obs[h].paths))
  /\ obs' = [obs EXCEPT ![h] = IdleObs]
  /\ UNCHANGED <<nextId, named, reserved, req, dogs, radio, aired, http, browserVars, boundVars,
                 histVars>>

\* An echo of our own message: increment_ack_count, 1 when the row is gone.
CountEcho(h) ==
  /\ obs[h].pc = "count"
  /\ LET i == obs[h].id
         n == IF Holder(i) = {} THEN 1 ELSE rows[Stored(i)].acked + 1
     IN  /\ rows' = [c \in Contents |-> IF c \in Holder(i)
                                        THEN [rows[c] EXCEPT !.acked = n] ELSE rows[c]]
         /\ Broadcast(AckedEvent(i, n, obs[h].paths))
  /\ obs' = [obs EXCEPT ![h] = IdleObs]
  /\ UNCHANGED <<nextId, named, reserved, req, dogs, radio, aired, http, browserVars, boundVars,
                 histVars>>

\* The queued copy of a message of somebody else; a second copy without a path changes
\* nothing.
HearQueued(c) ==
  /\ c \in Foreign /\ Hear(c)
  /\ rows[c] = None
  /\ Insert(c, FALSE, 0)
  /\ Broadcast(MessageEvent(nextId, c, 0, 0))
  /\ UNCHANGED <<reserved, req, obs, dogs, radio, aired, http, browserVars, asks, drops, histVars>>

Ingest(h) ==
  \/ \E c \in Contents : HearNew(h, c) \/ HearAgain(h, c)
  \/ Tell(h) \/ Find(h) \/ AddPath(h) \/ CountEcho(h)

-----------------------------------------------------------------------------
(* The browser.                                                                       *)

Shows(next) ==
  /\ client' = next
  /\ told' = told \cup {next.shown[i].content : i \in {j \in Ids : next.shown[j] # None}}

Applied(e) ==
  CASE e.type = "message" -> ObserveMessage(client, e.id, Bubble(e.content, e.acked, e.paths))
    [] e.type = "acked" -> UpdateMessageAck(client, e.id, Ack(e.acked, e.paths))
    [] e.type = "deleted" -> MessageDeleted(client, e.id)

WsReceive ==
  /\ wire # << >>
  /\ Shows(Applied(Head(wire)))
  /\ wire' = Tail(wire)
  /\ UNCHANGED <<serverVars, http, socket, page, lost, boundVars, histVars>>

\* handleSendMessage, handleResendChannelMessage and handleDeleteMessage.
HttpReceive(e) ==
  /\ e \in http
  /\ Shows(Applied(e))
  /\ http' = http \ {e}
  /\ UNCHANGED <<serverVars, wire, socket, page, lost, boundVars, histVars>>

\* React renders the list, some time after it was changed.
Rendered ==
  /\ client.ref # client.shown
  /\ Shows(Render(client))
  /\ UNCHANGED <<serverVars, wire, http, socket, page, lost, boundVars, histVars>>

MayDrop == drops < MaxDrops /\ InBudget /\ drops' = drops + 1

\* Events on the way, and those broadcast until the socket is back, are lost.
WsDrop ==
  /\ socket # "down" /\ MayDrop
  /\ socket' = "down" /\ wire' = << >> /\ lost' = TRUE
  /\ UNCHANGED <<serverVars, http, client, page, told, asks, hears, histVars>>

\* A send timed out: the server takes the connection off its list and does not close it.
WsMute ==
  /\ socket = "open" /\ MayDrop
  /\ socket' = "mute" /\ lost' = TRUE
  /\ UNCHANGED <<serverVars, wire, http, client, page, told, asks, hears, histVars>>

\* reconcileOnReconnect: a newer fetch supersedes an older one.
WsUp ==
  /\ socket = "down"
  /\ socket' = "open" /\ page' = [NoPage EXCEPT !.state = "asked"]
  /\ UNCHANGED <<serverVars, wire, http, client, told, lost, boundVars, histVars>>

\* GET /messages reads the table.
FetchServed ==
  /\ page.state = "asked"
  /\ page' = [state |-> "served",
              list |-> [i \in Ids |-> IF Holder(i) = {} THEN None
                          ELSE Bubble(Stored(i), rows[Stored(i)].acked, rows[Stored(i)].paths)]]
  /\ UNCHANGED <<serverVars, wire, http, client, socket, told, lost, boundVars, histVars>>

\* The page makes up for what was lost, on an open socket and unless the list has
\* changed since the render it is merged with.
FetchReceived ==
  /\ page.state = "served"
  /\ Shows(Reconcile(client, page.list))
  /\ page' = NoPage
  /\ lost' = (socket # "open" \/ client.ref # client.shown)
  /\ UNCHANGED <<serverVars, wire, http, socket, boundVars, histVars>>

\* The request fails: logged, and not tried again.
FetchFails ==
  /\ page.state # "none"
  /\ page' = NoPage
  /\ UNCHANGED <<serverVars, wire, http, client, socket, told, lost, boundVars, histVars>>

Browser ==
  \/ WsReceive \/ \E e \in http : HttpReceive(e)
  \/ Rendered
  \/ WsDrop \/ WsMute \/ WsUp \/ FetchServed \/ FetchReceived \/ FetchFails

-----------------------------------------------------------------------------
Next ==
  \/ \E r \in Requests :
       \/ Send(r)
       \/ \E i \in Ids : AskResend(r, i) \/ AskDelete(r, i)
       \/ ResendLocked(r) \/ ResendEnds(r) \/ DeleteRow(r)
  \/ \E i \in Ids : Watchdog(i)
  \/ \E h \in Hearers : Ingest(h)
  \/ \E c \in Contents : HearQueued(c)
  \/ Browser

Spec == Init /\ [][Next]_vars

-----------------------------------------------------------------------------
TypeOK ==
  /\ rows \in [Contents -> RowType \cup {None}]
  /\ nextId \in Nat /\ named \in [Ids -> Contents \cup {None}]
  /\ reserved \subseteq Stamps
  /\ req \in [Requests -> ReqType] /\ obs \in [Hearers -> ObsType]
  /\ dogs \in [Ids -> {"none", "sleep", "ready", "air", "done"}]
  /\ radio \in Requests \cup Ids \cup {None} /\ aired \subseteq Contents
  /\ wire \in Seq(EventType) /\ http \subseteq EventType
  /\ client \in ClientType /\ socket \in {"open", "mute", "down"}
  /\ page \in [state: {"none", "asked", "served"}, list: [Ids -> BubbleType \cup {None}]]
  /\ asks \in 0..MaxAsks /\ hears \in 0..MaxHears /\ drops \in 0..MaxDrops
  /\ heard \in [Ids -> Nat] /\ dropped \subseteq Contents /\ silenced \subseteq Ids
  /\ told \subseteq Contents /\ lost \in BOOLEAN

\* No echo of a message of ours is lost or counted twice: its count is the number of
\* echoes that found the row, less those still between the look at the row and the
\* increment (reconcile_duplicate_message), whatever else happens to the row.
EchoesCounted ==
  \A c \in Contents :
    rows[c] # None /\ rows[c].mine =>
      rows[c].acked + Cardinality({h \in Hearers : obs[h].pc \in {"path", "count"}
                                                   /\ obs[h].id = rows[c].id})
        = heard[rows[c].id]

\* Our own text never comes back as a message of somebody else, unless we gave its row
\* up: the row is there before the first transmission (send_channel_message_to_channel).
OwnEchoNotForeign ==
  \A c \in Stamps : rows[c] # None /\ ~rows[c].mine => c \in dropped

\* delete_message "stops us transmitting it again": neither the watchdog nor a resend
\* is on the air with a deleted message, unless a resend was under way already or the
\* request that sent it was not through.
DeletedStaysOffAir ==
  \A i \in silenced :
    dogs[i] # "air" /\ \A r \in Requests : req[r].pc = "air" => req[r].id # i

AtRest ==
  /\ \A r \in Requests : req[r].pc = "idle"
  /\ \A h \in Hearers : obs[h].pc = "idle"
  /\ wire = << >> /\ http = {} /\ page = NoPage
  /\ socket = "open" /\ client.ref = client.shown

\* The content had another row before, which was deleted.
Reborn(c) == \E i \in Ids : named[i] = c /\ i # rows[c].id

\* When nothing is under way every row is on the screen, if every loss of events was
\* followed by a reconnect whose page came, to a browser that had rendered its list
\* (reconcileOnReconnect); only a content that was deleted before may stay hidden.
NothingMissed ==
  AtRest /\ ~lost => \A c \in Contents :
    rows[c] # None => client.shown[rows[c].id] # None \/ Reborn(c)

\* As long as no event was lost nothing is on the screen that is not stored: a deleted
\* message is gone, whatever copy of it arrives late, and no bubble counts an echo that
\* the row does not (seenMessageContent, updateMessageAck).  It may count fewer.
ShownIsStored ==
  AtRest /\ drops = 0 => \A i \in Ids :
    client.shown[i] # None =>
      Holder(i) = {client.shown[i].content} /\ client.shown[i].acked <= rows[Stored(i)].acked

\* What the browser shows of a conversation is a ChatLog as long as no event is lost: a
\* message appears once, its count never falls, and a deleted one does not come back.
Log == INSTANCE ChatLog WITH
         shown <- [i \in Ids |-> IF client.shown[i] = None THEN None
                                 ELSE [content |-> client.shown[i].content,
                                       acked |-> client.shown[i].acked]],
         told <- told, whole <- drops = 0
ChatLogged == Log!Spec

==============================================================================
