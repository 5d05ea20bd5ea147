# A TLA+ model of Remote Terminal for MeshCore

Remote Terminal is a server that owns one MeshCore LoRa radio and lets browsers, bots,
fanout integrations and companion apps use it. The backend is one Python process and
one asyncio event loop: tasks interleave only where an `await` really suspends. The
state it must keep consistent lives in five places: the SQLite database, dictionaries in
memory, the radio's own tables (channel slots, contacts, queue, clock), what is on the
air, and what browsers and apps believe. This directory models the parts where these can
drift apart.

## 1. The system

| part | state | operations | what makes it hard | module |
|---|---|---|---|---|
| direct message delivery (`services/message_send.py`, `dm_ack_*`, `send_tracker.py`) | message rows, pending and buffered ACK codes, one retry task per message | send, background retries, manual retry, cancel, delete, ACK heard, ageing, restart | a cancel or a retry during an await; ACKs early, late, twice | DmDelivery |
| channel slots (`radio.py`, `radio_sync.py`, `routers/channels.py`, `aeic/transport.py`) | the radio's slots, a send cache and a resident set, each kept by key and by slot | text, image and app sends, create, delete, full sync, audit | the lock given back between planning and use; lost replies; other clients | ChannelSlots |
| connection lifecycle (`radio.py`, `services/radio_lifecycle.py`, `main.py`) | transport, three locks, wish, setup flag, keystore, announced health | dial, setup, teardown, monitor, pause, resume, timeouts | five kinds of tasks that reconnect; failed teardowns; cancelled waiters | RadioLink |
| RX silence watchdog (`services/rx_watchdog.py`) | incident, last sample, rung, reboot time; silence clock in `radio.py` | tick, probe, reconnect, reboot | measured before an await, used after it; outages between ticks | RxWatchdog |
| channel messages (`services/message_send.py`, `services/messages.py`, `packet_processor.py`, `repository/messages.py`) and the conversation in the browser (`useConversationMessages.ts`) | message rows, reserved timestamps, echo watchdogs, websocket events, the list on the screen | send, send again, byte-perfect resend, delete, frame heard, event, page | unknown outcome of a send; two echoes at once; everything reaches the browser twice, in two orders, or not at all | ChannelMessages, ChatClient, ChatLog |
| fanout (`fanout/manager.py`, `mqtt_base.py`, `routers/fanout.py`) | configuration rows, module table, restart locks, connection loops | update, delete, dispatch, timeout, restart, reconnect | a stop that ends later than the call; reloads and restarts of one module | FanoutManager, MqttPublisher |
| virtual node: messages (`virtual_node/server.py`, `virtual_node_clients.py`) | sessions, inboxes, cursors in memory and in the database | connect, APP_START, replay, pull, delayed write, leave | replay beside live messages; two connections of one app; delayed writes | AppInbox |
| virtual node: slots (`virtual_node/server.py`, `virtual_node_channel_slots.py`) | the slot table that apps remember, in memory and in the database | reconcile, bind, clear, channel added or deleted, restart | the lock given back between the table and the channel store; failed writes | AppSlots |
| queued messages, contacts, clock, bots, media, rooms, live feed, web push, codecs, HTTP API | - | - | see section 5 | - |

`PROJECT.json` lists every component with its files, its status and the reason where it
is not modelled, and the hazards at the line where they bite.

How the parts interact: everything that talks to the radio does so inside
`radio_operation`, a first-in first-out lock. The database is behind another such lock.
The connection lifecycle replaces the transport under the same lock and clears what the
channel slots remember; the watchdog calls disconnect and reconnect of the lifecycle.
Stored messages are broadcast to browsers, fanout modules and apps. Two modules are
composed of others: FanoutManager extends MqttPublisher, whose loops its actions start and
cancel, and ChannelMessages extends ChatClient, whose operations its browser applies.

## 2. The modules

Each `X.tla` is a component, `MCX.tla` names the model values and symmetry sets for TLC.
Definitions carry the names of the code's functions where TLA+ allows it. A definition
whose comment starts with "Slip:" is a deliberately wrong variant, used to test that a
property can fail; no specification refers to it. `TypeOK` gives the range of a module's
variables.

### DmDelivery

`row` is the messages table, `pending` and `buffered` are the ACK tracker's dictionaries,
`tracker` is the send tracker. A send or manual retry request `r` is at `reqPc[r]`, the
background run it started at `runPc[r]` with its `attempt`. An expected ACK code is the
pair of a message and an attempt number, which is what the firmware's digest depends on,
so a manual retry reuses the first code as the real one does. `awaited`, `arrived`,
`silenced` and `stranded` are history variables that no guard reads.

A step is what runs between two suspending awaits. Merged awaits, and why nothing can run
in between that matters:
- storing the row, tracking the ACK and registering the run of a new send are one step:
  no user request can load the row before, because its query queues behind
  `update_last_contacted` on the database lock;
- a manual retry's `set_send_state`, tracking and registration, and loading the row and
  cancelling the tracked task in a cancel or delete, likewise;
- taking the radio lock, `add_contact` and `send_msg` are the step Transmit, whose answer
  is chosen when it starts; a cancelled task gives the lock back at once.

Ages of ACK codes are abstracted to a nondeterministic Expire. Database errors are not
modelled, and `RadioOperationBusyError` cannot occur in a blocking operation.

### ChannelSlots

`radio` is what the slots really hold, `joined` the channels table, `maps` RadioManager's
four dictionaries, `tasks` the queue of the radio lock with the operation of each waiter.
One behaviour is one connected session and starts from arbitrary slots. A text send plans,
loads and transmits under one hold of the lock. An image send plans before it takes the
lock and gives it back between the load and the blobs, as the code does. A full sync is
three steps (scan, select, write) under one hold, so that channels created or deleted in
between are seen. `Hazards` switches on deletions, lost replies and other clients.

Abstractions: a channel's name and key are one value; `set_channel` and the note that
follows it are one step (only a delete could run between them, and has the same effect
just before); an audit is one step and always a full one; the order of the resident
dictionary is dropped because only the branch that borrows a pinned slot uses it, which
ScratchSlotKept proves dead; failed reads in a scan are left out; other clients do not
write during the write phase of a sync. That phase is one step although the slots are written
one by one: the new residents are installed at its end, the radio is held throughout, and a
create or delete in between has the effect it has just before. A sync starts on a free lock,
as the periodic one does. The sync of the post-connect setup waits for the lock instead and
may come after operations that were queued before it, an image send that has planned its slot
among them; that order is not modelled.

### RadioLink

`mc` is `_meshcore`, `up` its `is_connected`, `open` the ports and sockets really open,
`done` the transport for which `_setup_complete` was set, `keys` the transport whose
private key the keystore holds, and `reconQ`, `setupQ`, `opQ` the three locks with their
waiters. A task whose label is in Running is between two awaits and nothing else moves;
all other labels are suspended. The tasks are startup, the monitor, the watchdog's
calls, HTTP requests and users of `radio_operation`. Faults: a drop, a failed dial, a dial
that yields a dead transport, a failing or timed-out setup, a raising disconnect.

The watchdog probes a radio that is set up and whose lock is free; whether it escalates is
decided when the probe has ended, whatever has become of the link by then.

Abstractions: the I/O of the setup is two steps, the key export and the rest; a probe that
meets the lock between its release and the next waiter is left out; the reboot
endpoint is an operation or a reconnect request; the counter that throttles error
broadcasts and the end of the process are left out; a transport that nothing refers to is
used again, which bounds the set of transports but not the number of dials.

### RxWatchdog

One unit of time is the 30 s check interval. Timestamps are ages that stop growing at
`Timeout` or `Cooldown`, beyond which no comparison in the code tells them apart. The
radio's packet counter is the sign of its difference to the last sample (`gap`), which
includes a counter that started again at zero. `pc` is the watchdog: asleep, at a tick,
waiting for a probe, closing, dialling, waiting for the setup, sending the reboot, closing
after it. A link that is still up because closing it raised is set up again, which restarts
the silence clock. The link is
a coarse view of RadioLink: `up` (connected and set up), `lost`, `down` (torn down, clock
cleared), `setup`. Two speeds are assumed: a lost link is noticed by the 5 s connection
monitor or restored by the library before the next 30 s pass, and a reconnect returns as
soon as the radio is set up.

### ChannelMessages, ChatClient, ChatLog

One text in one channel. All requests fall into one second, so that every sender timestamp
after the first has to be moved; an own message is its timestamp, a message of somebody
else a member of `Foreign`. `rows` is the messages table by its unique index, `req` the
requests of the user, `obs` the frames being processed, `dogs` the echo watchdogs,
`wire` the websocket in order, `http` the responses in any order, `page` the fetch after
a reconnect, which may fail and is not repeated. `socket` is open, down, or mute: the server
gave the connection up after a send that timed out and did not close it, so the browser
neither hears anything nor reconnects. Paths are counted, not listed. ChatClient is the hook
of the browser: the state of the list, the list of the last render (`messagesRef`), which is
what an ACK and a page are matched against, buffered ACK updates and `seenMessageContent`. ChatLog is the
abstract specification of what the user sees: one bubble at a time appears, counts up or
vanishes, and no content appears twice.

Left out: the flood scope, text encoding, direct messages, reactions, the table of raw
packets, other conversations, paging. The conversation is open at its newest end: the branch
of the reconciling fetch for a list that has newer pages to load
(`useConversationMessages.ts:734`) is not modelled.

### FanoutManager, MqttPublisher

A publisher is an object with settings, its connection loop a task that may be cancelled
and ends later. `table` is `_modules`, `locks` the restart locks with their waiters, `act`
the requests (update and delete routes) and handlers (dispatched events). The publisher
has the hooks of the community publisher: it is configured only while the radio's keys are
there, and looks at its token at the periodic wake-up. Each configuration starts enabled.
`raced` remembers a configuration that was deleted while a reload or restart was going on.

A cancelled loop ends, unless its client has lost the connection: closing the client then
raises that error in place of the cancellation, and the loop goes on (LoopOutlives).

Left out: the create route, disabling all bots, `stop_all`, scope matching, error texts and
the other kinds of modules, whose handlers do network I/O.

### AppInbox

`latest` is the newest row of the messages table, `fresh` and `tasks` are the messages on
their way through `on_app_event` and `_enqueue_message`, `rows` is `virtual_node_clients`
and `sess` the ClientSession objects with the position of their coroutine and of their
delayed write. A step is one database call with the code after it. `pulled`, `first` and a
session's `since` are history variables: what an app has taken, where its row began, and
from where on it is owed live messages; `unbuilt` are the messages of which no frame could be
built. Arrivals are of four kinds: a text, a quiet text (stored with `realtime=False`, as
historical decryption does: apps meet it only in a replay), an incoming row that has no frame
for apps, and a row of our own.

Left out: frames of the command line, deleted messages, write locks, the activity trace and
commands other than APP_START and SYNC_NEXT_MESSAGE. The replay is one step; the code
suspends in it only for a channel that has no slot, and if that query fails, the frames built
so far stay in the inbox, which the model leaves out.

### AppSlots

`table` is `_channel_slots`, `stored` its rows in the database, `channels` the channel
store, `lock` the slot lock with its waiters. A task is a command that reads, binds,
clears or sends on a slot, or the reconciliation that follows a channel event. Slots count
from 1, keys are numbers in the order in which the code sorts them. `told` is a history
variable: the key apps know a slot by. It is forgotten where the code cannot keep it: a
deleted channel, a slot an app rebinds, a table that could not be read or written. The OK that an app gets for
SET_CHANNEL does not count as telling it, because of the window named in section 3.
`Seated` is the loop over the new keys in closed form, compared with the loop by TLC.

Names, secrets and contacts are left out.

## 3. What TLC checks

Bounds are named in the modules (`Max...`) and set in the cfg files. Runs expected to
pass:

| run | instance | shows |
|---|---|---|
| `dm_delivery` | 1 message with 2 attempts, 1 manual retry, 1 cancel or delete, 1 restart, fairness | a run that can transmit is the tracked one; no ACK waits beside its registration and none is lost; a clean cancel silences; "sending" is somebody's job; every message settles |
| `slots_reuse` | 3 channels, 3 slots, 2 operations in the queue, 1 refused write | maps match the radio, texts under their own key, one slot free of pins |
| `slots_heal` | 2 channels, 2 slots, a deletion, lost reply or foreign write, fairness | the maps agree with each other at all times, audits bring maps, radio and database together for good |
| `link_life` | 5 tasks, 2 transports, 1 fault of any kind, 2 requests, fairness | one transport, stable under its user, setup flag never stale; a lasting pause releases, a lasting wish ends connected and set up, no lock starves anybody |
| `rx_ladder` | timeout 2, cooldown 18, 3 faults of any kind, busy mesh, fairness | no escalation on a quiet mesh, reconnect before reboot, reboots a cooldown apart, a stall is cleared, an incident closes |
| `chat` | 3 events: requests (2 may overlap), frames (2 may be processed at once), lost or abandoned websockets; echo watchdog | echoes counted exactly, own texts never turn foreign, deleted ones stay off the air; at rest nothing is shown that is not stored, and nothing stored is missing unless a loss of events was not made up for; the browser implements ChatLog |
| `fanout` | 1 configuration, 2 requests, 1 handler that may time out, 1 fault, fairness | no connection loop is lost track of, the module in charge has the stored configuration, no change is slept through; a module in charge connects again once broker and keys stay, every request ends unless a loop outlived its cancellation |
| `app_inbox` | 1 app identity, 2 connections, 3 texts (one quiet) and a row without a frame, inbox of 1, replay of 2, 1 failure, forgetting, stop or crash | the stored cursor never moves back and never passes a message newer than all the app has taken; every connected app is fed what is live; the inbox is bounded |
| `app_slots` | 3 channels, table of 3, 2 tasks, 4 commands, 2 failed calls or restarts | a slot keeps its meaning, no key has two slots, the database has what apps see |

Why the bounds are enough to be interesting: each hazard needs two or three actors, and
each instance lets the shortest wrong behaviour TLC finds for the Slips happen with room to
spare. Two slots give one pinned and one scratch; three give a choice of victim and, in
AppSlots, a table that fills up. A cooldown of 18 intervals leaves room for an incident to
close and a second one to climb the ladder. The replay limit
is above the size of the inbox, as shipped (1000 and 500), and below the number of incoming
rows, so that a replay both skips and overruns. In `chat` the bound is on requests, frames and
lost connections together, which leaves room for a send with two echoes, a send, resend and
delete, or a send between two losses. Sent messages and
reactions (`"own"` rows) are left out of the instance of `app_inbox` and covered by the
proofs about AppInbox.

Deadlock is checked except where requests are finite and really end (DmDelivery,
ChannelMessages, FanoutManager, AppInbox, AppSlots). Symmetry is used only in runs without
liveness.

Fairness. DmDelivery: weak fairness of every task, strong for taking the radio lock, which
asyncio hands out first in first out. ChannelSlots: weak for the operations, strong for the
audit, whose tick recurs and succeeds when it finds the lock free. RadioLink: weak for
every task and the monitor's tick; faults and requests are bounded and not fair.
RxWatchdog: weak for the watchdog, the setup and time; a packet is heard at least once per
timeout only where `BusyMesh` says so (without traffic nothing can be told and the code
rightly does nothing). FanoutManager: weak for every loop, request and handler (a publish
answers or fails); users, faults, events and timeouts may stay away.

Three runs are expected to be violated; the lines they contradict are quoted in the findings
of `PROJECT.json`. In `slots_image_race` an image goes out of a slot that another send has
taken over. In `fanout_stop` the stop of a publisher whose broker dropped the connection waits
for ever for a loop that took the error of the lost connection for a failed attempt and dials
again. In `app_replay` a replay longer than the inbox loses its oldest messages, which the
design note says it does not.

### Limits of the code that the properties leave room for

Each of these was met while modelling, with a behaviour of the model behind it; the
properties above are worded around them.

- *Direct messages.* A cancel while a manual retry waits for the radio
  (`message_send.py:949`) finds no task and does not stop it. A manual retry that supersedes
  a run and then fails leaves the row "sending" with nothing running until a restart.
- *Channel slots.* The late clear of a deleted channel can empty a slot that is in use
  again; a deleted channel left in a slot is imported by the next sync; `Healed` says that
  audits repair the first.
- *Connection.* Health is announced after a setup that did not run; a pause may return with
  the radio's key in the keystore.
- *Watchdog.* A frame that arrives during the probe does not stop the escalation; packets
  heard in an outage between two ticks make it reconnect.
- *Conversation.* An ACK for a message that arrived but is not rendered yet is put aside and
  not applied until the next event or page of that message (`useConversationMessages.ts:889`):
  the bubble may count fewer echoes than the row, which is why ShownIsStored says "at most". A
  reconciling fetch that fails is not repeated, one that meets a list not yet rendered drops
  what was appended meanwhile, and a browser the server gave up (`websocket.py:62`) is not
  told: NothingMissed speaks of the losses that were followed by a page. A page that was read before an echo and arrives after its event takes the
  echo off the screen until the next fetch (`useConversationMessages.ts:241`), which is why
  ChatLogged is checked on a connection that is not lost. Messages deleted while the
  websocket was down stay on the screen. A message deleted and sent again with the same text
  in the same second stays hidden. A delete between the announcement of a message and the
  start of its watchdog does not stop the watchdog. Lists of paths may lag; agreement is
  stated for counts.
- *Fanout.* A delete takes no lock: one that meets a restart between stop and start leaves a
  loop that nothing can stop, one that overlaps a reload leaves a module for a deleted
  configuration. A loop that outlives its cancellation keeps the request that stops it, and
  every later one for that configuration, waiting. An update writes back the configuration it has read, so that a toggle can
  undo a concurrent edit.
- *App inbox.* `_persist_cursor` clears the dirty flag after its await
  (`server.py:774`), so a pull during the write is not persisted on the way out, and the app
  gets that message again. `latest` is read before the inbox is cleared
  (`server.py:728`): a message queued in between for an app that has missed nothing is lost
  once a newer one is pulled. Tasks that queue messages may run out of order, with the same
  effect. Rows stored with `realtime=False` are not fed to connected apps; a replay brings them
  unless a newer message was pulled. A message whose frame cannot be built (a failing slot
  query, `server.py:1055`) is lost for all connected apps. A message stored and not yet queued when the replay runs
  arrives twice; one taken from the inbox is gone if its frame cannot be written.
- *App slots.* SET_CHANNEL stores the channel after it has released the slot lock: a
  reconciliation in between blanks the slot, and the channel ends up in another one.
  Trailing blank slots are not stored, so after a restart a deleted channel's slot may be
  used again before the table is full; a channel displaced by the public one goes to the
  first blank slot.

## 4. What is proved

All theorems hold for every value of the constants that satisfies the named assumptions,
and for behaviours of any length. The proofs have one step or lemma per action.

**Direct messages.** `DmDeliveryProofs`: TypeCorrect, OneTrackedRun, CancelSilences,
AcksMatched, AcksCounted, SendingHasAWorker. RunIsTracked is not inductive:
Inv adds that a run exists only after its request, that the tracker's entry belongs to its
message and that attempts stay below the cap. AcksCounted needs in addition that a code in
the air carries an attempt its request has reached, and that a counted or claimed ACK stays
so until the row is deleted. SendingIsWorkedOn is inductive beside Inv: whatever ends the
request or run at work on a message settles its row, takes its place or strands it.

**Channel slots.** `ChannelSlotsProofs` (with lemmas on each dictionary update):
SlotsTypeCorrect, SlotMapsAgree, ScratchSlotKept, KnownSlotsCoherent (transports that reuse
slots, no deletions, lost replies or other clients) and TextsUnderOwnKey (also on TCP with
deletions and lost replies). Inv adds that the queue holds well-formed operations, that a
running sync has reset the cache, and that the last slot is never pinned, which is what makes
ScratchKept inductive. The conditions of the last two theorems are needed; `slots_heal` shows
what holds without them.

**Connection.** `RadioLinkProofs`: TransportNeverLeaks, TransportStable, SetupNeverStale.
LinkInv adds that a task inside a lock is at the head of its queue (OpHeld, SetupHeld,
ReconHeld), so there is one, that disconnect returns to a known label, and that a dial runs
only without a transport. Each action is an instance of a few kinds of moves (a plain step,
taking, joining or leaving a queue, calling disconnect), whose lemmas carry the invariant.

**App inbox.** `AppInboxProofs`: InboxTypes, AppsResumeFromPulled, AppsAreFed,
CursorsNeverGoBack. ResumesFromPulled speaks of the stored cursor alone and is not
inductive: cursors sit in sessions, in writes under way and in rows. Inv says of each of
them that it is Earned: the client's row began there, the client took a message that far, or
a replay jumped there and then at least ReplayLimit incoming rows lie beyond it
(JumpEarned). What is earned stays earned as messages arrive (EarnedKept), and a write hands
an earned cursor to a row (AdvancedEarned). Inv also says whose cursor a session moves
(Owner, Named), also after its connection has gone and only the delayed write is left.
EveryAppFed is inductive per session (FedWell) once the types are known: a full inbox gives
up its oldest entry and the debt for it in one step.

**Rx watchdog.** `RxWatchdogProofs`: WatchdogTypes, RebootIsSecondRung, RebootsAreApart,
QuietMeshIsLeftAlone. `tried`, `heard` and
`rested` record what happened; the invariants tie them to what the watchdog remembers: a
rung above the first belongs to an open incident in which it has reconnected (Ladder), the
age of the last reboot survives every reset (RebootRemembered), and the count is ahead of
the sample only when a packet was heard since (CountedWasHeard).

**Fanout.** `FanoutProofs`: FanoutInvariant, FanoutTypes, LoopsAreAccountedFor,
ModulesFollowRows, WakeupsAreNotLost. None of LoopsAccounted and TableFollowsRows is
inductive. Inv adds that the queue of each lock holds exactly the tasks inside it and that a
task that stops or starts a module heads it (LocksOK); that this owner knows what is in
charge (Serve); that what is in charge has the stored row or a reload is still to come
(Fresh); that nothing is in charge of a configuration that goes (Gone); and that whoever
stops a module awaits the only loop of it that may run (StopOK). There is one lemma per
action; what a step of one task leaves to the others is stated once and used by all.

**App slots.** `AppSlotsProofs`: SlotsInvariant, SlotTypes, KeysHaveOneSlot,
SlotsKeepTheirMeaning, TableIsDurable. SlotKeepsMeaning is not inductive: across a restart
the table is gone, and what apps know must be found in the database. Inv adds Remembered (a
slot that apps know holds its channel, which exists, in the table and, unless a write
failed, in the database), that whoever saves holds the lock (LockOK), that a table being
saved after a reconciliation has the public channel in no slot but the first (JobOK), and
that an unloaded table is empty (FreshOK). Most of the work is the pure part:
ReconciledClean says that blanking, pinning and seating together leave every key of an
existing channel in one slot and move none but the public channel and the one it displaces.
For that the loop that seats new keys is written in closed form (`Seated`: which key comes
to which slot); MCAppSlots has TLC compare it with the loop itself for every table and set
of new keys of the instance (SeatedIsTheLoop), since what a fold computes is beyond the
prover. TurnsDiffer is the counting argument: no two free slots have the same turn.

Only model-checked: all liveness, since the prover does not do fairness (SendSettles of
DmDelivery, Healed of ChannelSlots, PauseDisconnects, Recovers and NoStarvation of RadioLink,
StallCleared and IncidentCloses of RxWatchdog, ModuleReconnects and RequestsEnd of
FanoutManager), SeatedIsTheLoop, every property of ChannelMessages with the refinement
ChatLogged, and what the limits in section 3 name.

## 5. Not modelled

Because it is I/O, a codec, a view or data: web push, image and text codecs, the rest of
the frontend, the bot library, migrations, request parsing, live feed, packaging.

Because it shares no state with what is modelled beyond the radio lock, or is a sequence of
single commands under it: periodic telemetry and statistics, rooms and repeaters, radio
settings, clock synchronisation (rules over clock readings).

Historical decryption is a job over stored packets; its effect on what is modelled is the
rows it stores with `realtime=False`, which are the quiet arrivals of AppInbox. In
ChannelMessages these rows are not distinguished from others that are heard.

Because it would need state these models abstract from:

- *queued messages*: which channel a message queued before a reconnect is stored under
  depends on the history of the radio's slots, which ChannelSlots reduces to their present
  content;
- *contacts*: offload and refill move whole contact tables whose order and age decide;
- *bots*: the engine's queues run user programs;
- *media*: reassembly depends on the sizes and checksums of fragments;
- *virtual node*: forwarded commands with their cached answers, and the window in which a
  repeated direct message is taken for a retry, depend on payload bytes and on the radio's
  answers to each kind of command.
