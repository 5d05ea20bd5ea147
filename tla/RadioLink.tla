----------------------------- MODULE RadioLink -----------------------------
(***************************************************************************)
(* The life of the connection to the radio: RadioManager.connect,          *)
(* disconnect, reconnect, pause and resume, the post-connect setup, the    *)
(* connection monitor, and the tasks that call them: startup, HTTP         *)
(* requests of the operator, the RX silence watchdog, radio operations.    *)
(*                                                                         *)
(* All tasks share one event loop.  A task whose label is in Running is    *)
(* between two awaits and nothing else runs; a task at any other label is  *)
(* suspended.  The three asyncio locks are first-in first-out queues whose *)
(* head holds the lock, or has been woken to take it.                      *)
(***************************************************************************)
EXTENDS Naturals, Sequences

CONSTANTS
  Startup, Monitor, Watchdog,  \* the background tasks
  Operators,                   \* HTTP requests of the operator
  Users,                       \* tasks that use the radio through radio_operation
  Faults,                      \* which of "drop", "dial", "dead", "setup", "timeout", "close" happen
  MaxFaults,                   \* bound: faults
  MaxAsks,                     \* bound: requests, escalations and operations
  Transports,                  \* MeshCore instances; one nothing refers to is used again
  None

Tasks == {Startup, Monitor, Watchdog} \cup Operators \cup Users

ASSUME TasksAssumption ==
  /\ Startup # Monitor /\ Startup # Watchdog /\ Monitor # Watchdog
  /\ {Startup, Monitor, Watchdog} \cap (Operators \cup Users) = {}
  /\ Operators \cap Users = {}
ASSUME BoundsAssumption ==
  /\ Faults \subseteq {"drop", "dial", "dead", "setup", "timeout", "close"}
  /\ MaxFaults \in Nat /\ MaxAsks \in Nat
  /\ None \notin Transports

VARIABLES
  desired,  \* _connection_desired
  last,     \* _last_connected
  said,     \* the last health broadcast: connected, and was setup complete
  mc,       \* _meshcore
  up,       \* _meshcore.is_connected
  auto,     \* auto_reconnect of the library's connection manager
  open,     \* transports whose port or socket is open
  done,     \* _setup_complete: the transport it was set for, None for False
  busy,     \* _setup_in_progress
  keys,     \* the transport whose private key the keystore holds, if any
  reconQ, setupQ, opQ,  \* _reconnect_lock, _setup_lock, _operation_lock
  pc,       \* where each task is
  back,     \* where its call of disconnect() returns to
  tries,    \* setup attempt of prepare_connected_radio
  held,     \* the transport the task took a reference to under the lock
  faults, asks

wishVars == <<desired, last, said>>
linkVars == <<mc, up, auto, open>>
setupVars == <<done, busy>>
lockVars == <<reconQ, setupQ, opQ>>
taskVars == <<pc, back, tries, held>>
boundVars == <<faults, asks>>
vars == <<wishVars, linkVars, setupVars, keys, lockVars, taskVars, boundVars>>

Running == {"rc_got", "rc_connect", "rc_dialed", "rc_no", "pr_start", "su_call",
            "su_got", "suop_got", "pr_after", "di_got", "pa_done", "wd_seen", "wd_rc",
            "op_got", "rb_got"}
Suspended == {"idle", "sleep", "boot", "rc_wait", "rc_dial", "su_wait", "suop_wait",
              "su_export", "su_sync", "di_stop", "di_wait", "di_close", "op_wait",
              "op_run", "wd_run", "rb_wait", "rb_run"}

\* Nothing else is between two awaits: the loop may resume t.
Loop(t) == \A u \in Tasks \ {t} : pc[u] \notin Running

Connected == mc # None /\ up

Rest(t) == IF t = Monitor THEN "sleep" ELSE "idle"

Init ==
  /\ desired = TRUE /\ last = FALSE /\ said = [up |-> FALSE, ready |-> FALSE]
  /\ mc = None /\ up = FALSE /\ auto = FALSE /\ open = {}
  /\ done = None /\ busy = FALSE /\ keys = None
  /\ reconQ = << >> /\ setupQ = << >> /\ opQ = << >>
  /\ pc = [t \in Tasks |-> IF t = Startup THEN "boot" ELSE Rest(t)]
  /\ back = [t \in Tasks |-> "idle"]
  /\ tries = [t \in Tasks |-> 0]
  /\ held = [t \in Tasks |-> None]
  /\ faults = 0 /\ asks = 0

\* A task moves on with its local state, which ends with the call it belongs to.
Move(t, label, ret, try, ref) ==
  /\ pc' = [pc EXCEPT ![t] = label]
  /\ back' = [back EXCEPT ![t] = ret]
  /\ tries' = [tries EXCEPT ![t] = try]
  /\ held' = [held EXCEPT ![t] = ref]

Goto(t, label) == Move(t, label, back[t], tries[t], held[t])
Take(t, label) == Move(t, label, back[t], tries[t], mc)
Release(t, label) == Move(t, label, back[t], tries[t], None)
Return(t, label) == Move(t, label, "idle", 0, None)
Finish(t) == Return(t, Rest(t))

\* Where asyncio.Lock.acquire leaves its caller: a free lock is taken at once.
Entered(q, wait, got) == IF q = << >> THEN got ELSE wait

\* Lock.locked(): false between a release and the run of the waiter it woke.
ReconnectLocked == reconQ # << >> /\ pc[Head(reconQ)] # "rc_wait"

Fault(kind) == kind \in Faults /\ faults < MaxFaults /\ faults' = faults + 1

-----------------------------------------------------------------------------
(* RadioManager.disconnect.                                                *)

\* The call, up to its first await; label is where it returns to.
CallDisconnect(t, label) ==
  /\ keys' = None
  /\ IF mc = None THEN Return(t, label) ELSE Move(t, "di_stop", label, 0, None)

\* The caller's next label when disconnect raises: connect() lets it through to
\* reconnect's handler, the HTTP request fails, every other caller goes on or ends.
Raised(t) ==
  CASE back[t] = "rc_dial" -> "rc_no"
    [] back[t] = "pa_done" -> Rest(t)
    [] OTHER -> back[t]

\* Slip: the transport is torn down under whoever is using it.
DisconnectQueueUnlocked(t) ==
  /\ pc[t] = "di_stop" /\ Loop(t)
  /\ opQ' = <<t>> \o opQ
  /\ Goto(t, "di_got")
  /\ UNCHANGED <<wishVars, linkVars, setupVars, keys, reconQ, setupQ, boundVars>>

\* The background contact reconciliation has stopped.
DisconnectQueue(t) ==
  /\ pc[t] = "di_stop" /\ Loop(t)
  /\ opQ' = Append(opQ, t)
  /\ Goto(t, Entered(opQ, "di_wait", "di_got"))
  /\ UNCHANGED <<wishVars, linkVars, setupVars, keys, reconQ, setupQ, boundVars>>

\* Nothing left to close, or the library's own reconnects are switched off first.
DisconnectLocked(t) ==
  /\ pc[t] = "di_got"
  /\ IF mc = None
     THEN /\ opQ' = Tail(opQ) /\ Return(t, back[t])
          /\ UNCHANGED auto
     ELSE /\ auto' = FALSE /\ Take(t, "di_close")
          /\ UNCHANGED opQ
  /\ UNCHANGED <<wishVars, mc, up, open, setupVars, keys, reconQ, setupQ, boundVars>>

\* Slip: what was known about the old connection is kept.
DisconnectClosedKeepingSetup(t) ==
  /\ pc[t] = "di_close" /\ Loop(t)
  /\ open' = open \ {held[t]} /\ up' = FALSE
  /\ mc' = IF mc = held[t] THEN None ELSE mc
  /\ opQ' = Tail(opQ) /\ Return(t, back[t])
  /\ UNCHANGED <<wishVars, auto, setupVars, keys, reconQ, setupQ, boundVars>>

DisconnectClosed(t) ==
  /\ pc[t] = "di_close" /\ Loop(t)
  /\ open' = open \ {held[t]} /\ up' = FALSE
  /\ mc' = IF mc = held[t] THEN None ELSE mc
  /\ done' = None
  /\ opQ' = Tail(opQ) /\ Return(t, back[t])
  /\ UNCHANGED <<wishVars, auto, busy, keys, reconQ, setupQ, boundVars>>

\* Slip: the reference is dropped although closing failed.
DisconnectFailsForgetting(t) ==
  /\ pc[t] = "di_close" /\ Loop(t)
  /\ Fault("close")
  /\ mc' = None /\ up' = FALSE /\ done' = None
  /\ opQ' = Tail(opQ) /\ Return(t, Raised(t))
  /\ UNCHANGED <<wishVars, auto, open, busy, keys, reconQ, setupQ, asks>>

\* The library's disconnect raises: the reference and the runtime state stay.
DisconnectFails(t) ==
  /\ pc[t] = "di_close" /\ Loop(t)
  /\ Fault("close")
  /\ up' \in {up, FALSE}
  /\ opQ' = Tail(opQ) /\ Return(t, Raised(t))
  /\ UNCHANGED <<wishVars, mc, auto, open, setupVars, keys, reconQ, setupQ, asks>>

Disconnect(t) ==
  DisconnectQueue(t) \/ DisconnectLocked(t) \/ DisconnectClosed(t) \/ DisconnectFails(t)

-----------------------------------------------------------------------------
(* RadioManager.reconnect and connect.                                     *)

CallReconnect(t) ==
  /\ reconQ' = Append(reconQ, t)
  /\ Goto(t, Entered(reconQ, "rc_wait", "rc_got"))

\* Under the lock: paused, already connected, or a stale transport to close first.
ReconnectLockedRun(t) ==
  /\ pc[t] = "rc_got"
  /\ \/ /\ ~desired
        /\ Goto(t, "rc_no") /\ UNCHANGED <<keys, reconQ>>
     \/ /\ desired /\ Connected
        /\ reconQ' = Tail(reconQ) /\ Goto(t, "pr_start") /\ UNCHANGED keys
     \/ /\ desired /\ ~Connected /\ mc # None
        /\ CallDisconnect(t, "rc_connect") /\ UNCHANGED reconQ
     \/ /\ desired /\ mc = None
        /\ Goto(t, "rc_connect") /\ UNCHANGED <<keys, reconQ>>
  /\ UNCHANGED <<wishVars, linkVars, setupVars, setupQ, opQ, boundVars>>

\* connect() closes a transport that is still there before it opens one.
Connect(t) ==
  /\ pc[t] = "rc_connect"
  /\ \/ mc # None /\ CallDisconnect(t, "rc_dial")
     \/ mc = None /\ Goto(t, "rc_dial") /\ UNCHANGED keys
  /\ UNCHANGED <<wishVars, linkVars, setupVars, lockVars, boundVars>>

\* Instances nothing refers to.
Fresh == Transports \ (open \cup {mc, done, keys} \cup {held[u] : u \in Tasks})

\* MeshCore.create_* answers: a live transport, or one that is already dead.
Dialed(t, alive) ==
  /\ pc[t] = "rc_dial" /\ Loop(t)
  /\ IF alive THEN UNCHANGED faults ELSE Fault("dead")
  /\ \E new \in Fresh : mc' = new /\ open' = open \cup {new}
  /\ up' = alive /\ auto' = TRUE
  /\ last' = TRUE /\ done' = None
  /\ Goto(t, "rc_dialed")
  /\ UNCHANGED <<desired, said, busy, keys, lockVars, asks>>

DialFails(t) ==
  /\ pc[t] = "rc_dial" /\ Loop(t)
  /\ Fault("dial")
  /\ Goto(t, "rc_no")
  /\ UNCHANGED <<wishVars, linkVars, setupVars, keys, lockVars, asks>>

\* A pause that came while dialling wins.
ReconnectDialed(t) ==
  /\ pc[t] = "rc_dialed"
  /\ \/ /\ ~desired
        /\ CallDisconnect(t, "rc_no") /\ UNCHANGED reconQ
     \/ /\ desired /\ up
        /\ reconQ' = Tail(reconQ) /\ Goto(t, "pr_start") /\ UNCHANGED keys
     \/ /\ desired /\ ~up
        /\ Goto(t, "rc_no") /\ UNCHANGED <<keys, reconQ>>
  /\ UNCHANGED <<wishVars, linkVars, setupVars, setupQ, opQ, boundVars>>

\* Slip: the lock is only released on success.
ReconnectEndsLocked(t) ==
  /\ pc[t] = "rc_no"
  /\ Finish(t)
  /\ UNCHANGED <<wishVars, linkVars, setupVars, keys, lockVars, boundVars>>

\* reconnect() returns False: its caller is done.
ReconnectEnds(t) ==
  /\ pc[t] = "rc_no"
  /\ reconQ' = Tail(reconQ) /\ Finish(t)
  /\ UNCHANGED <<wishVars, linkVars, setupVars, keys, setupQ, opQ, boundVars>>

Reconnect(t) ==
  \/ ReconnectLockedRun(t) \/ Connect(t) \/ Dialed(t, TRUE) \/ Dialed(t, FALSE)
  \/ DialFails(t) \/ ReconnectDialed(t) \/ ReconnectEnds(t)

-----------------------------------------------------------------------------
(* prepare_connected_radio and run_post_connect_setup.                     *)

\* The two looks at connection_desired, before and after the setup.
PausedOut(t) ==
  /\ ~desired
  /\ IF Connected
     THEN CallDisconnect(t, Rest(t))
     ELSE Finish(t) /\ UNCHANGED keys

PrepareStart(t) ==
  /\ pc[t] = "pr_start"
  /\ \/ PausedOut(t)
     \/ /\ desired
        /\ Move(t, "su_call", back[t], 1, held[t]) /\ UNCHANGED keys
  /\ UNCHANGED <<wishVars, linkVars, setupVars, lockVars, boundVars>>

\* Without a transport setup returns as if it had run.
SetupCall(t) ==
  /\ pc[t] = "su_call"
  /\ \/ mc = None /\ Goto(t, "pr_after") /\ UNCHANGED setupQ
     \/ /\ mc # None
        /\ setupQ' = Append(setupQ, t)
        /\ Goto(t, Entered(setupQ, "su_wait", "su_got"))
  /\ UNCHANGED <<wishVars, linkVars, setupVars, keys, reconQ, opQ, boundVars>>

SetupBody(t) ==
  /\ pc[t] = "su_got"
  /\ \/ /\ mc = None
        /\ setupQ' = Tail(setupQ) /\ Goto(t, "pr_after") /\ UNCHANGED <<done, busy, opQ>>
     \/ /\ mc # None
        /\ busy' = TRUE /\ done' = None
        /\ opQ' = Append(opQ, t)
        /\ Goto(t, Entered(opQ, "suop_wait", "suop_got"))
        /\ UNCHANGED setupQ
  /\ UNCHANGED <<wishVars, linkVars, keys, reconQ, boundVars>>

SetupLocked(t) ==
  /\ pc[t] = "suop_got"
  /\ \/ /\ mc = None
        /\ opQ' = Tail(opQ) /\ setupQ' = Tail(setupQ) /\ busy' = FALSE
        /\ Goto(t, "pr_after")
     \/ /\ mc # None
        /\ Take(t, "su_export") /\ UNCHANGED <<opQ, setupQ, busy>>
  /\ UNCHANGED <<wishVars, linkVars, done, keys, reconQ, boundVars>>

\* The key is stored, unless the firmware refuses to export it.
SetupExport(t) ==
  /\ pc[t] = "su_export" /\ Loop(t)
  /\ keys' \in {keys, held[t]}
  /\ Goto(t, "su_sync")
  /\ UNCHANGED <<wishVars, linkVars, setupVars, lockVars, boundVars>>

\* Clock, device info, flood scope, offload, advert, drain, auto-fetch; the flag is
\* set in the same run of the loop that releases the lock.
SetupSync(t) ==
  /\ pc[t] = "su_sync" /\ Loop(t)
  /\ opQ' = Tail(opQ) /\ setupQ' = Tail(setupQ)
  /\ busy' = FALSE /\ done' = held[t]
  /\ Release(t, "pr_after")
  /\ UNCHANGED <<wishVars, linkVars, keys, reconQ, boundVars>>

SetupFails(t) ==
  /\ pc[t] \in {"su_export", "su_sync"} /\ Loop(t)
  /\ Fault("setup")
  /\ opQ' = Tail(opQ) /\ setupQ' = Tail(setupQ) /\ busy' = FALSE
  /\ Finish(t)
  /\ UNCHANGED <<wishVars, linkVars, done, keys, reconQ, asks>>

DropAt(q, i) == [j \in 1..(Len(q) - 1) |-> IF j < i THEN q[j] ELSE q[j + 1]]

\* wait_for cancels the setup wherever it is, also in the queue for the radio;
\* prepare_connected_radio tries once more.
SetupTimesOut(t) ==
  /\ pc[t] \in {"suop_wait", "su_export", "su_sync"} /\ Loop(t)
  /\ Fault("timeout")
  /\ \E i \in 1..Len(opQ) : opQ[i] = t /\ opQ' = DropAt(opQ, i)
  /\ setupQ' = Tail(setupQ) /\ busy' = FALSE
  /\ IF tries[t] = 1 THEN Move(t, "su_call", back[t], 2, None) ELSE Finish(t)
  /\ UNCHANGED <<wishVars, linkVars, done, keys, reconQ, asks>>

PrepareEnds(t) ==
  /\ pc[t] = "pr_after"
  /\ \/ PausedOut(t) /\ UNCHANGED <<last, said>>
     \/ /\ desired
        /\ last' = TRUE /\ said' = [up |-> TRUE, ready |-> done # None]
        /\ Finish(t) /\ UNCHANGED keys
  /\ UNCHANGED <<desired, linkVars, setupVars, lockVars, boundVars>>

Prepare(t) ==
  \/ PrepareStart(t) \/ SetupCall(t) \/ SetupBody(t) \/ SetupLocked(t) \/ SetupExport(t)
  \/ SetupSync(t) \/ SetupFails(t) \/ SetupTimesOut(t) \/ PrepareEnds(t)

-----------------------------------------------------------------------------
(* Locks: the head of a queue wakes.                                       *)

\* The lock t waits for is handed to it.
WaitingFor(q, wait, got, t) ==
  /\ pc[t] = wait /\ Loop(t)
  /\ q # << >> /\ Head(q) = t
  /\ Goto(t, got)
  /\ UNCHANGED <<wishVars, linkVars, setupVars, keys, lockVars, boundVars>>

Wake(t) ==
  \/ WaitingFor(reconQ, "rc_wait", "rc_got", t)
  \/ WaitingFor(setupQ, "su_wait", "su_got", t)
  \/ WaitingFor(opQ, "suop_wait", "suop_got", t)
  \/ WaitingFor(opQ, "di_wait", "di_got", t)
  \/ WaitingFor(opQ, "op_wait", "op_got", t)
  \/ WaitingFor(opQ, "rb_wait", "rb_got", t)

-----------------------------------------------------------------------------
(* connection_monitor_loop.                                                *)

\* A lost connection is announced once.
Noticed == last /\ ~Connected
Announce ==
  /\ last' = (last /\ ~Noticed)
  /\ said' = IF Noticed THEN [up |-> FALSE, ready |-> FALSE] ELSE said

\* Slip: a paused monitor only stops reconnecting.
MonitorPausedPassive ==
  /\ ~desired
  /\ UNCHANGED <<taskVars, keys, reconQ>>

\* What a look at the flags leads to; the look and the first step are one run.
MonitorPaused ==
  /\ ~desired
  /\ IF Connected
     THEN CallDisconnect(Monitor, "sleep")
     ELSE UNCHANGED <<taskVars, keys>>
  /\ UNCHANGED reconQ

MonitorReconnects ==
  /\ desired /\ ~Connected
  /\ IF ReconnectLocked THEN UNCHANGED <<taskVars, reconQ>> ELSE CallReconnect(Monitor)
  /\ UNCHANGED keys

\* Slip: an unfinished setup is not tried again.
MonitorPreparesOnce ==
  /\ desired /\ Connected
  /\ IF ~last THEN Goto(Monitor, "pr_start") ELSE UNCHANGED taskVars
  /\ UNCHANGED <<keys, reconQ>>

MonitorPrepares ==
  /\ desired /\ Connected
  /\ IF ~last \/ (done = None /\ ~busy) THEN Goto(Monitor, "pr_start") ELSE UNCHANGED taskVars
  /\ UNCHANGED <<keys, reconQ>>

MonitorTick ==
  /\ pc[Monitor] = "sleep" /\ Loop(Monitor)
  /\ Announce
  /\ MonitorPaused \/ MonitorReconnects \/ MonitorPrepares
  /\ UNCHANGED <<desired, linkVars, setupVars, setupQ, opQ, boundVars>>

-----------------------------------------------------------------------------
(* The other callers.                                                      *)

Boot ==
  /\ pc[Startup] = "boot" /\ Loop(Startup)
  /\ CallReconnect(Startup)
  /\ UNCHANGED <<wishVars, linkVars, setupVars, keys, setupQ, opQ, boundVars>>

Ask(t) == pc[t] = "idle" /\ Loop(t) /\ asks < MaxAsks /\ asks' = asks + 1

\* POST /radio/disconnect.
Pause(t) ==
  /\ Ask(t)
  /\ desired' = FALSE /\ last' = FALSE
  /\ CallDisconnect(t, "pa_done")
  /\ UNCHANGED <<said, linkVars, setupVars, lockVars, faults>>

PauseEnds(t) ==
  /\ pc[t] = "pa_done"
  /\ said' = [up |-> FALSE, ready |-> FALSE]
  /\ Finish(t)
  /\ UNCHANGED <<desired, last, linkVars, setupVars, keys, lockVars, boundVars>>

\* POST /radio/reconnect: retry the setup of a live connection, else resume.
AskReconnect(t) ==
  /\ Ask(t)
  /\ \/ /\ Connected /\ done = None
        /\ Goto(t, "pr_start") /\ UNCHANGED <<desired, reconQ>>
     \/ /\ ~Connected
        /\ desired' = TRUE
        /\ IF ReconnectLocked THEN UNCHANGED <<taskVars, reconQ>> ELSE CallReconnect(t)
  /\ UNCHANGED <<last, said, linkVars, setupVars, keys, setupQ, opQ, faults>>

\* The watchdog of a radio that is set up finds the lock free and asks for its counters.
WatchdogProbes ==
  /\ Ask(Watchdog) /\ Connected /\ done # None /\ opQ = << >>
  /\ opQ' = Append(opQ, Watchdog) /\ Take(Watchdog, "wd_run")
  /\ UNCHANGED <<wishVars, linkVars, setupVars, keys, reconQ, setupQ, faults>>

ProbeEnds ==
  /\ pc[Watchdog] = "wd_run" /\ Loop(Watchdog)
  /\ opQ' = Tail(opQ) /\ Release(Watchdog, "wd_seen")
  /\ UNCHANGED <<wishVars, linkVars, setupVars, keys, reconQ, setupQ, boundVars>>

\* Nothing to be done about the answer.
ProbeCalm ==
  /\ pc[Watchdog] = "wd_seen"
  /\ Finish(Watchdog)
  /\ UNCHANGED <<wishVars, linkVars, setupVars, keys, lockVars, boundVars>>

\* The push path is stalled: reconnect, or reboot, whatever the link is by now.
EscalateReconnect ==
  /\ pc[Watchdog] = "wd_seen"
  /\ CallDisconnect(Watchdog, "wd_rc")
  /\ UNCHANGED <<wishVars, linkVars, setupVars, lockVars, boundVars>>

WatchdogReconnects ==
  /\ pc[Watchdog] = "wd_rc"
  /\ CallReconnect(Watchdog)
  /\ UNCHANGED <<wishVars, linkVars, setupVars, keys, setupQ, opQ, boundVars>>

EscalateReboot ==
  /\ pc[Watchdog] = "wd_seen"
  /\ opQ' = Append(opQ, Watchdog)
  /\ Goto(Watchdog, Entered(opQ, "rb_wait", "rb_got"))
  /\ UNCHANGED <<wishVars, linkVars, setupVars, keys, reconQ, setupQ, boundVars>>

\* A radio that is gone cannot be rebooted; the link is closed either way.
RebootLocked ==
  /\ pc[Watchdog] = "rb_got"
  /\ IF mc = None
     THEN /\ opQ' = Tail(opQ) /\ CallDisconnect(Watchdog, "idle")
     ELSE /\ Take(Watchdog, "rb_run") /\ UNCHANGED <<opQ, keys>>
  /\ UNCHANGED <<wishVars, linkVars, setupVars, reconQ, setupQ, boundVars>>

RebootSent ==
  /\ pc[Watchdog] = "rb_run" /\ Loop(Watchdog)
  /\ opQ' = Tail(opQ)
  /\ CallDisconnect(Watchdog, "idle")
  /\ UNCHANGED <<wishVars, linkVars, setupVars, reconQ, setupQ, boundVars>>

\* radio_operation.
Operation(t) ==
  /\ Ask(t)
  /\ opQ' = Append(opQ, t)
  /\ Goto(t, Entered(opQ, "op_wait", "op_got"))
  /\ UNCHANGED <<wishVars, linkVars, setupVars, keys, reconQ, setupQ, faults>>

\* The reference is read after the lock was taken.
OperationLocked(t) ==
  /\ pc[t] = "op_got"
  /\ IF mc = None
     THEN opQ' = Tail(opQ) /\ Finish(t)
     ELSE Take(t, "op_run") /\ UNCHANGED opQ
  /\ UNCHANGED <<wishVars, linkVars, setupVars, keys, reconQ, setupQ, boundVars>>

OperationEnds(t) ==
  /\ pc[t] = "op_run" /\ Loop(t)
  /\ opQ' = Tail(opQ) /\ Finish(t)
  /\ UNCHANGED <<wishVars, linkVars, setupVars, keys, reconQ, setupQ, boundVars>>

-----------------------------------------------------------------------------
(* The link itself.                                                        *)

Quiet == \A t \in Tasks : pc[t] \notin Running

LinkDrops ==
  /\ Quiet /\ Connected
  /\ Fault("drop")
  /\ up' = FALSE
  /\ UNCHANGED <<wishVars, mc, auto, open, setupVars, keys, lockVars, taskVars, asks>>

\* The library's own reconnect.
LinkRestored ==
  /\ Quiet /\ mc # None /\ ~up /\ auto
  /\ up' = TRUE
  /\ UNCHANGED <<wishVars, mc, auto, open, setupVars, keys, lockVars, taskVars, boundVars>>

-----------------------------------------------------------------------------
\* A task goes on with what it is doing.
Continue(t) ==
  \/ Wake(t) \/ Disconnect(t) \/ Reconnect(t) \/ Prepare(t)
  \/ PauseEnds(t) \/ OperationLocked(t) \/ OperationEnds(t)

Background ==
  \/ Boot \/ ProbeEnds \/ ProbeCalm \/ EscalateReconnect \/ WatchdogReconnects
  \/ EscalateReboot \/ RebootLocked \/ RebootSent

Next ==
  \/ \E t \in Tasks : Continue(t)
  \/ MonitorTick \/ Background
  \/ \E t \in Operators : Pause(t) \/ AskReconnect(t)
  \/ WatchdogProbes
  \/ \E t \in Users : Operation(t)
  \/ LinkDrops \/ LinkRestored

Spec == Init /\ [][Next]_vars

\* Every task that can run is run; nothing makes a request, an operation or the
\* library's own reconnect happen.
FairSpec ==
  /\ Spec
  /\ \A t \in Tasks : WF_vars(Continue(t))
  /\ WF_vars(MonitorTick) /\ WF_vars(Background)

-----------------------------------------------------------------------------
TypeOK ==
  /\ desired \in BOOLEAN /\ last \in BOOLEAN
  /\ said \in [up: BOOLEAN, ready: BOOLEAN]
  /\ mc \in Transports \cup {None} /\ up \in BOOLEAN /\ auto \in BOOLEAN
  /\ open \subseteq Transports
  /\ done \in Transports \cup {None} /\ busy \in BOOLEAN
  /\ keys \in Transports \cup {None}
  /\ reconQ \in Seq(Tasks) /\ setupQ \in Seq(Tasks) /\ opQ \in Seq(Tasks)
  /\ pc \in [Tasks -> Running \cup Suspended]
  /\ back \in [Tasks -> Running \cup Suspended]
  /\ tries \in [Tasks -> 0..2]
  /\ held \in [Tasks -> Transports \cup {None}]
  /\ faults \in 0..MaxFaults /\ asks \in 0..MaxAsks

\* No two transports are ever open at once, and the open one is the one the manager
\* knows: whatever the order of reconnects, pauses, escalations and failed
\* teardowns, connect() never loses a port it opened.
OneTransport == open \subseteq {mc} \ {None}

\* Whoever took a reference to the transport under the operation lock keeps using the
\* current one: no reconnect swaps _meshcore under an operation or a setup.
Using == {"su_export", "su_sync", "di_close", "op_run", "wd_run", "rb_run"}
StableWhileHeld == \A t \in Tasks : pc[t] \in Using => held[t] = mc /\ mc # None

\* _setup_complete speaks of the current transport: a setup ran to its end on it.
SetupForCurrent == done # None => done = mc

\* Even when closing the transport fails on the way, a paused radio ends up
\* disconnected: the monitor tries again.
PauseDisconnects == <>[]~desired => <>[]~Connected

\* If the operator wants a connection and the radio stops failing, the link ends up
\* connected, set up and announced, whatever drops, failed setups, timeouts, pauses
\* and escalations came before.
Recovers == <>[]desired => <>[](Connected /\ done # None /\ said = [up |-> TRUE, ready |-> TRUE])

\* Nobody waits forever for one of the three locks.
Waiting == {"rc_wait", "su_wait", "suop_wait", "di_wait", "op_wait", "rb_wait"}
NoStarvation == \A t \in Tasks : []<>(pc[t] \notin Waiting)
=============================================================================
