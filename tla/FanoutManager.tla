---------------------------- MODULE FanoutManager ----------------------------
(* FanoutManager and the routes that change its configurations: which module object   *)
(* serves a configuration, while updates, deletes, and handlers that time out stop    *)
(* and start modules.  A module is an MQTT publisher (MqttPublisher).  An action is   *)
(* what one task does between two awaits.                                             *)
EXTENDS MqttPublisher, FiniteSets

CONSTANTS
  NConfigs,     \* fanout configurations
  Requests,     \* HTTP requests that may overlap
  Handlers,     \* events that may be dispatched at the same time
  MaxAsks,      \* bound: requests
  MaxTimeouts   \* bound: handlers that time out

ASSUME FanoutAssumption ==
  /\ NConfigs \in Nat /\ MaxAsks \in Nat /\ MaxTimeouts \in Nat /\ MaxFaults \in Nat
  /\ Requests \cap Handlers = {}
  /\ None \notin Nat /\ None \notin [enabled : BOOLEAN \cup {None}, ver : Nat]

Configs == 1..NConfigs
Actors == Requests \cup Handlers

VARIABLES
  rows,      \* the fanout_configs table
  table,     \* _modules: the publisher that serves a configuration
  locks,     \* _restart_locks: who holds the lock, and who waits for it
  act,       \* where each request and handler is
  asks, timeouts,
  raced      \* history: configurations deleted while a reload or restart was going on

managerVars == <<rows, table, locks, act>>
countVars == <<asks, timeouts>>
vars == <<mqttVars, managerVars, countVars, raced>>

Idle == [pc |-> "idle", kind |-> "none", config |-> None, arg |-> None, pub |-> None,
         awaits |-> None]

\* load_from_db: one publisher for each enabled configuration.
Init ==
  /\ pubs = [c \in Configs |-> [Publisher(c, 0) EXCEPT !.task = c]]
  /\ loops = [c \in Configs |-> NewLoop(c)]
  /\ table = [c \in Configs |-> c]
  /\ live = {} /\ broker = TRUE /\ keys = TRUE /\ faults = 0
  /\ rows = [c \in Configs |-> [enabled |-> TRUE, ver |-> 0]]
  /\ locks = [c \in Configs |-> << >>]
  /\ act = [a \in Actors |-> Idle]
  /\ asks = 0 /\ timeouts = 0 /\ raced = {}

Holds(a) == locks[act[a].config] # << >> /\ Head(locks[act[a].config]) = a
Queued(a, c) == locks' = [locks EXCEPT ![c] = Append(@, a)]
Released(c) == locks' = [locks EXCEPT ![c] = Tail(@)]
ToPc(a, label) == act' = [act EXCEPT ![a].pc = label]
Done(a) == act' = [act EXCEPT ![a] = Idle]

Enabled(c) == rows[c] # None /\ rows[c].enabled
Deleting(c) == \E r \in Requests : act[r].kind = "delete" /\ act[r].config = c

-----------------------------------------------------------------------------
(* update_fanout_config: "edit" gives a new configuration, "toggle" enables or        *)
(* disables and writes back the configuration it has read.                            *)

AskUpdate(r, c, kind) ==
  /\ act[r].pc = "idle" /\ asks < MaxAsks /\ rows[c] # None
  /\ asks' = asks + 1
  /\ act' = [act EXCEPT ![r] = [Idle EXCEPT !.pc = "write", !.kind = kind, !.config = c,
               !.arg = IF kind = "edit" THEN [enabled |-> None, ver |-> asks + 1]
                       ELSE [rows[c] EXCEPT !.enabled = ~@]]]
  /\ UNCHANGED <<mqttVars, rows, table, locks, timeouts, raced>>

\* 404 when the row is gone; otherwise reload_config, which takes the lock.
WriteRow(r) ==
  LET c == act[r].config
      new == act[r].arg
  IN  /\ act[r].pc = "write"
      /\ IF rows[c] = None
         THEN Done(r) /\ UNCHANGED <<rows, locks, raced>>
         ELSE /\ rows' = [rows EXCEPT ![c] = IF new.enabled = None
                                             THEN [@ EXCEPT !.ver = new.ver] ELSE new]
              /\ Queued(r, c) /\ ToPc(r, "reload")
              /\ raced' = IF Deleting(c) THEN raced \cup {c} ELSE raced
      /\ UNCHANGED <<mqttVars, table, countVars>>

\* remove_config by an actor in this state, up to the await of stop.
Remove(a, state, c, label) ==
  /\ table' = [table EXCEPT ![c] = None]
  /\ IF table[c] = None
     THEN /\ act' = [act EXCEPT ![a] = [state EXCEPT !.pc = label]]
          /\ UNCHANGED loops
     ELSE /\ StopBegins(a, table[c])
          /\ act' = [act EXCEPT ![a] = [state EXCEPT !.pc = "stopping", !.pub = table[c],
                                                     !.awaits = Awaited(table[c])]]

ReloadLocked(r) ==
  /\ act[r].pc = "reload" /\ Holds(r)
  /\ Remove(r, act[r], act[r].config, "read")
  /\ UNCHANGED <<pubs, envVars, rows, locks, countVars, raced>>

\* The rest of stop and of remove_config.
RemoveEnds(r) ==
  /\ r \in Requests /\ act[r].pc = "stopping" /\ MayGoOn(r, act[r].awaits)
  /\ pubs' = Stopped(act[r].pub) /\ loops' = NoLongerWaits(act[r].awaits)
  /\ ToPc(r, IF act[r].kind = "delete" THEN "drop" ELSE "read")
  /\ UNCHANGED <<envVars, rows, table, locks, countVars, raced>>

\* The configuration is read again, and _start_module starts a new module for it.
ReadSkips(r) ==
  /\ act[r].pc = "read" /\ ~Enabled(act[r].config)
  /\ Done(r) /\ Released(act[r].config)
  /\ UNCHANGED <<mqttVars, rows, table, countVars, raced>>

\* Slip: disabled configurations are started, too.
ReadStartsDisabled(r) ==
  LET c == act[r].config
      i == Len(pubs) + 1
  IN  /\ act[r].pc = "read" /\ rows[c] # None
      /\ StartPublisher(Append(pubs, Publisher(c, rows[c].ver)), loops, i)
      /\ table' = [table EXCEPT ![c] = i]
      /\ Done(r) /\ Released(c)
      /\ UNCHANGED <<envVars, rows, countVars, raced>>

ReadStarts(r) ==
  LET c == act[r].config
      i == Len(pubs) + 1
  IN  /\ act[r].pc = "read" /\ Enabled(c)
      /\ StartPublisher(Append(pubs, Publisher(c, rows[c].ver)), loops, i)
      /\ table' = [table EXCEPT ![c] = i]
      /\ Done(r) /\ Released(c)
      /\ UNCHANGED <<envVars, rows, countVars, raced>>

\* Slip: the lock is kept when start raises.
ReadFailsLocked(r) ==
  LET c == act[r].config
  IN  /\ act[r].pc = "read" /\ Enabled(c)
      /\ Done(r)
      /\ UNCHANGED <<mqttVars, rows, table, locks, countVars, raced>>

\* start raises: the module is dropped, the error is kept.
ReadFails(r) ==
  LET c == act[r].config
  IN  /\ act[r].pc = "read" /\ Enabled(c)
      /\ Done(r) /\ Released(c)
      /\ UNCHANGED <<mqttVars, rows, table, countVars, raced>>

\* delete_fanout_config: the module is removed without the lock, then the row.
AskDelete(r, c) ==
  /\ act[r].pc = "idle" /\ asks < MaxAsks /\ rows[c] # None
  /\ asks' = asks + 1
  /\ Remove(r, [Idle EXCEPT !.kind = "delete", !.config = c], c, "drop")
  /\ raced' = IF locks[c] # << >> THEN raced \cup {c} ELSE raced
  /\ UNCHANGED <<pubs, envVars, rows, locks, timeouts>>

DropRow(r) ==
  /\ act[r].pc = "drop"
  /\ rows' = [rows EXCEPT ![act[r].config] = None]
  /\ Done(r)
  /\ UNCHANGED <<mqttVars, table, locks, countVars, raced>>

Request(r) ==
  \/ \E c \in Configs : AskUpdate(r, c, "edit") \/ AskUpdate(r, c, "toggle") \/ AskDelete(r, c)
  \/ WriteRow(r) \/ ReloadLocked(r) \/ RemoveEnds(r) \/ ReadSkips(r) \/ ReadStarts(r)
  \/ ReadFails(r) \/ DropRow(r)

-----------------------------------------------------------------------------
(* _run_handler and _restart_module.                                                  *)

Dispatch(h, c) ==
  /\ act[h].pc = "idle" /\ table[c] # None
  /\ pubs[table[c]].connected /\ pubs[table[c]].client # None
  /\ act' = [act EXCEPT ![h] = [Idle EXCEPT !.pc = "publish", !.kind = "handle", !.config = c,
               !.pub = table[c], !.awaits = pubs[table[c]].client]]
  /\ UNCHANGED <<mqttVars, rows, table, locks, countVars, raced>>

PublishOk(h) ==
  /\ act[h].pc = "publish" /\ act[h].awaits \in live
  /\ Done(h)
  /\ UNCHANGED <<mqttVars, rows, table, locks, countVars, raced>>

\* The error stays in the publisher; the handler itself succeeds.
PublishFails(h) ==
  /\ act[h].pc = "publish" /\ act[h].awaits \notin live
  /\ PublishFailed(act[h].pub)
  /\ Done(h)
  /\ UNCHANGED <<envVars, rows, table, locks, countVars, raced>>

HandlerTimesOut(h) ==
  /\ act[h].pc = "publish" /\ timeouts < MaxTimeouts
  /\ timeouts' = timeouts + 1
  /\ Queued(h, act[h].config) /\ ToPc(h, "restart")
  /\ UNCHANGED <<mqttVars, rows, table, asks, raced>>

\* Slip: whatever module serves the configuration by now.
RestartLockedAny(h) ==
  /\ act[h].pc = "restart" /\ Holds(h)
  /\ StopBegins(h, act[h].pub)
  /\ act' = [act EXCEPT ![h].pc = "stopping", ![h].awaits = Awaited(act[h].pub)]
  /\ UNCHANGED <<pubs, envVars, rows, table, locks, countVars, raced>>

\* Only the module that is still in charge is restarted.
RestartLocked(h) ==
  /\ act[h].pc = "restart" /\ Holds(h)
  /\ IF table[act[h].config] # act[h].pub
     THEN Done(h) /\ Released(act[h].config) /\ UNCHANGED loops
     ELSE /\ StopBegins(h, act[h].pub)
          /\ act' = [act EXCEPT ![h].pc = "stopping", ![h].awaits = Awaited(act[h].pub)]
          /\ UNCHANGED locks
  /\ UNCHANGED <<pubs, envVars, rows, table, countVars, raced>>

\* stop has ended and start follows without an await.
Restarted(h) ==
  /\ h \in Handlers /\ act[h].pc = "stopping" /\ MayGoOn(h, act[h].awaits)
  /\ StartPublisher(Stopped(act[h].pub), NoLongerWaits(act[h].awaits), act[h].pub)
  /\ Done(h) /\ Released(act[h].config)
  /\ UNCHANGED <<envVars, rows, table, countVars, raced>>

RestartFails(h) ==
  /\ h \in Handlers /\ act[h].pc = "stopping" /\ MayGoOn(h, act[h].awaits)
  /\ pubs' = Stopped(act[h].pub) /\ loops' = NoLongerWaits(act[h].awaits)
  /\ table' = [table EXCEPT ![act[h].config] = None]
  /\ Done(h) /\ Released(act[h].config)
  /\ UNCHANGED <<envVars, rows, countVars, raced>>

Handler(h) ==
  \/ \E c \in Configs : Dispatch(h, c)
  \/ PublishOk(h) \/ PublishFails(h) \/ HandlerTimesOut(h)
  \/ RestartLocked(h) \/ Restarted(h) \/ RestartFails(h)

-----------------------------------------------------------------------------
Next ==
  \/ \E r \in Requests : Request(r)
  \/ \E h \in Handlers : Handler(h)
  \/ (\E l \in DOMAIN loops : Loop(l)) /\ UNCHANGED <<managerVars, countVars, raced>>
  \/ World /\ UNCHANGED <<managerVars, countVars, raced>>

\* Every task goes on, and the broker's client answers or times out; only users, faults,
\* events and timeouts may stay away.
Fairness ==
  /\ \A l \in 1..(NConfigs + MaxAsks + MaxTimeouts) :
       WF_vars(l \in DOMAIN loops /\ Loop(l) /\ UNCHANGED <<managerVars, countVars, raced>>)
  /\ \A r \in Requests :
       WF_vars(WriteRow(r) \/ ReloadLocked(r) \/ RemoveEnds(r) \/ ReadSkips(r)
               \/ ReadStarts(r) \/ ReadFails(r) \/ DropRow(r))
  /\ \A h \in Handlers :
       WF_vars(PublishOk(h) \/ PublishFails(h) \/ RestartLocked(h) \/ Restarted(h)
               \/ RestartFails(h))

Spec == Init /\ [][Next]_vars /\ Fairness

-----------------------------------------------------------------------------
Row == [enabled : BOOLEAN, ver : Nat]
NatOrNone == Nat \cup {None}
PubType == [config : Configs, ver : Nat, task : NatOrNone, client : NatOrNone,
            connected : BOOLEAN]
LoopType == [pub : Nat, pc : {"top", "unconfigured", "dialing", "hello", "wait", "periodic",
                              "closing", "backoff", "ended"},
             stale : BOOLEAN, cancelled : BOOLEAN, waits : Seq(Actors)]
ActType == [pc : {"idle", "write", "reload", "stopping", "read", "drop", "publish", "restart"},
            kind : {"none", "edit", "toggle", "delete", "handle"},
            config : Configs \cup {None},
            arg : [enabled : BOOLEAN \cup {None}, ver : Nat] \cup {None},
            pub : NatOrNone, awaits : NatOrNone]

TypeOK ==
  /\ pubs \in Seq(PubType) /\ loops \in Seq(LoopType)
  /\ \A l \in DOMAIN loops : loops[l].pub \in DOMAIN pubs
  /\ \A i \in DOMAIN pubs : pubs[i].task # None => pubs[i].task \in DOMAIN loops
  /\ rows \in [Configs -> Row \cup {None}]
  /\ table \in [Configs -> DOMAIN pubs \cup {None}]
  /\ locks \in [Configs -> Seq(Actors)]
  /\ act \in [Actors -> ActType]
  /\ asks \in Nat /\ raced \subseteq Configs

Stopping(l) == \E a \in Actors : act[a].pc = "stopping" /\ act[a].awaits = l

\* A loop that runs is the task of the module in charge of its configuration, or about
\* to be stopped.
Accounted(l) ==
  LET i == loops[l].pub
  IN  pubs[i].task = l /\ (table[pubs[i].config] = i \/ Stopping(l))

\* No connection loop is left running that nothing can stop, whatever updates and
\* restarts of timed-out modules overlap (_restart_module, reload_config); deletes that
\* overlap them take no lock and are excepted.
LoopsAccounted ==
  \A l \in DOMAIN loops : Runs(l) /\ pubs[loops[l].pub].config \notin raced => Accounted(l)

Quiet(c) == locks[c] = << >> /\ \A a \in Actors : act[a].config # c

\* When no request or restart is going on the module in charge has the configuration
\* that is stored, and none is in charge of one that is disabled: the last reload has
\* seen the last write.
TableFollowsRows ==
  \A c \in Configs \ raced : Quiet(c) /\ table[c] # None =>
    Enabled(c) /\ pubs[table[c]].ver = rows[c].ver

\* A change of settings or a failed publish is never slept through: a loop that waits
\* has the version it connected with (_version_event).
NoLostWakeup == \A l \in DOMAIN loops : loops[l].pc = "wait" => ~loops[l].stale

Works(c) == table[c] # None /\ pubs[table[c]].connected /\ pubs[table[c]].client \in live

\* Once the broker and the keys are there for good, a module in charge connects, and
\* connects again after its token was renewed.
ModuleReconnects ==
  <>[](broker /\ keys) => \A c \in Configs : []<>(table[c] = None \/ Works(c))

\* A loop that somebody waits for, and whose cancellation is spent.
Outlived(l) == Runs(l) /\ ~loops[l].cancelled /\ loops[l].waits # << >>

\* A request comes to its end: no lock is kept and no stop waits for ever, except for a
\* loop that has outlived its cancellation (BaseMqttPublisher.stop).
RequestsEnd ==
  \A r \in Requests :
    act[r].pc # "idle" ~> act[r].pc = "idle" \/ \E l \in DOMAIN loops : Outlived(l)

\* BaseMqttPublisher.stop, "Cancel the background task and disconnect.": it comes back.
StopReturns == \A a \in Actors : act[a].pc = "stopping" ~> act[a].pc # "stopping"
==============================================================================
