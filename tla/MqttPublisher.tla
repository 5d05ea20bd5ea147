---------------------------- MODULE MqttPublisher ----------------------------
(* The MQTT publishers of the fanout modules: BaseMqttPublisher with the hooks of the *)
(* community publisher.  A publisher is an object with settings; what connects it is  *)
(* a background task, its connection loop.  A restart gives the publisher another     *)
(* loop, and a loop that was cancelled ends later than the call that cancelled it.    *)
EXTENDS Integers, Sequences

CONSTANTS
  None,
  MaxFaults   \* bound: losses of the broker or of the radio's keys

VARIABLES
  pubs,    \* the publishers that were ever made
  loops,   \* the connection loops that were ever started
  live,    \* loops whose connection to the broker works
  broker,  \* is the broker reachable
  keys,    \* does the keystore hold what _is_configured asks for
  faults

mqttVars == <<pubs, loops, live, broker, keys, faults>>
envVars == <<live, broker, keys, faults>>

\* BaseMqttPublisher: _task, _client (the loop that opened it) and connected.
Publisher(c, ver) ==
  [config |-> c, ver |-> ver, task |-> None, client |-> None, connected |-> FALSE]

\* A loop is stale when _settings_version is no longer its version_at_connect; waits
\* are those that await its end.
NewLoop(i) ==
  [pub |-> i, pc |-> "top", stale |-> FALSE, cancelled |-> FALSE, waits |-> << >>]

Runs(l) == loops[l].pc # "ended"
Offline(ps, i) == [ps EXCEPT ![i].client = None, ![i].connected = FALSE]

-----------------------------------------------------------------------------
(* What the publisher's users call.                                                   *)

\* _settings_version += 1 and _version_event.set(): whoever waits for it is woken,
\* and a connected loop leaves its wait; the event is cleared before every wait.
Bumped(ls, i) ==
  [l \in DOMAIN ls |->
     IF ls[l].pub # i \/ ls[l].pc = "ended" THEN ls[l]
     ELSE [ls[l] EXCEPT !.stale = TRUE,
                        !.pc = CASE @ = "wait" -> "closing" [] @ = "unconfigured" -> "top"
                                 [] OTHER -> @]]

\* start: a loop is running already only when nobody stopped it.
StartPublisher(ps, ls, i) ==
  LET keep == ps[i].task # None /\ ls[ps[i].task].pc # "ended"
  IN  /\ pubs' = IF keep THEN ps ELSE [ps EXCEPT ![i].task = Len(ls) + 1]
      /\ loops' = IF keep THEN Bumped(ls, i) ELSE Append(Bumped(ls, i), NewLoop(i))

\* stop, up to its await: the loop to wait for, None when there is none.
Awaited(i) == IF pubs[i].task # None /\ Runs(pubs[i].task) THEN pubs[i].task ELSE None

StopBegins(who, i) ==
  loops' = IF Awaited(i) = None THEN loops
           ELSE [loops EXCEPT ![Awaited(i)].cancelled = TRUE,
                              ![Awaited(i)].waits = Append(@, who)]

\* The await is over: the tasks that wait for one loop go on in the order they came.
MayGoOn(who, l) == l # None => ~Runs(l) /\ Head(loops[l].waits) = who
NoLongerWaits(l) ==
  IF l = None THEN loops ELSE [loops EXCEPT ![l].waits = Tail(@)]
Stopped(i) == [Offline(pubs, i) EXCEPT ![i].task = None]

\* publish: an error of the client marks the publisher and wakes its loop.
PublishFailed(i) ==
  /\ pubs' = [pubs EXCEPT ![i].connected = FALSE]
  /\ loops' = Bumped(loops, i)

-----------------------------------------------------------------------------
(* _connection_loop, from one await to the next.                                      *)

At(l, label) == Runs(l) /\ ~loops[l].cancelled /\ loops[l].pc = label
Go(l, label) == loops' = [loops EXCEPT ![l].pc = label]

LoopTop(l) ==
  /\ At(l, "top")
  /\ IF keys
     THEN /\ loops' = [loops EXCEPT ![l].pc = "dialing", ![l].stale = FALSE]
          /\ UNCHANGED pubs
     ELSE Go(l, "unconfigured") /\ pubs' = Offline(pubs, loops[l].pub)
  /\ UNCHANGED envVars

\* _not_configured_timeout.
LoopLooksAgain(l) ==
  /\ At(l, "unconfigured")
  /\ Go(l, "top")
  /\ UNCHANGED <<pubs, envVars>>

DialOk(l) ==
  /\ At(l, "dialing") /\ broker
  /\ pubs' = [pubs EXCEPT ![loops[l].pub].client = l, ![loops[l].pub].connected = TRUE]
  /\ live' = live \cup {l}
  /\ Go(l, "hello")
  /\ UNCHANGED <<broker, keys, faults>>

DialFails(l) ==
  /\ At(l, "dialing") /\ ~broker
  /\ pubs' = Offline(pubs, loops[l].pub)
  /\ Go(l, "backoff")
  /\ UNCHANGED envVars

LoopBackedOff(l) ==
  /\ At(l, "backoff")
  /\ Go(l, "top")
  /\ UNCHANGED <<pubs, envVars>>

\* _publish_status of a loop: nothing is published without a key or a client.
StatusFails(i) ==
  keys /\ pubs[i].connected /\ pubs[i].client # None /\ pubs[i].client \notin live

\* The status is out, at the start or at a periodic wake-up (a token near its end also
\* ends the wait); the wait begins only when nothing has changed meanwhile.
StatusOut(l, expired) ==
  LET i == loops[l].pub
      fails == StatusFails(i)
      next == IF fails \/ loops[l].stale \/ expired THEN "closing" ELSE "wait"
  IN  /\ pubs' = IF fails THEN [pubs EXCEPT ![i].connected = FALSE] ELSE pubs
      /\ loops' = [(IF fails THEN Bumped(loops, i) ELSE loops) EXCEPT ![l].pc = next]
      /\ UNCHANGED envVars

\* Slip: the wait begins without another look at the version.
HelloBlind(l) ==
  /\ At(l, "hello")
  /\ Go(l, "wait")
  /\ UNCHANGED <<pubs, envVars>>

Hello(l) == At(l, "hello") /\ StatusOut(l, FALSE)

\* The housekeeping timeout, every minute.
PeriodicWake(l) ==
  /\ At(l, "wait")
  /\ Go(l, "periodic")
  /\ UNCHANGED <<pubs, envVars>>

\* Slip: no status is published.
PeriodicEndsIdle(l, expired) ==
  /\ At(l, "periodic")
  /\ Go(l, IF expired \/ loops[l].stale THEN "closing" ELSE "wait")
  /\ UNCHANGED <<pubs, envVars>>

\* _should_break_wait also looks at connected.
PeriodicEnds(l, expired) ==
  /\ At(l, "periodic")
  /\ StatusOut(l, expired \/ ~pubs[loops[l].pub].connected)

\* The client is closed; a connection that was lost may say so now.
LoopCloses(l, raises) ==
  /\ At(l, "closing") /\ (raises => l \notin live)
  /\ pubs' = Offline(pubs, loops[l].pub)
  /\ live' = live \ {l}
  /\ Go(l, IF raises THEN "backoff" ELSE "top")
  /\ UNCHANGED <<broker, keys, faults>>

\* CancelledError, wherever the loop was.
LoopCancelled(l) ==
  /\ Runs(l) /\ loops[l].cancelled
  /\ pubs' = IF loops[l].pc \in {"top", "unconfigured", "backoff"} THEN pubs
             ELSE Offline(pubs, loops[l].pub)
  /\ live' = live \ {l}
  /\ loops' = [loops EXCEPT ![l] = [NewLoop(@.pub) EXCEPT !.pc = "ended", !.waits = loops[l].waits]]
  /\ UNCHANGED <<broker, keys, faults>>

\* The cancellation leaves the body of "async with", and the client, which has lost its
\* connection, raises that error as it is closed: the handler of connection errors gets
\* it instead of the CancelledError, and the loop goes on.
LoopOutlives(l) ==
  /\ Runs(l) /\ loops[l].cancelled
  /\ loops[l].pc \in {"hello", "wait", "periodic", "closing"} /\ l \notin live
  /\ pubs' = Offline(pubs, loops[l].pub)
  /\ loops' = [loops EXCEPT ![l].pc = "backoff", ![l].cancelled = FALSE]
  /\ UNCHANGED envVars

Loop(l) ==
  \/ LoopTop(l) \/ LoopLooksAgain(l) \/ DialOk(l) \/ DialFails(l) \/ LoopBackedOff(l)
  \/ Hello(l) \/ PeriodicWake(l) \/ \E expired \in BOOLEAN : PeriodicEnds(l, expired)
  \/ \E raises \in BOOLEAN : LoopCloses(l, raises)
  \/ LoopCancelled(l) \/ LoopOutlives(l)

-----------------------------------------------------------------------------
(* The world: the broker and the radio's keys come and go.                            *)

BrokerLost ==
  /\ broker /\ faults < MaxFaults
  /\ broker' = FALSE /\ live' = {} /\ faults' = faults + 1
  /\ UNCHANGED <<pubs, loops, keys>>
BrokerBack ==
  /\ ~broker
  /\ broker' = TRUE
  /\ UNCHANGED <<pubs, loops, live, keys, faults>>
KeysLost ==
  /\ keys /\ faults < MaxFaults
  /\ keys' = FALSE /\ faults' = faults + 1
  /\ UNCHANGED <<pubs, loops, live, broker>>
KeysBack ==
  /\ ~keys
  /\ keys' = TRUE
  /\ UNCHANGED <<pubs, loops, live, broker, faults>>

World == BrokerLost \/ BrokerBack \/ KeysLost \/ KeysBack
==============================================================================
