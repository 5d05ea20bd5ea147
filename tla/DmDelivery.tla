------------------------------ MODULE DmDelivery ------------------------------
(***************************************************************************)
(* Delivery of outgoing direct messages: the request that transmits and    *)
(* stores a message, its background retry run, the ACK tracker, the send   *)
(* tracker, and the user's retry, cancel and delete.                       *)
(*                                                                         *)
(* The program is one asyncio loop.  A step of the model is what runs      *)
(* between two awaits that can really suspend; the README says which       *)
(* awaits are merged and why.                                              *)
(***************************************************************************)
EXTENDS Naturals, FiniteSets

CONSTANTS
  Msgs,         \* outgoing direct messages; each is also its own send request
  Retries,      \* manual retry requests
  RetryOf,      \* the message each of them is about
  Users,        \* cancel and delete requests
  Caps,         \* values the max_message_retries setting may have
  MaxAcks,      \* bound: times the ACK of one transmission is heard
  MaxRestarts,  \* bound: server restarts
  None

ASSUME RequestsAssumption == /\ Msgs \cap Retries = {}
                             /\ None \notin Msgs \cup Retries
                             /\ RetryOf \in [Retries -> Msgs]
ASSUME CapsAssumption == Caps \subseteq 1..10
ASSUME BoundsAssumption == MaxAcks \in Nat /\ MaxRestarts \in Nat

Requests == Msgs \cup Retries

Target(r) == IF r \in Msgs THEN r ELSE RetryOf[r]

\* The expected_ack of a transmission is a digest of message and attempt number.
Codes == Msgs \X (0..9)

SendStates == {"sending", "sent", "failed", "canceled"}

\* A holder of the radio lock waits for send_msg; the step is named after the
\* answer it will get: accepted with an expected ACK, without one, or a failure.
Air == {"airCode", "airNocode", "airFail"}
ReqPcs == {"idle", "lock", "okCode", "okNocode", "inc", "done"} \cup Air
RunPcs == {"none", "sleep", "lock", "okCode", "okNocode", "track", "inc",
           "final", "finish", "done"} \cup Air
UserPcs == {"idle", "mark", "delete", "done"}

VARIABLES
  row,       \* the messages table: one row per message
  pending,   \* _pending_acks: codes waiting for their ACK
  buffered,  \* _buffered_acks: ACKs heard before their code was registered
  tracker,   \* send_tracker._tasks: the run registered for a message
  cap,       \* max_attempts as the request read it
  reqPc,     \* where a send or retry request is
  runPc,     \* where the retry run started by a request is
  attempt,   \* the run's attempt counter
  claims,    \* on_ack handlers that claimed a code and await the increment
  user,      \* cancel and delete requests
  air,       \* codes transmitted so far
  heard,     \* how often the ACK of a code was heard
  restarts,
  awaited,   \* history: codes registered, and the registration not aged out
  arrived,   \* history: codes whose ACK was heard, and the ACK not given up
  silenced,  \* history: the user stopped the message and did not retry it since
  stranded   \* history: messages whose run was given up without a new state

rowVars == <<row, stranded>>
ackVars == <<pending, buffered, awaited, arrived>>
reqVars == <<cap, reqPc>>
runVars == <<runPc, attempt>>
netVars == <<air, heard>>
vars == <<row, pending, buffered, tracker, cap, reqPc, runPc,
          attempt, claims, user, air, heard, restarts, awaited,
          arrived, silenced, stranded>>

-----------------------------------------------------------------------------
NoRow == [kind |-> "none", state |-> "sent", attempts |-> 0, max |-> 0, acked |-> 0]

Rows == [kind: {"none", "live", "deleted"}, state: SendStates,
         attempts: Nat, max: Nat, acked: Nat]

Init ==
  /\ row = [m \in Msgs |-> NoRow]
  /\ pending = {} /\ buffered = {} /\ awaited = {} /\ arrived = {}
  /\ tracker = [m \in Msgs |-> None]
  /\ cap = [r \in Requests |-> 1]
  /\ reqPc = [r \in Requests |-> "idle"]
  /\ runPc = [r \in Requests |-> "none"]
  /\ attempt = [r \in Requests |-> 1]
  /\ claims = [m \in Msgs |-> 0]
  /\ user = [u \in Users |-> [pc |-> "idle", kind |-> "cancel", msg |-> None]]
  /\ air = {} /\ heard = [c \in Codes |-> 0] /\ restarts = 0
  /\ silenced = [m \in Msgs |-> "no"] /\ stranded = {}

-----------------------------------------------------------------------------
(* Helpers.                                                                *)

Live(m) == row[m].kind = "live"

\* get_ack_and_paths reads a missing row as not acked.
IsAcked(m) == Live(m) /\ row[m].acked > 0

\* Shown as on its way.
Unsettled(m) == Live(m) /\ row[m].state = "sending" /\ row[m].acked = 0

Running == RunPcs \ {"none", "done"}

\* radio_operation: one holder at a time, requests and runs alike.
RadioFree == \A r \in Requests : reqPc[r] \notin Air /\ runPc[r] \notin Air

CodesOf(m) == {c \in Codes : c[1] = m}

\* increment_ack_count: an UPDATE, which a missing row ignores.
Incremented(m) ==
  [row EXCEPT ![m].acked = IF Live(m) THEN @ + 1 ELSE @]

\* set_send_state(m, s).
WithState(m, s) ==
  [row EXCEPT ![m].state = IF Live(m) THEN s ELSE @]

\* record_send_attempt(m, state = "sending").
Counted(m) ==
  IF Live(m)
  THEN [row EXCEPT ![m] = [row[m] EXCEPT !.state = "sending", !.attempts = @ + 1]]
  ELSE row

\* Slip: only a run that is on the air is stopped, a sleeping one is left alone.
CancelTaskSparing(m) ==
  LET stopped == {r \in Requests : r = tracker[m] /\ runPc[r] \in Air}
  IN  /\ tracker' = [tracker EXCEPT ![m] = IF @ \in stopped THEN None ELSE @]
      /\ runPc' = [r \in Requests |->
                     IF r \in stopped /\ runPc[r] \in Running THEN "done" ELSE runPc[r]]
      /\ attempt' = [r \in Requests |-> IF r \in stopped THEN 1 ELSE attempt[r]]

\* send_tracker.cancel(m): the registered run takes no further step.
CancelTask(m) ==
  /\ tracker' = [tracker EXCEPT ![m] = None]
  /\ runPc' = [r \in Requests |->
                 IF r = tracker[m] /\ runPc[r] \in Running THEN "done" ELSE runPc[r]]
  /\ attempt' = [r \in Requests |-> IF r = tracker[m] THEN 1 ELSE attempt[r]]

\* A cancelled run that had already taken its ACK out of the buffer loses it,
\* and with it the registrations it had cleared.
LostByCancel(m) ==
  {c \in CodesOf(m) : \E r \in Requests : r = tracker[m] /\ runPc[r] = "inc"}

\* send_tracker.register(m, r): supersedes the run registered before.
Register(m, r) ==
  /\ tracker' = [tracker EXCEPT ![m] = r]
  /\ runPc' = [q \in Requests |->
                 IF q = r THEN "sleep"
                 ELSE IF q = tracker[m] /\ runPc[q] \in Running THEN "done"
                 ELSE runPc[q]]
  /\ attempt' = [q \in Requests |-> IF q = tracker[m] THEN 1 ELSE attempt[q]]

\* cleanup_expired_acks: ages are not modelled, any entry may be too old.
Expire(old) ==
  /\ pending' = pending \ old
  /\ buffered' = buffered \ old
  /\ awaited' = awaited \ (pending \cap old)
  /\ arrived' = arrived \ (buffered \cap old)

\* What the radio does with send_msg: accepts it and names the expected ACK,
\* accepts it without one, or fails (error, no answer, disconnected), in which
\* case the packet may or may not have gone out.
Transmit(c, answer) ==
  /\ \/ answer # "airNocode" /\ air' = air \cup {c}
     \/ answer # "airCode" /\ UNCHANGED air
  /\ UNCHANGED heard

-----------------------------------------------------------------------------
(* send_direct_message_to_contact and retry_direct_message_record.         *)

StartSend(m) ==
  /\ m \in Msgs /\ reqPc[m] = "idle"
  /\ \E k \in Caps : cap' = [cap EXCEPT ![m] = k]
  /\ reqPc' = [reqPc EXCEPT ![m] = "lock"]
  /\ UNCHANGED <<rowVars, ackVars, tracker, runVars, claims, user,
                 netVars, restarts, silenced>>

\* The message is loaded and the run still going is superseded.
StartRetry(r) ==
  LET m == Target(r) IN
  /\ r \in Retries /\ reqPc[r] = "idle" /\ Live(m)
  /\ \E k \in Caps : cap' = [cap EXCEPT ![r] = k]
  /\ reqPc' = [reqPc EXCEPT ![r] = "lock"]
  /\ CancelTask(m)
  /\ arrived' = arrived \ LostByCancel(m)
  /\ awaited' = awaited \ LostByCancel(m)
  /\ silenced' = [silenced EXCEPT ![m] = "no"]
  /\ UNCHANGED <<rowVars, pending, buffered, claims, user, netVars, restarts>>

\* Both send as attempt 0, so a manual retry repeats the first ACK code.
ReqTransmit(r) ==
  /\ reqPc[r] = "lock" /\ RadioFree
  /\ \E answer \in Air : /\ Transmit(<<Target(r), 0>>, answer)
                         /\ reqPc' = [reqPc EXCEPT ![r] = answer]
  /\ UNCHANGED <<rowVars, ackVars, tracker, cap, runVars, claims, user,
                 restarts, silenced>>

\* The radio lock is released.  A failure ends the request: 408, 422 or 503.
ReqAnswered(r) ==
  LET m == Target(r) IN
  /\ \/ reqPc[r] = "airCode" /\ reqPc' = [reqPc EXCEPT ![r] = "okCode"] /\ UNCHANGED stranded
     \/ reqPc[r] = "airNocode" /\ reqPc' = [reqPc EXCEPT ![r] = "okNocode"] /\ UNCHANGED stranded
     \/ /\ reqPc[r] = "airFail" /\ reqPc' = [reqPc EXCEPT ![r] = "done"]
        /\ stranded' = IF Unsettled(m) THEN stranded \cup {m} ELSE stranded
  /\ UNCHANGED <<row, ackVars, tracker, cap, runVars, claims, user,
                 netVars, restarts, silenced>>

\* create_outgoing_direct_message for a send, set_send_state for a retry.
StoredRow(r, m) ==
  LET s == IF cap[r] > 1 /\ reqPc[r] = "okCode" THEN "sending" ELSE "sent"
  IN  IF r \in Msgs
      THEN [row EXCEPT ![m] = [kind |-> "live", state |-> s, attempts |-> 1,
                               max |-> cap[r], acked |-> 0]]
      ELSE IF Live(m)
      THEN [row EXCEPT ![m] = [row[m] EXCEPT !.state = s, !.attempts = 1, !.max = cap[r]]]
      ELSE row

\* The row is written, the ACK code is registered or matched with a buffered
\* ACK, and unless it matched the retry run is started.
ReqStore(r) ==
  LET m == Target(r)
      c == <<m, 0>>
  IN
  /\ reqPc[r] \in {"okCode", "okNocode"}
  /\ row' = StoredRow(r, m)
  /\ stranded' = stranded \ {m}
  /\ \/ /\ reqPc[r] = "okNocode"
        /\ reqPc' = [reqPc EXCEPT ![r] = "done"]
        /\ UNCHANGED <<ackVars, tracker, runVars>>
     \/ /\ reqPc[r] = "okCode" /\ c \in buffered
        /\ buffered' = buffered \ {c}
        /\ pending' = pending \ CodesOf(m)
        /\ awaited' = awaited \cup {c}
        /\ reqPc' = [reqPc EXCEPT ![r] = "inc"]
        /\ UNCHANGED <<arrived, tracker, runVars>>
     \/ /\ reqPc[r] = "okCode" /\ c \notin buffered
        /\ pending' = pending \cup {c}
        /\ reqPc' = [reqPc EXCEPT ![r] = "done"]
        /\ \/ /\ cap[r] > 1
              /\ Register(m, r)
              /\ arrived' = arrived \ LostByCancel(m)
              /\ awaited' = (awaited \ LostByCancel(m)) \cup {c}
           \/ /\ cap[r] = 1
              /\ awaited' = awaited \cup {c}
              /\ UNCHANGED <<tracker, runPc, attempt, arrived>>
        /\ UNCHANGED buffered
  /\ UNCHANGED <<cap, claims, user, netVars, restarts, silenced>>

\* increment_ack_and_broadcast after an immediate match.
ReqIncrement(r) ==
  /\ reqPc[r] = "inc"
  /\ row' = Incremented(Target(r))
  /\ reqPc' = [reqPc EXCEPT ![r] = "done"]
  /\ UNCHANGED <<stranded, ackVars, tracker, cap, runVars, claims, user,
                 netVars, restarts, silenced>>

-----------------------------------------------------------------------------
(* _retry_direct_message_until_acked and _run_direct_message_retries.      *)

\* The loop head after an attempt was used up.
Advance(r) ==
  /\ attempt' = [attempt EXCEPT ![r] = @ + 1]
  /\ runPc' = [runPc EXCEPT ![r] = IF attempt[r] + 1 < cap[r] THEN "sleep" ELSE "final"]

GoTo(r, pc) ==
  /\ runPc' = [runPc EXCEPT ![r] = pc]
  /\ attempt' = IF pc = "done" THEN [attempt EXCEPT ![r] = 1] ELSE attempt

\* The wait for the ACK is over: an acked message needs no retransmission.
RunWake(r) ==
  /\ runPc[r] = "sleep"
  /\ GoTo(r, IF IsAcked(Target(r)) THEN "done" ELSE "lock")
  /\ UNCHANGED <<rowVars, ackVars, tracker, reqVars, claims, user,
                 netVars, restarts, silenced>>

RunTransmit(r) ==
  /\ runPc[r] = "lock" /\ RadioFree
  /\ \E answer \in Air : Transmit(<<Target(r), attempt[r]>>, answer) /\ GoTo(r, answer)
  /\ UNCHANGED <<rowVars, ackVars, tracker, reqVars, claims, user, restarts,
                 silenced>>

\* Slip: an attempt the radio refused is not used up.
RunAnsweredForever(r) ==
  /\ \/ runPc[r] = "airFail" /\ GoTo(r, "sleep") /\ UNCHANGED row
     \/ /\ runPc[r] \in {"airCode", "airNocode"}
        /\ row' = Counted(Target(r))
        /\ GoTo(r, IF runPc[r] = "airCode" THEN "okCode" ELSE "okNocode")
  /\ UNCHANGED <<stranded, ackVars, tracker, reqVars, claims, user,
                 netVars, restarts, silenced>>

\* record_send_attempt counts a transmission the radio accepted; then the
\* radio lock is released.
RunAnswered(r) ==
  /\ \/ /\ runPc[r] = "airFail"
        /\ Advance(r)
        /\ UNCHANGED row
     \/ /\ runPc[r] \in {"airCode", "airNocode"}
        /\ row' = Counted(Target(r))
        /\ GoTo(r, IF runPc[r] = "airCode" THEN "okCode" ELSE "okNocode")
  /\ UNCHANGED <<stranded, ackVars, tracker, reqVars, claims, user,
                 netVars, restarts, silenced>>

RunRecheck(r) ==
  /\ runPc[r] \in {"okCode", "okNocode"}
  /\ \/ IsAcked(Target(r)) /\ GoTo(r, "done")
     \/ ~IsAcked(Target(r)) /\ runPc[r] = "okNocode" /\ Advance(r)
     \/ ~IsAcked(Target(r)) /\ runPc[r] = "okCode" /\ GoTo(r, "track")
  /\ UNCHANGED <<rowVars, ackVars, tracker, reqVars, claims, user,
                 netVars, restarts, silenced>>

\* Slip: track_pending_ack does not look for an ACK that came first.
RunTrackBlindly(r) ==
  LET c == <<Target(r), attempt[r]>> IN
  /\ runPc[r] = "track"
  /\ awaited' = awaited \cup {c} /\ pending' = pending \cup {c}
  /\ Advance(r)
  /\ UNCHANGED <<rowVars, buffered, arrived, tracker, reqVars, claims, user,
                 netVars, restarts, silenced>>

\* _apply_direct_message_ack_tracking.
RunTrack(r) ==
  LET m == Target(r)
      c == <<m, attempt[r]>>
  IN
  /\ runPc[r] = "track"
  /\ awaited' = awaited \cup {c}
  /\ \/ /\ c \in buffered
        /\ buffered' = buffered \ {c}
        /\ pending' = pending \ CodesOf(m)
        /\ GoTo(r, "inc")
     \/ /\ c \notin buffered
        /\ pending' = pending \cup {c}
        /\ UNCHANGED buffered
        /\ Advance(r)
  /\ UNCHANGED <<rowVars, arrived, tracker, reqVars, claims, user,
                 netVars, restarts, silenced>>

RunIncrement(r) ==
  /\ runPc[r] = "inc"
  /\ row' = Incremented(Target(r))
  /\ GoTo(r, "done")
  /\ UNCHANGED <<stranded, ackVars, tracker, reqVars, claims, user,
                 netVars, restarts, silenced>>

\* Slip: the run ends without the failed state.
RunFinalSilently(r) ==
  /\ runPc[r] = "final"
  /\ GoTo(r, "done")
  /\ UNCHANGED <<rowVars, ackVars, tracker, reqVars, claims, user,
                 netVars, restarts, silenced>>

\* Out of attempts: a last look at the row, then the failed state.
RunFinal(r) ==
  /\ runPc[r] = "final"
  /\ GoTo(r, IF IsAcked(Target(r)) THEN "done" ELSE "finish")
  /\ UNCHANGED <<rowVars, ackVars, tracker, reqVars, claims, user,
                 netVars, restarts, silenced>>

RunFinish(r) ==
  /\ runPc[r] = "finish"
  /\ row' = WithState(Target(r), "failed")
  /\ GoTo(r, "done")
  /\ UNCHANGED <<stranded, ackVars, tracker, reqVars, claims, user,
                 netVars, restarts, silenced>>

\* Slip: _deregister pops whatever run is registered by now.
DeregisterAny(r) ==
  /\ runPc[r] = "done" /\ tracker[Target(r)] # None
  /\ tracker' = [tracker EXCEPT ![Target(r)] = None]
  /\ UNCHANGED <<rowVars, ackVars, reqVars, runVars, claims, user, netVars,
                 restarts, silenced>>

\* send_tracker._deregister, the done callback.
Deregister(r) ==
  /\ runPc[r] = "done" /\ tracker[Target(r)] = r
  /\ tracker' = [tracker EXCEPT ![Target(r)] = None]
  /\ UNCHANGED <<rowVars, ackVars, reqVars, runVars, claims, user, netVars,
                 restarts, silenced>>

-----------------------------------------------------------------------------
(* ACKs: apply_dm_ack_code, reached from on_ack and from the RF log alike, *)
(* so the ACK of one transmission may be heard more than once.             *)

\* Slip: an ACK that matches nothing is dropped instead of buffered.
HearAckUnbuffered(c) ==
  /\ c \in air /\ heard[c] < MaxAcks
  /\ heard' = [heard EXCEPT ![c] = @ + 1]
  /\ arrived' = arrived \cup {c}
  /\ \/ /\ c \in pending
        /\ pending' = pending \ CodesOf(c[1])
        /\ claims' = [claims EXCEPT ![c[1]] = @ + 1]
     \/ c \notin pending /\ UNCHANGED <<pending, claims>>
  /\ UNCHANGED <<rowVars, buffered, awaited, tracker, reqVars, runVars, user, air,
                 restarts, silenced>>

HearAck(c) ==
  /\ c \in air /\ heard[c] < MaxAcks
  /\ heard' = [heard EXCEPT ![c] = @ + 1]
  /\ \E old \in SUBSET (pending \cup buffered) :
       /\ awaited' = awaited \ (pending \cap old)
       /\ arrived' = (arrived \ (buffered \cap old)) \cup {c}
       /\ \/ /\ c \in pending \ old
             /\ pending' = (pending \ old) \ CodesOf(c[1])
             /\ buffered' = buffered \ old
             /\ claims' = [claims EXCEPT ![c[1]] = @ + 1]
          \/ /\ c \notin pending \ old
             /\ pending' = pending \ old
             /\ buffered' = (buffered \ old) \cup {c}
             /\ UNCHANGED claims
  /\ UNCHANGED <<rowVars, tracker, reqVars, runVars, user, air, restarts, silenced>>

\* The increment commits after the await.
AckIncrement(m) ==
  /\ claims[m] > 0
  /\ claims' = [claims EXCEPT ![m] = @ - 1]
  /\ row' = Incremented(m)
  /\ UNCHANGED <<stranded, ackVars, tracker, reqVars, runVars, user, netVars,
                 restarts, silenced>>

\* cleanup_expired_acks from the periodic sync loop.
PeriodicCleanup ==
  /\ \E old \in SUBSET (pending \cup buffered) : old # {} /\ Expire(old)
  /\ UNCHANGED <<rowVars, tracker, reqVars, runVars, claims, user, netVars,
                 restarts, silenced>>

-----------------------------------------------------------------------------
(* cancel_message and delete_message, both through cancel_message_send.    *)

\* A request that may still transmit or start a run.
InFlight(r) == reqPc[r] \in Air \cup {"lock", "okCode", "okNocode"}

UserStop(u, m, kind) ==
  /\ user[u].pc = "idle" /\ Live(m)
  /\ user' = [user EXCEPT ![u] = [pc |-> "mark", kind |-> kind, msg |-> m]]
  /\ CancelTask(m)
  /\ arrived' = arrived \ LostByCancel(m)
  /\ awaited' = awaited \ LostByCancel(m)
  /\ silenced' = [silenced EXCEPT ![m] =
                    IF \E r \in Requests : Target(r) = m /\ InFlight(r)
                    THEN "racing" ELSE "clean"]
  /\ UNCHANGED <<rowVars, pending, buffered, reqVars, claims, netVars, restarts>>

UserMark(u) ==
  /\ user[u].pc = "mark"
  /\ row' = WithState(user[u].msg, "canceled")
  /\ stranded' = stranded \ {user[u].msg}
  /\ user' = [user EXCEPT ![u].pc = IF user[u].kind = "delete"
                                    THEN "delete" ELSE "done"]
  /\ UNCHANGED <<ackVars, tracker, reqVars, runVars, claims, netVars, restarts,
                 silenced>>

UserDelete(u) ==
  /\ user[u].pc = "delete"
  /\ row' = [row EXCEPT ![user[u].msg] = [NoRow EXCEPT !.kind = "deleted"]]
  /\ user' = [user EXCEPT ![u].pc = "done"]
  /\ UNCHANGED <<stranded, ackVars, tracker, reqVars, runVars, claims, netVars,
                 restarts, silenced>>

-----------------------------------------------------------------------------
\* The server process stops and starts: the tables survive, every task, request
\* and in-memory map is gone, and startup touches no message row.
Restart ==
  /\ restarts < MaxRestarts
  /\ restarts' = restarts + 1
  /\ reqPc' = [r \in Requests |-> IF reqPc[r] = "idle" THEN "idle" ELSE "done"]
  /\ runPc' = [r \in Requests |-> IF runPc[r] = "none" THEN "none" ELSE "done"]
  /\ user' = [u \in Users |-> [user[u] EXCEPT !.pc = IF @ = "idle" THEN @ ELSE "done"]]
  /\ tracker' = [m \in Msgs |-> None]
  /\ claims' = [m \in Msgs |-> 0]
  /\ pending' = {} /\ buffered' = {} /\ awaited' = {} /\ arrived' = {}
  /\ stranded' = stranded \cup {m \in Msgs : Unsettled(m)}
  /\ attempt' = [r \in Requests |-> 1]
  /\ UNCHANGED <<row, cap, netVars, silenced>>

RequestStep(r) ==
  \/ ReqTransmit(r) \/ ReqAnswered(r) \/ ReqStore(r) \/ ReqIncrement(r)

RunStep(r) ==
  \/ RunWake(r) \/ RunTransmit(r) \/ RunAnswered(r) \/ RunRecheck(r)
  \/ RunTrack(r) \/ RunIncrement(r) \/ RunFinal(r) \/ RunFinish(r)
  \/ Deregister(r)

UserStep(u) ==
  \/ \E m \in Msgs, kind \in {"cancel", "delete"} : UserStop(u, m, kind)
  \/ UserMark(u) \/ UserDelete(u)

Next ==
  \/ \E m \in Msgs : StartSend(m) \/ AckIncrement(m)
  \/ \E r \in Retries : StartRetry(r)
  \/ \E r \in Requests : RequestStep(r) \/ RunStep(r)
  \/ \E c \in Codes : HearAck(c)
  \/ PeriodicCleanup
  \/ \E u \in Users : UserStep(u)
  \/ Restart

Spec == Init /\ [][Next]_vars

\* Every started coroutine is scheduled again; the radio lock and the database
\* lock are asyncio locks, which are first-in first-out.
Fairness ==
  /\ \A r \in Requests : /\ WF_vars(RequestStep(r)) /\ SF_vars(ReqTransmit(r))
                         /\ WF_vars(RunStep(r)) /\ SF_vars(RunTransmit(r))
  /\ \A m \in Msgs : WF_vars(AckIncrement(m))
  /\ \A u \in Users : WF_vars(UserMark(u) \/ UserDelete(u))

FairSpec == Spec /\ Fairness

-----------------------------------------------------------------------------
(* Properties.                                                             *)

TypeOK ==
  /\ row \in [Msgs -> Rows]
  /\ pending \subseteq Codes /\ buffered \subseteq Codes
  /\ awaited \subseteq Codes /\ arrived \subseteq Codes /\ air \subseteq Codes
  /\ tracker \in [Msgs -> Requests \cup {None}]
  /\ cap \in [Requests -> 1..10]
  /\ reqPc \in [Requests -> ReqPcs]
  /\ runPc \in [Requests -> RunPcs]
  /\ attempt \in [Requests -> 1..10]
  /\ claims \in [Msgs -> Nat] /\ heard \in [Codes -> Nat] /\ restarts \in Nat
  /\ user \in [Users -> [pc: UserPcs, kind: {"cancel", "delete"}, msg: Msgs \cup {None}]]
  /\ silenced \in [Msgs -> {"no", "clean", "racing"}] /\ stranded \subseteq Msgs

\* Whatever interleaving of sends, retries, cancels and done callbacks, every
\* run that can still transmit is the one send_tracker knows for its message:
\* a message never has two runs, and none that a cancel would not find.
RunIsTracked ==
  \A r \in Requests : runPc[r] \in Running => tracker[Target(r)] = r

\* The ACK tracker never holds a code both as awaited and as already heard, so
\* no ACK sits in the buffer next to the registration it belongs to.
NoMissedMatch == pending \cap buffered = {}

Counting(m) ==
  \/ claims[m] > 0
  \/ \E r \in Requests : Target(r) = m /\ (reqPc[r] = "inc" \/ runPc[r] = "inc")

\* An ACK is counted whichever comes first, the ACK or the registration of its
\* code: only ageing out of the tracker, a cancelled run or a restart loses it.
AckCounted ==
  \A c \in awaited \cap arrived :
    Live(c[1]) => row[c[1]].acked > 0 \/ Counting(c[1])

Working(m) ==
  \/ \E r \in Requests : Target(r) = m /\ (InFlight(r) \/ runPc[r] \in Running)
  \/ \E u \in Users : user[u].msg = m /\ user[u].pc \in {"mark", "delete"}
  \/ Counting(m)

\* A row shown as sending and not acked is being worked on, unless a retry that
\* had superseded its run failed, or the server restarted.
SendingIsWorkedOn ==
  \A m \in Msgs : Unsettled(m) => m \in stranded \/ Working(m)

Transmits(m) ==
  \E r \in Requests :
    /\ Target(r) = m
    /\ \/ reqPc[r] \notin Air /\ reqPc'[r] \in Air
       \/ runPc[r] \notin Air /\ runPc'[r] \in Air

\* Once the user cancelled or deleted a message that no request was handling,
\* nothing transmits it again until the user retries it.
CancelStopsRun ==
  [][\A m \in Msgs : silenced[m] = "clean" => ~Transmits(m)]_vars

\* Every message on its way is settled: delivered, given up, cancelled or
\* deleted (or stranded, see SendingIsWorkedOn).
SendSettles ==
  \A m \in Msgs : Unsettled(m) ~> (~Unsettled(m) \/ m \in stranded)
=============================================================================
