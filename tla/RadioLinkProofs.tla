-------------------------- MODULE RadioLinkProofs --------------------------
(***************************************************************************)
(* Proofs about RadioLink for any set of tasks, transports and faults: the *)
(* inductive invariant LinkInv and what follows from it.                   *)
(***************************************************************************)
EXTENDS RadioLink, TLAPS

Labels == Running \cup Suspended
Refs == Transports \cup {None}

\* Labels between taking and releasing each of the three locks.
OpLabels == {"di_got", "di_close", "suop_got", "su_export", "su_sync", "op_got", "op_run",
             "wd_run", "rb_got", "rb_run"}
SetupLabels == {"su_got", "suop_wait", "suop_got", "su_export", "su_sync"}
ReconLabels == {"rc_got", "rc_connect", "rc_dial", "rc_dialed", "rc_no"}
Closing == {"di_stop", "di_wait", "di_got", "di_close"}

\* Where disconnect may return to.
Returns == {"rc_connect", "rc_dial", "rc_no", "pa_done", "wd_rc", "idle", "sleep"}

\* reconnect() is at label l, or waits for a disconnect that returns to r.
InRecon(l, r) == l \in ReconLabels \/ (l \in Closing /\ r \in ReconLabels)

OpHeld == \A u \in Tasks : pc[u] \in OpLabels => opQ # << >> /\ Head(opQ) = u
SetupHeld == \A u \in Tasks : pc[u] \in SetupLabels => setupQ # << >> /\ Head(setupQ) = u
ReconHeld == \A u \in Tasks : InRecon(pc[u], back[u]) => reconQ # << >> /\ Head(reconQ) = u
ReturnsKnown == \A u \in Tasks : pc[u] \in Closing => back[u] \in Returns
DialsAlone == \A u \in Tasks : pc[u] = "rc_dial" => mc = None

LinkTypes ==
  /\ mc \in Refs
  /\ reconQ \in Seq(Tasks) /\ setupQ \in Seq(Tasks) /\ opQ \in Seq(Tasks)
  /\ pc \in [Tasks -> Labels] /\ back \in [Tasks -> Labels] /\ held \in [Tasks -> Refs]

\* The inductive invariant: who is inside a lock is at the head of its queue, disconnect
\* returns to one of its callers, and nobody dials while there is a transport.
LinkInv ==
  /\ LinkTypes
  /\ OpHeld /\ SetupHeld /\ ReconHeld /\ ReturnsKnown /\ DialsAlone
  /\ OneTransport /\ StableWhileHeld /\ SetupForCurrent

\* What a step of t may do to a queue q, where held and holds say that t is inside the
\* lock before and after: a lock is entered at the head, and left by whoever leaves it.
QueueStep(q, q2, t, held1, holds) ==
  \/ q2 = q /\ (holds => held1 \/ (q # << >> /\ Head(q) = t))
  \/ q2 = Append(q, t) /\ (holds => q = << >>)
  \/ q2 = Tail(q) /\ held1 /\ ~holds
  \/ ~holds /\ \E i \in 1..Len(q) : q[i] = t /\ q2 = DropAt(q, i)

LocksOk(t, l, r) ==
  /\ QueueStep(opQ, opQ', t, pc[t] \in OpLabels, l \in OpLabels)
  /\ QueueStep(setupQ, setupQ', t, pc[t] \in SetupLabels, l \in SetupLabels)
  /\ QueueStep(reconQ, reconQ', t, InRecon(pc[t], back[t]), InRecon(l, r))

\* What it must respect at the link: whoever else uses the transport keeps it.
LinkOk(t, l, r, h) ==
  /\ mc' \in Refs
  /\ l \in Closing => r \in Returns
  /\ l = "rc_dial" => mc' = None
  /\ l \in Using => h = mc' /\ mc' # None
  /\ mc' # mc => \A u \in Tasks \ {t} : pc[u] \notin Using /\ (pc[u] = "rc_dial" => mc' = None)
  /\ OneTransport' /\ SetupForCurrent'

\* Whoever was inside the lock (H) or is after t's step (H2) is at the head.
LEMMA QueueMoves ==
  ASSUME NEW q \in Seq(Tasks), NEW q2, NEW H, NEW H2, NEW t \in Tasks,
         H \subseteq Tasks, H2 \subseteq Tasks, H2 \ {t} \subseteq H,
         \A u \in H : q # << >> /\ Head(q) = u,
         QueueStep(q, q2, t, t \in H, t \in H2)
  PROVE  q2 \in Seq(Tasks) /\ \A u \in H2 : q2 # << >> /\ Head(q2) = u
  <1>1. CASE q2 = q /\ (t \in H2 => t \in H \/ (q # << >> /\ Head(q) = t))
    BY Zenon, <1>1
  <1>2. CASE q2 = Append(q, t) /\ (t \in H2 => q = << >>)
    <2>1. /\ q2 # << >> /\ q2 \in Seq(Tasks)
          /\ q # << >> => Head(q2) = Head(q)
          /\ q = << >> => Head(q2) = t
      BY <1>2
    <2>2. QED
      BY Zenon, <1>2, <2>1
  <1>3. CASE q2 = Tail(q) /\ t \in H /\ t \notin H2
    BY <1>3
  <1>4. CASE t \notin H2 /\ \E i \in 1..Len(q) : q[i] = t /\ q2 = DropAt(q, i)
    <2>1. PICK i \in 1..Len(q) : q[i] = t /\ q2 = DropAt(q, i)
      BY Zenon, <1>4
    <2>2. q2 \in Seq(Tasks) /\ Len(q2) = Len(q) - 1
      BY <2>1 DEF DropAt
    <2>3. ASSUME NEW u \in H2
          PROVE  q2 # << >> /\ Head(q2) = u
      <3>1. q[1] = u /\ i # 1 /\ Len(q) \in Nat
        BY <1>4, <2>1, <2>3
      <3>2. 1 \in 1..(Len(q) - 1) /\ 1 < i
        BY <2>1, <3>1
      <3>3. q2[1] = q[1]
        BY Zenon, <2>1, <3>2 DEF DropAt
      <3>4. QED
        BY <2>2, <3>1, <3>2, <3>3
    <2>4. QED
      BY Zenon, <2>2, <2>3
  <1>5. QED
    BY Zenon, <1>1, <1>2, <1>3, <1>4 DEF QueueStep

\* A task's move changes nothing of the other tasks.
LEMMA MoveFacts ==
  ASSUME LinkInv, NEW t \in Tasks, NEW l \in Labels, NEW r \in Labels, NEW n,
         NEW h \in Refs, Move(t, l, r, n, h)
  PROVE  /\ pc' \in [Tasks -> Labels] /\ back' \in [Tasks -> Labels] /\ held' \in [Tasks -> Refs]
         /\ pc'[t] = l /\ back'[t] = r /\ held'[t] = h
         /\ \A u \in Tasks \ {t} : pc'[u] = pc[u] /\ back'[u] = back[u] /\ held'[u] = held[u]
  BY Zenon DEF LinkInv, LinkTypes, Move

\* One move of one task that respects the locks and the link.
LEMMA Moves ==
  ASSUME LinkInv, NEW t \in Tasks, NEW l \in Labels, NEW r \in Labels, NEW n,
         NEW h \in Refs, Move(t, l, r, n, h), LocksOk(t, l, r), LinkOk(t, l, r, h)
  PROVE  LinkInv'
  <1>1. /\ pc' \in [Tasks -> Labels] /\ back' \in [Tasks -> Labels] /\ held' \in [Tasks -> Refs]
        /\ pc'[t] = l /\ back'[t] = r /\ held'[t] = h
        /\ \A u \in Tasks \ {t} : pc'[u] = pc[u] /\ back'[u] = back[u] /\ held'[u] = held[u]
    BY Zenon, MoveFacts
  <1>2. opQ \in Seq(Tasks) /\ setupQ \in Seq(Tasks) /\ reconQ \in Seq(Tasks)
    BY Zenon DEF LinkInv, LinkTypes
  <1>3. OpHeld' /\ opQ' \in Seq(Tasks)
    <2> DEFINE H == {u \in Tasks : pc[u] \in OpLabels}
    <2> DEFINE H2 == {u \in Tasks : pc'[u] \in OpLabels}
    <2>1. /\ H \subseteq Tasks /\ H2 \subseteq Tasks /\ H2 \ {t} \subseteq H
          /\ \A u \in H : opQ # << >> /\ Head(opQ) = u
          /\ (t \in H) = (pc[t] \in OpLabels) /\ (t \in H2) = (l \in OpLabels)
      BY <1>1 DEF LinkInv, OpHeld
    <2>2. (\A u \in H2 : opQ' # << >> /\ Head(opQ') = u) => OpHeld'
      BY Zenon DEF OpHeld
    <2> HIDE DEF H, H2
    <2>3. QueueStep(opQ, opQ', t, t \in H, t \in H2)
      BY Zenon, <2>1 DEF LocksOk
    <2>4. QED
      BY <1>2, <2>1, <2>2, <2>3, QueueMoves
  <1>4. SetupHeld' /\ setupQ' \in Seq(Tasks)
    <2> DEFINE H == {u \in Tasks : pc[u] \in SetupLabels}
    <2> DEFINE H2 == {u \in Tasks : pc'[u] \in SetupLabels}
    <2>1. /\ H \subseteq Tasks /\ H2 \subseteq Tasks /\ H2 \ {t} \subseteq H
          /\ \A u \in H : setupQ # << >> /\ Head(setupQ) = u
          /\ (t \in H) = (pc[t] \in SetupLabels) /\ (t \in H2) = (l \in SetupLabels)
      BY <1>1 DEF LinkInv, SetupHeld
    <2>2. (\A u \in H2 : setupQ' # << >> /\ Head(setupQ') = u) => SetupHeld'
      BY Zenon DEF SetupHeld
    <2> HIDE DEF H, H2
    <2>3. QueueStep(setupQ, setupQ', t, t \in H, t \in H2)
      BY Zenon, <2>1 DEF LocksOk
    <2>4. QED
      BY <1>2, <2>1, <2>2, <2>3, QueueMoves
  <1>5. ReconHeld' /\ reconQ' \in Seq(Tasks)
    <2> DEFINE H == {u \in Tasks : InRecon(pc[u], back[u])}
    <2> DEFINE H2 == {u \in Tasks : InRecon(pc'[u], back'[u])}
    <2>1. /\ H \subseteq Tasks /\ H2 \subseteq Tasks /\ H2 \ {t} \subseteq H
          /\ \A u \in H : reconQ # << >> /\ Head(reconQ) = u
          /\ (t \in H) = InRecon(pc[t], back[t]) /\ (t \in H2) = InRecon(l, r)
      BY <1>1 DEF LinkInv, ReconHeld, InRecon
    <2>2. (\A u \in H2 : reconQ' # << >> /\ Head(reconQ') = u) => ReconHeld'
      BY Zenon DEF ReconHeld
    <2> HIDE DEF H, H2
    <2>3. QueueStep(reconQ, reconQ', t, t \in H, t \in H2)
      BY Zenon, <2>1 DEF LocksOk
    <2>4. QED
      BY <1>2, <2>1, <2>2, <2>3, QueueMoves
  <1>6. ReturnsKnown' /\ DialsAlone' /\ StableWhileHeld'
    BY Zenon, <1>1 DEF LinkInv, LinkOk, ReturnsKnown, DialsAlone, StableWhileHeld
  <1>7. QED
    BY Zenon, <1>1, <1>3, <1>4, <1>5, <1>6 DEF LinkInv, LinkTypes, LinkOk

LEMMA Locals ==
  ASSUME LinkInv, NEW t \in Tasks
  PROVE  /\ pc[t] \in Labels /\ back[t] \in Labels /\ held[t] \in Refs /\ mc \in Refs
         /\ pc[t] \in Closing => back[t] \in Returns
         /\ pc[t] \in Using => held[t] = mc /\ mc # None
  BY Zenon DEF LinkInv, LinkTypes, ReturnsKnown, StableWhileHeld

\* Labels that hold no lock, and what such a move may do to the locks and the link.
Plain == {"idle", "sleep", "boot", "pr_start", "su_call", "pr_after", "pa_done", "wd_seen", "wd_rc",
          "rc_wait", "su_wait", "op_wait", "rb_wait"}
LocksKept(t) ==
  /\ \/ opQ' = opQ
     \/ opQ' = Tail(opQ) /\ pc[t] \in OpLabels
     \/ \E i \in 1..Len(opQ) : opQ[i] = t /\ opQ' = DropAt(opQ, i)
  /\ setupQ' = setupQ \/ (setupQ' = Tail(setupQ) /\ pc[t] \in SetupLabels)
  /\ reconQ' = reconQ \/ (reconQ' = Tail(reconQ) /\ pc[t] \in ReconLabels)
LinkKept == UNCHANGED <<mc, open>> /\ done' \in {done, None, mc}

LEMMA PlainMoves ==
  ASSUME LinkInv, NEW t \in Tasks, NEW l \in Plain, NEW r \in Labels, NEW n,
         NEW h \in Refs, Move(t, l, r, n, h), LocksKept(t), LinkKept
  PROVE  LinkInv'
  <1>1. /\ l \in Labels /\ l # "rc_dial"
        /\ l \notin OpLabels /\ l \notin SetupLabels /\ ~InRecon(l, r) /\ l \notin Closing
        /\ l \notin Using
    BY Zenon DEF Plain, Labels, Running, Suspended, OpLabels, SetupLabels, ReconLabels, InRecon, Closing, Using
  <1>2. LocksOk(t, l, r)
    BY Zenon, <1>1 DEF LocksKept, LocksOk, QueueStep, InRecon
  <1>3. LinkOk(t, l, r, h) 
    BY Zenon, <1>1, Locals DEF LinkKept, LinkOk, LinkInv, OneTransport, SetupForCurrent
  <1>4. QED
    BY Zenon, <1>1, <1>2, <1>3, Moves

LEMMA Goes ==
  ASSUME LinkInv, NEW t \in Tasks, NEW l \in Plain, Goto(t, l), LocksKept(t), LinkKept
  PROVE  LinkInv'
  BY Zenon, PlainMoves, Locals DEF Goto

LEMMA Finishes ==
  ASSUME LinkInv, NEW t \in Tasks, Finish(t), LocksKept(t), LinkKept
  PROVE  LinkInv'
  <1>1. Rest(t) \in Plain /\ "idle" \in Labels /\ None \in Refs
    BY Zenon DEF Rest, Plain, Labels, Running, Suspended, Refs
  <1>2. QED
    BY Zenon, <1>1, PlainMoves DEF Finish, Return

\* A call of disconnect(): nothing to close, or the task goes to wait for the radio.
LEMMA CallsDisconnect ==
  ASSUME LinkInv, NEW t \in Tasks, NEW label \in Returns, CallDisconnect(t, label),
         opQ' = opQ \/ (opQ' = Tail(opQ) /\ pc[t] \in OpLabels),
         UNCHANGED <<setupQ, reconQ, mc, open, done>>,
         label \in ReconLabels => pc[t] \in ReconLabels
  PROVE  LinkInv'
  <1>0. label \in Labels /\ "di_stop" \in Labels /\ "idle" \in Labels /\ None \in Refs
        /\ "di_stop" \in Closing /\ "di_stop" \notin OpLabels \cup SetupLabels \cup Using
        /\ "di_stop" # "rc_dial" /\ "di_stop" \notin ReconLabels
        /\ label \notin OpLabels \cup SetupLabels \cup Using \cup Closing
    BY Zenon DEF Returns, Labels, Running, Suspended, Refs, Closing, OpLabels, SetupLabels, ReconLabels, Using
  <1>1. CASE mc = None
    <2>1. Move(t, label, "idle", 0, None)
      BY Zenon, <1>1 DEF CallDisconnect, Return
    <2>2. /\ LocksOk(t, label, "idle")
          /\ LinkOk(t, label, "idle", None)
      BY Zenon, <1>0, <1>1 DEF LocksOk, QueueStep, InRecon, LinkInv, LinkOk, OneTransport, SetupForCurrent
    <2>3. QED
      BY Zenon, <1>0, <2>1, <2>2, Locals, Moves
  <1>2. CASE mc # None
    <2>1. Move(t, "di_stop", label, 0, None)
      BY Zenon, <1>2 DEF CallDisconnect
    <2>2. /\ LocksOk(t, "di_stop", label)
          /\ LinkOk(t, "di_stop", label, None)
      BY Zenon, <1>0, <1>2, Locals DEF LocksOk, QueueStep, InRecon, LinkInv, LinkOk, OneTransport, SetupForCurrent
    <2>3. QED
      BY Zenon, <1>0, <2>1, <2>2, Locals, Moves
  <1>3. QED
    BY Zenon, <1>1, <1>2

\* A call of reconnect(): the task takes the free lock or joins its queue.
LEMMA CallsReconnect ==
  ASSUME LinkInv, NEW t \in Tasks, CallReconnect(t), UNCHANGED <<opQ, setupQ, mc, open, done>>
  PROVE  LinkInv'
  <1> DEFINE l == Entered(reconQ, "rc_wait", "rc_got")
  <1>1. /\ l \in Labels /\ l \notin OpLabels \cup SetupLabels \cup Using \cup Closing
        /\ l # "rc_dial" /\ (l \in ReconLabels => reconQ = << >>)
    BY Zenon DEF Entered, Labels, Running, Suspended, OpLabels, SetupLabels, Using, Closing, ReconLabels
  <1>2. Move(t, l, back[t], tries[t], held[t]) /\ reconQ' = Append(reconQ, t)
    BY Zenon DEF CallReconnect, Goto
  <1> HIDE DEF l
  <1>3. /\ LocksOk(t, l, back[t])
        /\ LinkOk(t, l, back[t], held[t])
    BY Zenon, <1>1, <1>2, Locals DEF LocksOk, QueueStep, InRecon, LinkInv, LinkOk, OneTransport, SetupForCurrent
  <1>4. QED
    BY Zenon, <1>1, <1>2, <1>3, Locals, Moves

\* Label l is inside no lock, and no disconnect, that label k is not inside of.
SameKind(k, l) ==
  /\ l \in OpLabels => k \in OpLabels
  /\ l \in SetupLabels => k \in SetupLabels
  /\ l \in ReconLabels => k \in ReconLabels
  /\ l \in Closing => k \in Closing

\* A holder goes on with the locks it holds, perhaps with a reference to the transport.
LEMMA Holds ==
  ASSUME LinkInv, NEW t \in Tasks, NEW l \in Labels, NEW h \in {held[t], mc},
         Move(t, l, back[t], tries[t], h), UNCHANGED <<lockVars, mc, open, done>>,
         SameKind(pc[t], l), l = "rc_dial" => mc = None, l \in Using => h = mc /\ mc # None
  PROVE  LinkInv'
  <1>1. LocksOk(t, l, back[t])
    BY Zenon DEF LocksOk, QueueStep, InRecon, SameKind, lockVars
  <1>2. LinkOk(t, l, back[t], h) /\ h \in Refs
    BY Zenon, Locals DEF LinkInv, LinkOk, SameKind, OneTransport, SetupForCurrent
  <1>3. QED
    BY Zenon, <1>1, <1>2, Locals, Moves

\* A task takes the free radio or joins its queue.
LEMMA Joins ==
  ASSUME LinkInv, NEW t \in Tasks, NEW wait \in Labels, NEW got \in Labels,
         opQ' = Append(opQ, t), Goto(t, Entered(opQ, wait, got)),
         UNCHANGED <<setupQ, reconQ, mc, open>>, done' \in {done, None},
         SameKind(pc[t], wait), wait \notin OpLabels,
         got \in SetupLabels => pc[t] \in SetupLabels, got \in Closing => pc[t] \in Closing,
         got \notin ReconLabels, {wait, got} \cap (Using \cup {"rc_dial"}) = {}
  PROVE  LinkInv'
  <1> DEFINE l == Entered(opQ, wait, got)
  <1>1. /\ Move(t, l, back[t], tries[t], held[t])
        /\ l \in {wait, got} /\ (l \in OpLabels => opQ = << >>)
    BY Zenon DEF Goto, Entered
  <1> HIDE DEF l
  <1>2. LocksOk(t, l, back[t])
    BY Zenon, <1>1 DEF LocksOk, QueueStep, InRecon, SameKind
  <1>3. LinkOk(t, l, back[t], held[t])
    BY Zenon, <1>1, Locals DEF LinkInv, LinkOk, SameKind, OneTransport, SetupForCurrent
  <1>4. QED
    BY Zenon, <1>1, <1>2, <1>3, Locals, Moves

\* No task moves and the transport stays.
LEMMA Stays ==
  ASSUME LinkInv, UNCHANGED <<taskVars, lockVars, mc, open, done>>
  PROVE  LinkInv'
  BY Zenon DEF LinkInv, LinkTypes, OpHeld, SetupHeld, ReconHeld, ReturnsKnown, DialsAlone, taskVars, lockVars,
     OneTransport, StableWhileHeld, SetupForCurrent

LEMMA TaskNames == /\ Startup \in Tasks /\ Monitor \in Tasks /\ Watchdog \in Tasks
                   /\ Operators \subseteq Tasks /\ Users \subseteq Tasks
  BY Zenon DEF Tasks

LEMMA InitLink == Init => LinkInv
  <1> SUFFICES ASSUME Init PROVE LinkInv
    BY Zenon
  <1> USE DEF Init
  <1>1. \A t \in Tasks : pc[t] \in {"boot", "sleep", "idle"}
    BY Zenon DEF Rest
  <1>2. LinkTypes
    BY DEF LinkTypes, Labels, Refs, Rest, Running, Suspended
  <1>3. OpHeld /\ SetupHeld /\ ReconHeld /\ ReturnsKnown /\ DialsAlone /\ StableWhileHeld
    BY ZenonT(30), <1>1 DEF OpHeld, SetupHeld, ReconHeld, ReturnsKnown, DialsAlone, StableWhileHeld, InRecon,
       OpLabels, SetupLabels, ReconLabels, Closing, Using
  <1>4. QED
    BY Zenon, <1>2, <1>3 DEF LinkInv, OneTransport, SetupForCurrent

LEMMA DisconnectQueueLink ==
  ASSUME LinkInv, NEW t \in Tasks, DisconnectQueue(t)
  PROVE  LinkInv'
  <1>1. /\ opQ' = Append(opQ, t) /\ Goto(t, Entered(opQ, "di_wait", "di_got"))
        /\ UNCHANGED <<setupQ, reconQ, mc, open>> /\ done' \in {done, None}
    BY Zenon DEF DisconnectQueue, linkVars, setupVars
  <1>2. /\ "di_wait" \in Labels /\ "di_got" \in Labels /\ SameKind(pc[t], "di_wait") /\ "di_wait" \notin OpLabels
        /\ "di_got" \in SetupLabels => pc[t] \in SetupLabels
        /\ "di_got" \in Closing => pc[t] \in Closing
        /\ "di_got" \notin ReconLabels /\ {"di_wait", "di_got"} \cap (Using \cup {"rc_dial"}) = {}
    BY Zenon DEF DisconnectQueue, Labels, Running, Suspended, SameKind, OpLabels, SetupLabels,
       ReconLabels, Closing, Using
  <1>3. QED
    BY Zenon, <1>1, <1>2, Joins

LEMMA DisconnectLockedLink ==
  ASSUME LinkInv, NEW t \in Tasks, DisconnectLocked(t)
  PROVE  LinkInv'
  <1>1. CASE mc = None
    <2>0. back[t] \in Returns
      BY Zenon, Locals DEF DisconnectLocked, Closing
    <2>1. /\ Move(t, back[t], "idle", 0, None)
          /\ back[t] \in Labels /\ "idle" \in Labels /\ None \in Refs
          /\ LocksOk(t, back[t], "idle") /\ LinkOk(t, back[t], "idle", None)
      BY Zenon, <1>1, <2>0, Locals DEF DisconnectLocked, Return, Labels, Running, Suspended, Refs,
         LocksOk, QueueStep, InRecon, OpLabels, SetupLabels, ReconLabels, Closing, Using,
         LinkInv, LinkOk, OneTransport, SetupForCurrent, linkVars, setupVars, lockVars, Returns
    <2>2. QED
      BY Zenon, <2>1, Moves
  <1>2. CASE mc # None
    <2>1. Move(t, "di_close", back[t], tries[t], mc) /\ UNCHANGED <<lockVars, mc, open, done>>
      BY Zenon, <1>2 DEF DisconnectLocked, Take, lockVars, linkVars, setupVars
    <2>2. /\ "di_close" \in Labels /\ SameKind(pc[t], "di_close") /\ ("di_close" = "rc_dial" => mc = None)
          /\ "di_close" \in Using => mc = mc /\ mc # None
      BY Zenon, <1>2, Locals DEF DisconnectLocked, Labels, Running, Suspended, SameKind, OpLabels,
         SetupLabels, ReconLabels, Closing, Using
    <2>3. QED
      BY Zenon, <2>1, <2>2, Holds
  <1>3. QED
    BY Zenon, <1>1, <1>2 DEF DisconnectLocked

LEMMA DisconnectClosedLink ==
  ASSUME LinkInv, NEW t \in Tasks, DisconnectClosed(t)
  PROVE  LinkInv'
  <1>0. /\ back[t] \in Returns /\ held[t] = mc
        /\ \A u \in Tasks \ {t} : pc[u] \notin Using
    <2>1. Using \subseteq OpLabels /\ "di_close" \in Using /\ "di_close" \in Closing
      BY Zenon, SMTT(30) DEF Using, OpLabels, Closing
    <2>2. QED
      BY Zenon, <2>1, Locals DEF LinkInv, OpHeld, DisconnectClosed
  <1>1. /\ Move(t, back[t], "idle", 0, None)
        /\ back[t] \in Labels /\ "idle" \in Labels /\ None \in Refs
        /\ LocksOk(t, back[t], "idle") /\ LinkOk(t, back[t], "idle", None)
    BY Zenon, <1>0, Locals DEF DisconnectClosed, Return, Labels, Running, Suspended, Refs, LocksOk,
       QueueStep, InRecon, OpLabels, SetupLabels, ReconLabels, Closing, Using, LinkInv, LinkOk,
       OneTransport, SetupForCurrent, linkVars, setupVars, lockVars, Returns
  <1>2. QED
    BY Zenon, <1>1, Moves

LEMMA DisconnectFailsLink ==
  ASSUME LinkInv, NEW t \in Tasks, DisconnectFails(t)
  PROVE  LinkInv'
  <1>0. Raised(t) \in {"rc_connect", "rc_no", "pa_done", "wd_rc", "idle", "sleep"}
        /\ (Raised(t) \in ReconLabels => back[t] \in ReconLabels)
    <2>1. back[t] \in Returns
      BY Zenon, Locals DEF DisconnectFails, Closing
    <2>2. QED
      BY Zenon, <2>1 DEF Raised, Returns, Rest, ReconLabels
  <1>1. /\ Move(t, Raised(t), "idle", 0, None)
        /\ Raised(t) \in Labels /\ "idle" \in Labels /\ None \in Refs
        /\ LocksOk(t, Raised(t), "idle") /\ LinkOk(t, Raised(t), "idle", None)
    BY ZenonT(30), <1>0, Locals DEF DisconnectFails, Return, Labels, Running, Suspended, Refs, LocksOk,
       QueueStep, InRecon, OpLabels, SetupLabels, ReconLabels, Closing, Using, LinkInv, LinkOk,
       OneTransport, SetupForCurrent, linkVars, setupVars, lockVars
  <1>2. QED
    BY Zenon, <1>1, Moves

LEMMA ReconnectLockedRunLink ==
  ASSUME LinkInv, NEW t \in Tasks, ReconnectLockedRun(t)
  PROVE  LinkInv'
  <1>1. CASE ~desired
    <2>1. Move(t, "rc_no", back[t], tries[t], held[t]) /\ UNCHANGED <<lockVars, mc, open, done>>
      BY Zenon, <1>1 DEF ReconnectLockedRun, Goto, lockVars, linkVars, setupVars
    <2>2. /\ "rc_no" \in Labels /\ SameKind(pc[t], "rc_no") /\ ("rc_no" = "rc_dial" => mc = None)
          /\ "rc_no" \in Using => held[t] = mc /\ mc # None
      BY Zenon, <1>1, Locals DEF ReconnectLockedRun, Labels, Running, Suspended, SameKind, OpLabels,
         SetupLabels, ReconLabels, Closing, Using
    <2>3. QED
      BY Zenon, <2>1, <2>2, Holds
  <1>2. CASE desired /\ Connected
    <2>1. Goto(t, "pr_start") /\ LocksKept(t) /\ LinkKept /\ "pr_start" \in Plain
      BY Zenon, <1>2, Locals DEF ReconnectLockedRun, Connected, LocksKept, LinkKept, OpLabels,
         SetupLabels, ReconLabels, Using, Plain, linkVars, setupVars, lockVars
    <2>2. QED
      BY Zenon, <2>1, Goes
  <1>3. CASE desired /\ ~Connected /\ mc # None
    <2>1. /\ CallDisconnect(t, "rc_connect") /\ UNCHANGED <<setupQ, reconQ, mc, open, done>>
          /\ opQ' = opQ \/ (opQ' = Tail(opQ) /\ pc[t] \in OpLabels)
          /\ "rc_connect" \in Returns /\ ("rc_connect" \in ReconLabels => pc[t] \in ReconLabels)
      BY Zenon, <1>3 DEF ReconnectLockedRun, Connected, OpLabels, Returns, ReconLabels, Rest, lockVars,
         linkVars, setupVars
    <2>2. QED
      BY Zenon, <2>1, CallsDisconnect
  <1>4. CASE desired /\ mc = None
    <2>1. Move(t, "rc_connect", back[t], tries[t], held[t]) /\ UNCHANGED <<lockVars, mc, open, done>>
      BY Zenon, <1>4 DEF ReconnectLockedRun, Goto, Connected, lockVars, linkVars, setupVars
    <2>2. /\ "rc_connect" \in Labels /\ SameKind(pc[t], "rc_connect") /\ ("rc_connect" = "rc_dial" => mc = None)
          /\ "rc_connect" \in Using => held[t] = mc /\ mc # None
      BY Zenon, <1>4, Locals DEF ReconnectLockedRun, Labels, Running, Suspended, SameKind, OpLabels,
         SetupLabels, ReconLabels, Closing, Using
    <2>3. QED
      BY Zenon, <2>1, <2>2, Holds
  <1>5. QED
    BY Zenon, <1>1, <1>2, <1>3, <1>4 DEF ReconnectLockedRun

LEMMA ConnectLink ==
  ASSUME LinkInv, NEW t \in Tasks, Connect(t)
  PROVE  LinkInv'
  <1>1. CASE mc # None
    <2>1. /\ CallDisconnect(t, "rc_dial") /\ UNCHANGED <<setupQ, reconQ, mc, open, done>>
          /\ opQ' = opQ \/ (opQ' = Tail(opQ) /\ pc[t] \in OpLabels)
          /\ "rc_dial" \in Returns /\ ("rc_dial" \in ReconLabels => pc[t] \in ReconLabels)
      BY Zenon, <1>1 DEF Connect, OpLabels, Returns, ReconLabels, Rest, lockVars, linkVars, setupVars
    <2>2. QED
      BY Zenon, <2>1, CallsDisconnect
  <1>2. CASE mc = None
    <2>1. Move(t, "rc_dial", back[t], tries[t], held[t]) /\ UNCHANGED <<lockVars, mc, open, done>>
      BY Zenon, <1>2 DEF Connect, Goto, lockVars, linkVars, setupVars
    <2>2. /\ "rc_dial" \in Labels /\ SameKind(pc[t], "rc_dial") /\ ("rc_dial" = "rc_dial" => mc = None)
          /\ "rc_dial" \in Using => held[t] = mc /\ mc # None
      BY Zenon, <1>2, Locals DEF Connect, Labels, Running, Suspended, SameKind, OpLabels, SetupLabels,
         ReconLabels, Closing, Using
    <2>3. QED
      BY Zenon, <2>1, <2>2, Holds
  <1>3. QED
    BY Zenon, <1>1, <1>2 DEF Connect

LEMMA DialedLink ==
  ASSUME LinkInv, NEW t \in Tasks, NEW alive, Dialed(t, alive)
  PROVE  LinkInv'
  <1>1. pc[t] = "rc_dial" /\ Move(t, "rc_dialed", back[t], tries[t], held[t]) /\ UNCHANGED lockVars
    BY Zenon, SMTT(30) DEF Dialed, Goto
  <1>2. mc = None /\ open = {}
    BY Zenon, <1>1 DEF LinkInv, DialsAlone, OneTransport
  <1>3. PICK new \in Transports : mc' = new /\ open' = open \cup {new}
    BY Zenon DEF Dialed, Fresh
  <1>4. \A u \in Tasks \ {t} : pc[u] \notin Using /\ pc[u] # "rc_dial"
    BY Zenon, <1>1, <1>2 DEF LinkInv, StableWhileHeld, ReconHeld, InRecon, ReconLabels
  <1>5. "rc_dialed" \in Labels /\ "rc_dialed" \notin Using \cup Closing
    BY Zenon DEF Labels, Running, Suspended, Using, Closing
  <1>6. LocksOk(t, "rc_dialed", back[t])
    BY Zenon, <1>1 DEF lockVars, LocksOk, QueueStep, InRecon, OpLabels, SetupLabels, ReconLabels, Closing
  <1>7. LinkOk(t, "rc_dialed", back[t], held[t])
    BY Zenon, <1>2, <1>3, <1>4, <1>5, BoundsAssumption
    DEF Dialed, LinkOk, OneTransport, SetupForCurrent, Refs
  <1>8. QED
    BY Zenon, <1>1, <1>5, <1>6, <1>7, Locals, Moves

LEMMA DialFailsLink ==
  ASSUME LinkInv, NEW t \in Tasks, DialFails(t)
  PROVE  LinkInv'
  <1>1. Move(t, "rc_no", back[t], tries[t], held[t]) /\ UNCHANGED <<lockVars, mc, open, done>>
    BY Zenon DEF DialFails, Goto, lockVars, linkVars, setupVars
  <1>2. /\ "rc_no" \in Labels /\ SameKind(pc[t], "rc_no") /\ ("rc_no" = "rc_dial" => mc = None)
        /\ "rc_no" \in Using => held[t] = mc /\ mc # None
    BY Zenon, Locals DEF DialFails, Labels, Running, Suspended, SameKind, OpLabels, SetupLabels,
       ReconLabels, Closing, Using
  <1>3. QED
    BY Zenon, <1>1, <1>2, Holds

LEMMA ReconnectDialedLink ==
  ASSUME LinkInv, NEW t \in Tasks, ReconnectDialed(t)
  PROVE  LinkInv'
  <1>1. CASE ~desired
    <2>1. /\ CallDisconnect(t, "rc_no") /\ UNCHANGED <<setupQ, reconQ, mc, open, done>>
          /\ opQ' = opQ \/ (opQ' = Tail(opQ) /\ pc[t] \in OpLabels)
          /\ "rc_no" \in Returns /\ ("rc_no" \in ReconLabels => pc[t] \in ReconLabels)
      BY Zenon, <1>1 DEF ReconnectDialed, OpLabels, Returns, ReconLabels, Rest, lockVars, linkVars,
         setupVars
    <2>2. QED
      BY Zenon, <2>1, CallsDisconnect
  <1>2. CASE desired /\ up
    <2>1. Goto(t, "pr_start") /\ LocksKept(t) /\ LinkKept /\ "pr_start" \in Plain
      BY Zenon, <1>2, Locals DEF ReconnectDialed, LocksKept, LinkKept, OpLabels, SetupLabels,
         ReconLabels, Using, Plain, linkVars, setupVars, lockVars
    <2>2. QED
      BY Zenon, <2>1, Goes
  <1>3. CASE desired /\ ~up
    <2>1. Move(t, "rc_no", back[t], tries[t], held[t]) /\ UNCHANGED <<lockVars, mc, open, done>>
      BY Zenon, <1>3 DEF ReconnectDialed, Goto, lockVars, linkVars, setupVars
    <2>2. /\ "rc_no" \in Labels /\ SameKind(pc[t], "rc_no") /\ ("rc_no" = "rc_dial" => mc = None)
          /\ "rc_no" \in Using => held[t] = mc /\ mc # None
      BY Zenon, <1>3, Locals DEF ReconnectDialed, Labels, Running, Suspended, SameKind, OpLabels,
         SetupLabels, ReconLabels, Closing, Using
    <2>3. QED
      BY Zenon, <2>1, <2>2, Holds
  <1>4. QED
    BY Zenon, <1>1, <1>2, <1>3 DEF ReconnectDialed

LEMMA ReconnectEndsLink ==
  ASSUME LinkInv, NEW t \in Tasks, ReconnectEnds(t)
  PROVE  LinkInv'
  <1>1. Finish(t) /\ LocksKept(t) /\ LinkKept
    BY Zenon, Locals DEF ReconnectEnds, LocksKept, LinkKept, OpLabels, SetupLabels, ReconLabels, Using,
       linkVars, setupVars, lockVars
  <1>2. QED
    BY Zenon, <1>1, Finishes

LEMMA PrepareStartLink ==
  ASSUME LinkInv, NEW t \in Tasks, PrepareStart(t)
  PROVE  LinkInv'
  <1>1. CASE ~desired /\ Connected
    <2>1. /\ CallDisconnect(t, Rest(t)) /\ UNCHANGED <<setupQ, reconQ, mc, open, done>>
          /\ opQ' = opQ \/ (opQ' = Tail(opQ) /\ pc[t] \in OpLabels)
          /\ Rest(t) \in Returns /\ (Rest(t) \in ReconLabels => pc[t] \in ReconLabels)
      BY Zenon, <1>1 DEF PrepareStart, PausedOut, OpLabels, Returns, ReconLabels, Rest, lockVars,
         linkVars, setupVars
    <2>2. QED
      BY Zenon, <2>1, CallsDisconnect
  <1>2. CASE ~desired /\ ~Connected
    <2>1. Finish(t) /\ LocksKept(t) /\ LinkKept
      BY Zenon, <1>2, Locals DEF PrepareStart, PausedOut, LocksKept, LinkKept, OpLabels, SetupLabels,
         ReconLabels, Using, linkVars, setupVars, lockVars
    <2>2. QED
      BY Zenon, <2>1, Finishes
  <1>3. CASE desired
    <2>1. Move(t, "su_call", back[t], 1, held[t]) /\ LocksKept(t) /\ LinkKept
      BY Zenon, <1>3 DEF PrepareStart, PausedOut, LocksKept, LinkKept, linkVars, setupVars, lockVars
    <2>2. "su_call" \in Plain
      BY Zenon DEF Plain
    <2>3. QED
      BY Zenon, <2>1, <2>2, Locals, PlainMoves
  <1>4. QED
    BY Zenon, <1>1, <1>2, <1>3 DEF PrepareStart

LEMMA PrepareEndsLink ==
  ASSUME LinkInv, NEW t \in Tasks, PrepareEnds(t)
  PROVE  LinkInv'
  <1>1. CASE ~desired /\ Connected
    <2>1. /\ CallDisconnect(t, Rest(t)) /\ UNCHANGED <<setupQ, reconQ, mc, open, done>>
          /\ opQ' = opQ \/ (opQ' = Tail(opQ) /\ pc[t] \in OpLabels)
          /\ Rest(t) \in Returns /\ (Rest(t) \in ReconLabels => pc[t] \in ReconLabels)
      BY Zenon, <1>1 DEF PrepareEnds, PausedOut, OpLabels, Returns, ReconLabels, Rest, lockVars,
         linkVars, setupVars
    <2>2. QED
      BY Zenon, <2>1, CallsDisconnect
  <1>2. CASE ~desired /\ ~Connected
    <2>1. Finish(t) /\ LocksKept(t) /\ LinkKept
      BY Zenon, <1>2, Locals DEF PrepareEnds, PausedOut, LocksKept, LinkKept, OpLabels, SetupLabels,
         ReconLabels, Using, linkVars, setupVars, lockVars
    <2>2. QED
      BY Zenon, <2>1, Finishes
  <1>3. CASE desired
    <2>1. Finish(t) /\ LocksKept(t) /\ LinkKept
      BY Zenon, <1>3, Locals DEF PrepareEnds, PausedOut, LocksKept, LinkKept, OpLabels, SetupLabels,
         ReconLabels, Using, linkVars, setupVars, lockVars
    <2>2. QED
      BY Zenon, <2>1, Finishes
  <1>4. QED
    BY Zenon, <1>1, <1>2, <1>3 DEF PrepareEnds

LEMMA SetupCallLink ==
  ASSUME LinkInv, NEW t \in Tasks, SetupCall(t)
  PROVE  LinkInv'
  <1>1. CASE mc = None
    <2>1. Goto(t, "pr_after") /\ LocksKept(t) /\ LinkKept /\ "pr_after" \in Plain
      BY Zenon, <1>1, Locals DEF SetupCall, LocksKept, LinkKept, OpLabels, SetupLabels, ReconLabels,
         Using, Plain, linkVars, setupVars, lockVars
    <2>2. QED
      BY Zenon, <2>1, Goes
  <1>2. CASE mc # None
    <2> DEFINE l == Entered(setupQ, "su_wait", "su_got")
    <2>1. /\ Move(t, l, back[t], tries[t], held[t])
          /\ l \in {"su_wait", "su_got"} /\ (l = "su_got" => setupQ = << >>)
      BY Zenon, <1>2 DEF SetupCall, Goto, Entered
    <2> HIDE DEF l
    <2>2. /\ l \in Labels /\ back[t] \in Labels /\ held[t] \in Refs
          /\ LocksOk(t, l, back[t]) /\ LinkOk(t, l, back[t], held[t])
      BY Zenon, <1>2, <2>1, Locals DEF SetupCall, Labels, Running, Suspended, Refs, LocksOk, QueueStep,
         InRecon, OpLabels, SetupLabels, ReconLabels, Closing, Using, LinkInv, LinkOk,
         OneTransport, SetupForCurrent, linkVars, setupVars, lockVars
    <2>3. QED
      BY Zenon, <2>1, <2>2, Moves
  <1>3. QED
    BY Zenon, <1>1, <1>2 DEF SetupCall

LEMMA SetupBodyLink ==
  ASSUME LinkInv, NEW t \in Tasks, SetupBody(t)
  PROVE  LinkInv'
  <1>1. CASE mc = None
    <2>1. Goto(t, "pr_after") /\ LocksKept(t) /\ LinkKept /\ "pr_after" \in Plain
      BY Zenon, <1>1, Locals DEF SetupBody, LocksKept, LinkKept, OpLabels, SetupLabels, ReconLabels,
         Using, Plain, linkVars, setupVars, lockVars
    <2>2. QED
      BY Zenon, <2>1, Goes
  <1>2. CASE mc # None
    <2>1. /\ opQ' = Append(opQ, t) /\ Goto(t, Entered(opQ, "suop_wait", "suop_got"))
          /\ UNCHANGED <<setupQ, reconQ, mc, open>> /\ done' \in {done, None}
      BY Zenon, <1>2 DEF SetupBody, linkVars, setupVars
    <2>2. /\ "suop_wait" \in Labels /\ "suop_got" \in Labels /\ SameKind(pc[t], "suop_wait") /\ "suop_wait" \notin OpLabels
          /\ "suop_got" \in SetupLabels => pc[t] \in SetupLabels
          /\ "suop_got" \in Closing => pc[t] \in Closing
          /\ "suop_got" \notin ReconLabels /\ {"suop_wait", "suop_got"} \cap (Using \cup {"rc_dial"}) = {}
      BY Zenon, <1>2 DEF SetupBody, Labels, Running, Suspended, SameKind, OpLabels, SetupLabels,
         ReconLabels, Closing, Using
    <2>3. QED
      BY Zenon, <2>1, <2>2, Joins
  <1>3. QED
    BY Zenon, <1>1, <1>2 DEF SetupBody

LEMMA SetupLockedLink ==
  ASSUME LinkInv, NEW t \in Tasks, SetupLocked(t)
  PROVE  LinkInv'
  <1>1. CASE mc = None
    <2>1. Goto(t, "pr_after") /\ LocksKept(t) /\ LinkKept /\ "pr_after" \in Plain
      BY Zenon, <1>1, Locals DEF SetupLocked, LocksKept, LinkKept, OpLabels, SetupLabels, ReconLabels,
         Using, Plain, linkVars, setupVars, lockVars
    <2>2. QED
      BY Zenon, <2>1, Goes
  <1>2. CASE mc # None
    <2>1. Move(t, "su_export", back[t], tries[t], mc) /\ UNCHANGED <<lockVars, mc, open, done>>
      BY Zenon, <1>2 DEF SetupLocked, Take, lockVars, linkVars, setupVars
    <2>2. /\ "su_export" \in Labels /\ SameKind(pc[t], "su_export") /\ ("su_export" = "rc_dial" => mc = None)
          /\ "su_export" \in Using => mc = mc /\ mc # None
      BY Zenon, <1>2, Locals DEF SetupLocked, Labels, Running, Suspended, SameKind, OpLabels,
         SetupLabels, ReconLabels, Closing, Using
    <2>3. QED
      BY Zenon, <2>1, <2>2, Holds
  <1>3. QED
    BY Zenon, <1>1, <1>2 DEF SetupLocked

LEMMA SetupExportLink ==
  ASSUME LinkInv, NEW t \in Tasks, SetupExport(t)
  PROVE  LinkInv'
  <1>1. Move(t, "su_sync", back[t], tries[t], held[t]) /\ UNCHANGED <<lockVars, mc, open, done>>
    BY Zenon DEF SetupExport, Goto, lockVars, linkVars, setupVars
  <1>2. /\ "su_sync" \in Labels /\ SameKind(pc[t], "su_sync") /\ ("su_sync" = "rc_dial" => mc = None)
        /\ "su_sync" \in Using => held[t] = mc /\ mc # None
    BY Zenon, Locals DEF SetupExport, Labels, Running, Suspended, SameKind, OpLabels, SetupLabels,
       ReconLabels, Closing, Using
  <1>3. QED
    BY Zenon, <1>1, <1>2, Holds

LEMMA SetupSyncLink ==
  ASSUME LinkInv, NEW t \in Tasks, SetupSync(t)
  PROVE  LinkInv'
  <1>1. Move(t, "pr_after", back[t], tries[t], None) /\ LocksKept(t) /\ LinkKept
    BY Zenon, Locals DEF SetupSync, Release, LocksKept, LinkKept, OpLabels, SetupLabels, Using,
       linkVars, setupVars, lockVars
  <1>2. "pr_after" \in Plain /\ None \in Refs
    BY Zenon, SMTT(30) DEF Plain, Refs
  <1>3. QED
    BY Zenon, <1>1, <1>2, Locals, PlainMoves

LEMMA SetupFailsLink ==
  ASSUME LinkInv, NEW t \in Tasks, SetupFails(t)
  PROVE  LinkInv'
  <1>1. Finish(t) /\ LocksKept(t) /\ LinkKept
    BY Zenon, Locals DEF SetupFails, LocksKept, LinkKept, OpLabels, SetupLabels, ReconLabels, Using,
       linkVars, setupVars, lockVars
  <1>2. QED
    BY Zenon, <1>1, Finishes

LEMMA SetupTimesOutLink ==
  ASSUME LinkInv, NEW t \in Tasks, SetupTimesOut(t)
  PROVE  LinkInv'
  <1>1. CASE tries[t] = 1
    <2>1. Move(t, "su_call", back[t], 2, None) /\ LocksKept(t) /\ LinkKept
      BY Zenon, <1>1, Locals DEF SetupTimesOut, LocksKept, LinkKept, OpLabels, SetupLabels, Using,
         linkVars, setupVars, lockVars
    <2>2. "su_call" \in Plain /\ None \in Refs
      BY Zenon, SMTT(30) DEF Plain, Refs
    <2>3. QED
      BY Zenon, <2>1, <2>2, Locals, PlainMoves
  <1>2. CASE tries[t] # 1
    <2>1. Finish(t) /\ LocksKept(t) /\ LinkKept
      BY Zenon, <1>2, Locals DEF SetupTimesOut, LocksKept, LinkKept, OpLabels, SetupLabels,
         ReconLabels, Using, linkVars, setupVars, lockVars
    <2>2. QED
      BY Zenon, <2>1, Finishes
  <1>3. QED
    BY Zenon, <1>1, <1>2 DEF SetupTimesOut

\* A task at the head of the queue it waits in takes the lock.
LEMMA Wakes ==
  ASSUME LinkInv, NEW t \in Tasks, NEW q, NEW wait, NEW got \in Labels \ (Using \cup {"rc_dial"}),
         WaitingFor(q, wait, got, t),
         got \in OpLabels => q = opQ \/ wait \in OpLabels,
         got \in SetupLabels => q = setupQ \/ wait \in SetupLabels,
         InRecon(got, back[t]) => q = reconQ \/ InRecon(wait, back[t]),
         got \in Closing => wait \in Closing
  PROVE  LinkInv'
  <1>1. Move(t, got, back[t], tries[t], held[t])
    BY Zenon, SMTT(30) DEF WaitingFor, Goto
  <1>2. LocksOk(t, got, back[t])
    BY SMTT(30) DEF WaitingFor, lockVars, LocksOk, QueueStep
  <1>3. LinkOk(t, got, back[t], held[t])
    BY Zenon, Locals DEF WaitingFor, linkVars, setupVars, LinkInv, LinkOk, OneTransport, SetupForCurrent
  <1>4. QED
    BY Zenon, <1>1, <1>2, <1>3, Locals, Moves

LEMMA WakeLink ==
  ASSUME LinkInv, NEW t \in Tasks, Wake(t)
  PROVE  LinkInv'
  <1>1. CASE WaitingFor(reconQ, "rc_wait", "rc_got", t)
    BY Zenon, <1>1, Wakes DEF Labels, Running, Suspended, OpLabels, SetupLabels, ReconLabels, Closing, InRecon, Using
  <1>2. CASE WaitingFor(setupQ, "su_wait", "su_got", t)
    BY Zenon, <1>2, Wakes DEF Labels, Running, Suspended, OpLabels, SetupLabels, ReconLabels, Closing, InRecon, Using
  <1>3. CASE WaitingFor(opQ, "suop_wait", "suop_got", t)
    BY Zenon, <1>3, Wakes DEF Labels, Running, Suspended, OpLabels, SetupLabels, ReconLabels, Closing, InRecon, Using
  <1>4. CASE WaitingFor(opQ, "di_wait", "di_got", t)
    BY Zenon, <1>4, Wakes DEF Labels, Running, Suspended, OpLabels, SetupLabels, ReconLabels, Closing, InRecon, Using
  <1>5. CASE WaitingFor(opQ, "op_wait", "op_got", t)
    BY Zenon, <1>5, Wakes DEF Labels, Running, Suspended, OpLabels, SetupLabels, ReconLabels, Closing, InRecon, Using
  <1>6. CASE WaitingFor(opQ, "rb_wait", "rb_got", t)
    BY Zenon, <1>6, Wakes DEF Labels, Running, Suspended, OpLabels, SetupLabels, ReconLabels, Closing, InRecon, Using
  <1>7. QED
    BY Zenon, <1>1, <1>2, <1>3, <1>4, <1>5, <1>6 DEF Wake

LEMMA MonitorTickLink ==
  ASSUME LinkInv, MonitorTick
  PROVE  LinkInv'
  <1>1. pc[Monitor] = "sleep" /\ UNCHANGED <<mc, open, done, setupQ, opQ>>
    BY Zenon DEF MonitorTick, linkVars, setupVars
  <1>2. CASE UNCHANGED <<taskVars, reconQ>>
    BY Zenon, <1>1, <1>2, Stays DEF lockVars
  <1>3. CASE CallDisconnect(Monitor, "sleep") /\ UNCHANGED reconQ
    <2>1. "sleep" \in Returns /\ "sleep" \notin ReconLabels
      BY Zenon DEF Returns, ReconLabels
    <2>2. QED
      BY Zenon, <1>1, <1>3, <2>1, TaskNames, CallsDisconnect
  <1>4. CASE CallReconnect(Monitor)
    BY Zenon, <1>1, <1>4, TaskNames, CallsReconnect
  <1>5. CASE Goto(Monitor, "pr_start") /\ UNCHANGED reconQ
    <2>1. "pr_start" \in Plain /\ LocksKept(Monitor) /\ LinkKept
      BY Zenon, <1>1, <1>5 DEF Plain, LocksKept, LinkKept
    <2>2. QED
      BY Zenon, <1>5, <2>1, TaskNames, Goes
  <1>6. QED
    BY Zenon, <1>2, <1>3, <1>4, <1>5 DEF MonitorTick, MonitorPaused, MonitorReconnects, MonitorPrepares

LEMMA BootLink ==
  ASSUME LinkInv, Boot
  PROVE  LinkInv'
  BY Zenon, TaskNames, CallsReconnect DEF Boot, linkVars, setupVars

LEMMA WatchdogReconnectsLink ==
  ASSUME LinkInv, WatchdogReconnects
  PROVE  LinkInv'
  BY Zenon, TaskNames, CallsReconnect DEF WatchdogReconnects, linkVars, setupVars

LEMMA PauseLink ==
  ASSUME LinkInv, NEW t \in Tasks, Pause(t)
  PROVE  LinkInv'
  <1>1. /\ CallDisconnect(t, "pa_done") /\ UNCHANGED <<setupQ, reconQ, mc, open, done>>
        /\ opQ' = opQ \/ (opQ' = Tail(opQ) /\ pc[t] \in OpLabels)
        /\ "pa_done" \in Returns /\ ("pa_done" \in ReconLabels => pc[t] \in ReconLabels)
    BY Zenon DEF Pause, OpLabels, Returns, ReconLabels, Rest, lockVars, linkVars, setupVars
  <1>2. QED
    BY Zenon, <1>1, CallsDisconnect

LEMMA WatchdogProbesLink ==
  ASSUME LinkInv, WatchdogProbes
  PROVE  LinkInv'
  <1>1. /\ Move(Watchdog, "wd_run", back[Watchdog], tries[Watchdog], mc)
        /\ opQ = << >> /\ opQ' = Append(opQ, Watchdog)
        /\ UNCHANGED <<setupQ, reconQ, mc, open, done>> /\ mc # None
    BY Zenon DEF WatchdogProbes, Connected, Take, linkVars, setupVars
  <1>2. /\ "wd_run" \in Labels /\ "wd_run" # "rc_dial"
        /\ "wd_run" \notin SetupLabels \cup ReconLabels \cup Closing
    BY Zenon DEF Labels, Running, Suspended, SetupLabels, ReconLabels, Closing
  <1>3. LocksOk(Watchdog, "wd_run", back[Watchdog])
    BY Zenon, <1>1, <1>2 DEF LocksOk, QueueStep, InRecon
  <1>4. LinkOk(Watchdog, "wd_run", back[Watchdog], mc)
    BY Zenon, <1>1, <1>2, Locals, TaskNames DEF LinkInv, LinkOk, OneTransport, SetupForCurrent
  <1>5. QED
    BY Zenon, <1>1, <1>2, <1>3, <1>4, Locals, TaskNames, Moves

LEMMA ProbeEndsLink ==
  ASSUME LinkInv, ProbeEnds
  PROVE  LinkInv'
  <1>1. /\ Move(Watchdog, "wd_seen", back[Watchdog], tries[Watchdog], None)
        /\ "wd_seen" \in Plain /\ None \in Refs /\ LocksKept(Watchdog) /\ LinkKept
    BY Zenon DEF ProbeEnds, Release, LocksKept, LinkKept, OpLabels, Plain, Refs, linkVars, setupVars
  <1>2. QED
    BY Zenon, <1>1, Locals, TaskNames, PlainMoves

LEMMA ProbeCalmLink ==
  ASSUME LinkInv, ProbeCalm
  PROVE  LinkInv'
  <1>1. Finish(Watchdog) /\ LocksKept(Watchdog) /\ LinkKept
    BY Zenon DEF ProbeCalm, LocksKept, LinkKept, linkVars, setupVars, lockVars
  <1>2. QED
    BY Zenon, <1>1, TaskNames, Finishes

LEMMA EscalateReconnectLink ==
  ASSUME LinkInv, EscalateReconnect
  PROVE  LinkInv'
  <1>1. /\ CallDisconnect(Watchdog, "wd_rc") /\ UNCHANGED <<setupQ, reconQ, mc, open, done>>
        /\ opQ' = opQ \/ (opQ' = Tail(opQ) /\ pc[Watchdog] \in OpLabels)
        /\ "wd_rc" \in Returns /\ ("wd_rc" \in ReconLabels => pc[Watchdog] \in ReconLabels)
    BY Zenon DEF EscalateReconnect, OpLabels, Returns, ReconLabels, Rest, lockVars, linkVars,
       setupVars
  <1>2. QED
    BY Zenon, <1>1, CallsDisconnect, TaskNames

LEMMA PauseEndsLink ==
  ASSUME LinkInv, NEW t \in Tasks, PauseEnds(t)
  PROVE  LinkInv'
  <1>1. Finish(t) /\ LocksKept(t) /\ LinkKept
    BY Zenon, Locals DEF PauseEnds, LocksKept, LinkKept, OpLabels, SetupLabels, ReconLabels, Using,
       linkVars, setupVars, lockVars
  <1>2. QED
    BY Zenon, <1>1, Finishes

LEMMA AskReconnectLink ==
  ASSUME LinkInv, NEW t \in Tasks, AskReconnect(t)
  PROVE  LinkInv'
  <1>1. CASE Connected /\ done = None
    <2>1. Goto(t, "pr_start") /\ LocksKept(t) /\ LinkKept /\ "pr_start" \in Plain
      BY Zenon, <1>1, Locals DEF AskReconnect, LocksKept, LinkKept, OpLabels, SetupLabels, ReconLabels,
         Using, Plain, linkVars, setupVars, lockVars
    <2>2. QED
      BY Zenon, <2>1, Goes
  <1>2. CASE ~Connected
    <2>1. UNCHANGED <<mc, open, done, setupQ, opQ>>
      BY Zenon DEF AskReconnect, linkVars, setupVars
    <2>2. CASE UNCHANGED <<taskVars, reconQ>>
      BY Zenon, <2>1, <2>2, Stays DEF lockVars
    <2>3. CASE CallReconnect(t)
      BY Zenon, <2>1, <2>3, CallsReconnect
    <2>4. QED
      BY Zenon, <1>2, <2>2, <2>3 DEF AskReconnect
  <1>3. QED
    BY Zenon, <1>1, <1>2 DEF AskReconnect

LEMMA OperationLink ==
  ASSUME LinkInv, NEW t \in Tasks, Operation(t)
  PROVE  LinkInv'
  <1>1. /\ opQ' = Append(opQ, t) /\ Goto(t, Entered(opQ, "op_wait", "op_got"))
        /\ UNCHANGED <<setupQ, reconQ, mc, open>> /\ done' \in {done, None}
    BY Zenon DEF Operation, Ask, linkVars, setupVars
  <1>2. /\ "op_wait" \in Labels /\ "op_got" \in Labels /\ SameKind(pc[t], "op_wait") /\ "op_wait" \notin OpLabels
        /\ "op_got" \in SetupLabels => pc[t] \in SetupLabels
        /\ "op_got" \in Closing => pc[t] \in Closing
        /\ "op_got" \notin ReconLabels /\ {"op_wait", "op_got"} \cap (Using \cup {"rc_dial"}) = {}
    BY Zenon DEF Operation, Ask, Labels, Running, Suspended, SameKind, OpLabels, SetupLabels,
       ReconLabels, Closing, Using
  <1>3. QED
    BY Zenon, <1>1, <1>2, Joins

LEMMA EscalateRebootLink ==
  ASSUME LinkInv, EscalateReboot
  PROVE  LinkInv'
  <1>1. /\ opQ' = Append(opQ, Watchdog) /\ Goto(Watchdog, Entered(opQ, "rb_wait", "rb_got"))
        /\ UNCHANGED <<setupQ, reconQ, mc, open>> /\ done' \in {done, None}
    BY Zenon DEF EscalateReboot, Ask, linkVars, setupVars
  <1>2. /\ "rb_wait" \in Labels /\ "rb_got" \in Labels /\ SameKind(pc[Watchdog], "rb_wait") /\ "rb_wait" \notin OpLabels
        /\ "rb_got" \in SetupLabels => pc[Watchdog] \in SetupLabels
        /\ "rb_got" \in Closing => pc[Watchdog] \in Closing
        /\ "rb_got" \notin ReconLabels /\ {"rb_wait", "rb_got"} \cap (Using \cup {"rc_dial"}) = {}
    BY Zenon DEF EscalateReboot, Ask, Labels, Running, Suspended, SameKind, OpLabels, SetupLabels,
       ReconLabels, Closing, Using
  <1>3. QED
    BY Zenon, <1>1, <1>2, Joins, TaskNames

LEMMA OperationLockedLink ==
  ASSUME LinkInv, NEW t \in Tasks, OperationLocked(t)
  PROVE  LinkInv'
  <1>1. CASE mc = None
    <2>1. Finish(t) /\ LocksKept(t) /\ LinkKept
      BY Zenon, <1>1, Locals DEF OperationLocked, LocksKept, LinkKept, OpLabels, SetupLabels,
         ReconLabels, Using, linkVars, setupVars, lockVars
    <2>2. QED
      BY Zenon, <2>1, Finishes
  <1>2. CASE mc # None
    <2>1. Move(t, "op_run", back[t], tries[t], mc) /\ UNCHANGED <<lockVars, mc, open, done>>
      BY Zenon, <1>2 DEF OperationLocked, Take, lockVars, linkVars, setupVars
    <2>2. /\ "op_run" \in Labels /\ SameKind(pc[t], "op_run") /\ ("op_run" = "rc_dial" => mc = None)
          /\ "op_run" \in Using => mc = mc /\ mc # None
      BY Zenon, <1>2, Locals DEF OperationLocked, Labels, Running, Suspended, SameKind, OpLabels,
         SetupLabels, ReconLabels, Closing, Using
    <2>3. QED
      BY Zenon, <2>1, <2>2, Holds
  <1>3. QED
    BY Zenon, <1>1, <1>2 DEF OperationLocked

LEMMA OperationEndsLink ==
  ASSUME LinkInv, NEW t \in Tasks, OperationEnds(t)
  PROVE  LinkInv'
  <1>1. Finish(t) /\ LocksKept(t) /\ LinkKept
    BY Zenon, Locals DEF OperationEnds, LocksKept, LinkKept, OpLabels, SetupLabels, ReconLabels, Using,
       linkVars, setupVars, lockVars
  <1>2. QED
    BY Zenon, <1>1, Finishes

LEMMA RebootLockedLink ==
  ASSUME LinkInv, RebootLocked
  PROVE  LinkInv'
  <1>1. CASE mc = None
    <2>1. /\ CallDisconnect(Watchdog, "idle") /\ UNCHANGED <<setupQ, reconQ, mc, open, done>>
          /\ opQ' = opQ \/ (opQ' = Tail(opQ) /\ pc[Watchdog] \in OpLabels)
          /\ "idle" \in Returns /\ ("idle" \in ReconLabels => pc[Watchdog] \in ReconLabels)
      BY Zenon, <1>1 DEF RebootLocked, OpLabels, Returns, ReconLabels, Rest, lockVars, linkVars,
         setupVars
    <2>2. QED
      BY Zenon, <2>1, CallsDisconnect, TaskNames
  <1>2. CASE mc # None
    <2>1. Move(Watchdog, "rb_run", back[Watchdog], tries[Watchdog], mc) /\ UNCHANGED <<lockVars, mc, open, done>>
      BY Zenon, <1>2 DEF RebootLocked, Take, lockVars, linkVars, setupVars
    <2>2. /\ "rb_run" \in Labels /\ SameKind(pc[Watchdog], "rb_run") /\ ("rb_run" = "rc_dial" => mc = None)
          /\ "rb_run" \in Using => mc = mc /\ mc # None
      BY Zenon, <1>2, Locals, TaskNames DEF RebootLocked, Labels, Running, Suspended, SameKind,
         OpLabels, SetupLabels, ReconLabels, Closing, Using
    <2>3. QED
      BY Zenon, <2>1, <2>2, Holds, TaskNames
  <1>3. QED
    BY Zenon, <1>1, <1>2 DEF RebootLocked

LEMMA RebootSentLink ==
  ASSUME LinkInv, RebootSent
  PROVE  LinkInv'
  <1>1. /\ CallDisconnect(Watchdog, "idle") /\ UNCHANGED <<setupQ, reconQ, mc, open, done>>
        /\ opQ' = opQ \/ (opQ' = Tail(opQ) /\ pc[Watchdog] \in OpLabels)
        /\ "idle" \in Returns /\ ("idle" \in ReconLabels => pc[Watchdog] \in ReconLabels)
    BY Zenon DEF RebootSent, OpLabels, Returns, ReconLabels, Rest, lockVars, linkVars, setupVars
  <1>2. QED
    BY Zenon, <1>1, CallsDisconnect, TaskNames

LEMMA NextLink ==
  ASSUME LinkInv, [Next]_vars
  PROVE  LinkInv'
  <1>1. ASSUME NEW t \in Tasks, Wake(t) \/ Disconnect(t)
        PROVE  LinkInv'
    BY Zenon, <1>1, WakeLink, DisconnectQueueLink, DisconnectLockedLink, DisconnectClosedLink, DisconnectFailsLink
    DEF Disconnect
  <1>2. ASSUME NEW t \in Tasks, Reconnect(t)
        PROVE  LinkInv'
    <2>1. CASE Dialed(t, TRUE) \/ Dialed(t, FALSE)
      BY Zenon, <2>1, DialedLink
    <2>2. QED
      BY Zenon, <1>2, <2>1, ReconnectLockedRunLink, ConnectLink, DialFailsLink, ReconnectDialedLink, ReconnectEndsLink
      DEF Reconnect
  <1>3. ASSUME NEW t \in Tasks, Prepare(t)
        PROVE  LinkInv'
    BY Zenon, <1>3, PrepareStartLink, SetupCallLink, SetupBodyLink, SetupLockedLink, SetupExportLink, SetupSyncLink,
       SetupFailsLink, SetupTimesOutLink, PrepareEndsLink DEF Prepare
  <1>4. ASSUME NEW t \in Tasks, Continue(t)
        PROVE  LinkInv'
    BY Zenon, <1>1, <1>2, <1>3, <1>4, PauseEndsLink, OperationLockedLink, OperationEndsLink DEF Continue
  <1>5. CASE Background \/ WatchdogProbes
    BY Zenon, <1>5, BootLink, WatchdogProbesLink, ProbeEndsLink, ProbeCalmLink, EscalateReconnectLink,
       WatchdogReconnectsLink, EscalateRebootLink, RebootLockedLink, RebootSentLink DEF Background
  <1>6. ASSUME NEW t \in Operators, Pause(t) \/ AskReconnect(t)
        PROVE  LinkInv'
    BY Zenon, <1>6, TaskNames, PauseLink, AskReconnectLink
  <1>7. ASSUME NEW t \in Users, Operation(t)
        PROVE  LinkInv'
    BY Zenon, <1>7, TaskNames, OperationLink
  <1>8. CASE LinkDrops \/ LinkRestored \/ UNCHANGED vars
    BY Zenon, <1>8, Stays DEF LinkDrops, LinkRestored, vars, linkVars, setupVars
  <1>9. QED
    BY Zenon, <1>4, <1>5, <1>6, <1>7, <1>8, MonitorTickLink DEF Next

LEMMA LinkInvariant == Spec => []LinkInv
  <1>1. Init => LinkInv
    BY Zenon, InitLink
  <1>2. LinkInv /\ [Next]_vars => LinkInv'
    BY Zenon, NextLink
  <1>3. QED
    BY <1>1, <1>2, PTL DEF Spec

\* The manager never loses track of an open transport: for any number of tasks,
\* requests and faults, connect(), disconnect() and the monitor leave at most one port
\* or socket open, the one _meshcore refers to.
THEOREM TransportNeverLeaks == Spec => []OneTransport
  <1>1. LinkInv => OneTransport
    BY Zenon DEF LinkInv
  <1>2. QED
    BY <1>1, LinkInvariant, PTL

\* A task that read _meshcore after taking the operation lock works with the current
\* transport until it lets go of the lock: neither a reconnect nor a teardown swaps it.
THEOREM TransportStable == Spec => []StableWhileHeld
  <1>1. LinkInv => StableWhileHeld
    BY Zenon DEF LinkInv
  <1>2. QED
    BY <1>1, LinkInvariant, PTL

\* _setup_complete is never left over from an earlier connection: whenever it is set,
\* run_post_connect_setup finished on the transport that is current now.
THEOREM SetupNeverStale == Spec => []SetupForCurrent
  <1>1. LinkInv => SetupForCurrent
    BY Zenon DEF LinkInv
  <1>2. QED
    BY <1>1, LinkInvariant, PTL
=============================================================================
