--------------------------- MODULE DmDeliveryProofs ---------------------------
(* Proofs about DmDelivery, for any messages, retries, users and bounds: the      *)
(* inductive invariant of the runs, then the order in which a message's row,      *)
(* retries and runs come about, then the matching and counting of ACKs.           *)
EXTENDS DmDelivery, TLAPS

\* A run still in its loop has an attempt left; a run that is not going has its
\* counter at the start value.
AttemptBound ==
  \A r \in Requests :
    /\ runPc[r] \in Running \ {"final", "finish"} => attempt[r] < cap[r]
    /\ runPc[r] \in {"none", "done"} => attempt[r] = 1

\* A request that has not returned has not started its run.
RunAfterRequest ==
  \A r \in Requests : reqPc[r] # "done" => runPc[r] = "none"

\* A tracked run is a run of that message.
TrackerTarget ==
  \A m \in Msgs : tracker[m] # None => Target(tracker[m]) = m

\* A cancel or delete under way names its message.
UserTarget ==
  \A u \in Users : user[u].pc # "idle" => user[u].msg \in Msgs

Inv ==
  /\ TypeOK /\ AttemptBound /\ RunAfterRequest /\ TrackerTarget /\ UserTarget
  /\ RunIsTracked

LEMMA TargetType == \A r \in Requests : Target(r) \in Msgs
BY Zenon, RequestsAssumption DEF Requests, Target

LEMMA RowTypes ==
  ASSUME row \in [Msgs -> Rows], NEW m \in Msgs
  PROVE  /\ Incremented(m) \in [Msgs -> Rows]
         /\ \A s \in SendStates : WithState(m, s) \in [Msgs -> Rows]
         /\ Counted(m) \in [Msgs -> Rows]
         /\ [row EXCEPT ![m] = [NoRow EXCEPT !.kind = "deleted"]] \in [Msgs -> Rows]
<1>1. row[m] \in Rows
  BY Zenon
<1>2. Incremented(m) \in [Msgs -> Rows]
  BY <1>1 DEF Incremented, Rows
<1>3. ASSUME NEW s \in SendStates PROVE WithState(m, s) \in [Msgs -> Rows]
  BY Zenon, <1>1 DEF WithState, Rows
<1>4. Counted(m) \in [Msgs -> Rows]
  <2>1. row[m].attempts + 1 \in Nat /\ "sending" \in SendStates
    BY <1>1 DEF Rows, SendStates
  <2>2. [row[m] EXCEPT !.state = "sending", !.attempts = @ + 1] \in Rows
    BY Zenon, <1>1, <2>1 DEF Rows
  <2> QED
    BY Zenon, <2>2 DEF Counted
<1>5. [row EXCEPT ![m] = [NoRow EXCEPT !.kind = "deleted"]] \in [Msgs -> Rows]
  BY Zenon DEF NoRow, Rows, SendStates
<1> QED
  BY Zenon, <1>2, <1>3, <1>4, <1>5

LEMMA StoredRowType ==
  ASSUME row \in [Msgs -> Rows], NEW r \in Requests, cap \in [Requests -> 1..10]
  PROVE  StoredRow(r, Target(r)) \in [Msgs -> Rows]
<1> DEFINE m == Target(r)
          s == IF cap[r] > 1 /\ reqPc[r] = "okCode" THEN "sending" ELSE "sent"
<1>1. m \in Msgs /\ row[m] \in Rows
  BY Zenon, TargetType
<1>2. s \in SendStates /\ 1 \in Nat /\ 0 \in Nat /\ cap[r] \in Nat
  BY DEF SendStates
<1> HIDE DEF s, m
<1>3. [row[m] EXCEPT !.state = s, !.attempts = 1, !.max = cap[r]] \in Rows
  BY Zenon, <1>1, <1>2 DEF Rows
<1>4. [kind |-> "live", state |-> s, attempts |-> 1, max |-> cap[r], acked |-> 0] \in Rows
  BY Zenon, <1>2 DEF Rows
<1> QED
  BY Zenon, <1>1, <1>3, <1>4 DEF StoredRow, s, m

LEMMA InitInv == Init => Inv
BY RequestsAssumption, TargetType
   DEF Init, Inv, TypeOK, AttemptBound, RunAfterRequest, TrackerTarget, UserTarget, RunIsTracked,
       NoRow, Rows, SendStates, ReqPcs, RunPcs, UserPcs, Air, Running
USE DEF rowVars, ackVars, reqVars, runVars, netVars

LEMMA NextInv == Inv /\ [Next]_vars => Inv'
<1> SUFFICES ASSUME Inv, [Next]_vars PROVE Inv'
  BY Zenon
<1> USE RequestsAssumption, CapsAssumption, TargetType
<1>1. ASSUME NEW m \in Msgs, StartSend(m) PROVE Inv'
  BY <1>1 DEF StartSend, Requests, Inv, TypeOK, AttemptBound, RunAfterRequest, TrackerTarget, UserTarget,
              RunIsTracked,
              ReqPcs, RunPcs, Air, Running
<1>2. ASSUME NEW m \in Msgs, AckIncrement(m) PROVE Inv'
  BY SMTT(30), <1>2, RowTypes DEF AckIncrement, Inv, TypeOK, AttemptBound, RunAfterRequest, TrackerTarget, UserTarget,
              RunIsTracked,
              ReqPcs, RunPcs, Air, Running
<1>3. ASSUME NEW r \in Retries, StartRetry(r) PROVE Inv'
  BY <1>3 DEF StartRetry, CancelTask, Requests, Inv, TypeOK, AttemptBound, RunAfterRequest, TrackerTarget, UserTarget,
              RunIsTracked,
              ReqPcs, RunPcs, Air, Running
<1>4. ASSUME NEW r \in Requests, ReqTransmit(r) PROVE Inv'
  BY <1>4 DEF ReqTransmit, Transmit, Codes, Inv, TypeOK, AttemptBound, RunAfterRequest, TrackerTarget, UserTarget,
              RunIsTracked,
              ReqPcs, RunPcs, Air, Running
<1>5. ASSUME NEW r \in Requests, ReqAnswered(r) PROVE Inv'
  BY <1>5 DEF ReqAnswered, Inv, TypeOK, AttemptBound, RunAfterRequest, TrackerTarget, UserTarget,
              RunIsTracked,
              ReqPcs, RunPcs, Air, Running
<1>6. ASSUME NEW r \in Requests, ReqStore(r) PROVE Inv'
  <2>0. /\ Target(r) \in Msgs /\ attempt[r] \in 1..10 /\ cap[r] \in 1..10
        /\ runPc[r] \in Running \ {"final", "finish"} =>
             <<Target(r), attempt[r]>> \in Codes /\ attempt[r] + 1 \in 1..10
        /\ <<Target(r), 0>> \in Codes
    BY DEF Inv, TypeOK, AttemptBound, Codes
  <2>1. row' \in [Msgs -> Rows]
    <3>1. row \in [Msgs -> Rows] /\ cap \in [Requests -> 1..10]
      BY Zenon DEF Inv, TypeOK
    <3>2. row' = StoredRow(r, Target(r))
      BY Zenon, <1>6 DEF ReqStore
    <3> QED
      BY Zenon, <3>1, <3>2, StoredRowType
  <2>2. (pending \subseteq Codes /\ buffered \subseteq Codes /\ awaited \subseteq Codes
          /\ arrived \subseteq Codes)'
    BY Zenon, <1>6, <2>0, SMTT(30) DEF ReqStore, Inv, TypeOK
  <2>3. (tracker \in [Msgs -> Requests \cup {None}] /\ reqPc \in [Requests -> ReqPcs]
          /\ runPc \in [Requests -> RunPcs] /\ attempt \in [Requests -> 1..10])'
    <3>1. CASE cap[r] > 1 /\ reqPc[r] = "okCode" /\ <<Target(r), 0>> \notin buffered
      <4>1. Register(Target(r), r) /\ reqPc' = [reqPc EXCEPT ![r] = "done"]
        BY <1>6, <3>1, <2>0 DEF ReqStore
      <4> QED
        BY <4>1, <2>0 DEF Register, Inv, TypeOK, ReqPcs, RunPcs
    <3>2. CASE ~(cap[r] > 1 /\ reqPc[r] = "okCode" /\ <<Target(r), 0>> \notin buffered)
      <4>1. UNCHANGED <<tracker, runPc, attempt>> /\ reqPc' \in [Requests -> ReqPcs]
        BY Zenon, <1>6, <3>2, <2>0 DEF ReqStore, Inv, TypeOK, ReqPcs
      <4> QED
        BY Zenon, <4>1 DEF Inv, TypeOK
    <3> QED
      BY Zenon, <3>1, <3>2
  <2>4. (air \subseteq Codes /\ cap \in [Requests -> 1..10] /\ claims \in [Msgs -> Nat]
          /\ heard \in [Codes -> Nat] /\ restarts \in Nat /\ stranded \subseteq Msgs
          /\ silenced \in [Msgs -> {"no", "clean", "racing"}]
          /\ user \in [Users -> [pc: UserPcs, kind: {"cancel", "delete"}, msg: Msgs \cup {None}]])'
    BY Zenon, <1>6, <2>0 DEF ReqStore, Inv, TypeOK
  <2>5. TypeOK'
    BY Zenon, <2>1, <2>2, <2>3, <2>4 DEF TypeOK
  <2>6. (AttemptBound /\ RunAfterRequest /\ TrackerTarget /\ UserTarget /\ RunIsTracked)'
    BY SMTT(30), <1>6, <2>0 DEF ReqStore, Register, Inv, TypeOK,
               AttemptBound, RunAfterRequest, TrackerTarget, UserTarget, RunIsTracked,
               ReqPcs, RunPcs, Air, Running
  <2> QED
    BY Zenon, <2>5, <2>6 DEF Inv
<1>7. ASSUME NEW r \in Requests, ReqIncrement(r) PROVE Inv'
  BY <1>7, RowTypes DEF ReqIncrement, Inv, TypeOK, AttemptBound, RunAfterRequest, TrackerTarget, UserTarget,
              RunIsTracked,
              ReqPcs, RunPcs, Air, Running
<1>8. ASSUME NEW r \in Requests, RunWake(r) PROVE Inv'
  BY <1>8 DEF RunWake, GoTo, Inv, TypeOK, AttemptBound, RunAfterRequest, TrackerTarget, UserTarget,
              RunIsTracked,
              ReqPcs, RunPcs, Air, Running
<1>9. ASSUME NEW r \in Requests, RunTransmit(r) PROVE Inv'
  <2>1. TypeOK'
    BY <1>9, SMTT(30) DEF RunTransmit, Transmit, GoTo, Codes, Inv, TypeOK, AttemptBound,
               ReqPcs, RunPcs, Air, Running
  <2>2. (AttemptBound /\ RunAfterRequest /\ TrackerTarget /\ UserTarget /\ RunIsTracked)'
    BY <1>9 DEF RunTransmit, Transmit, GoTo, Codes, Inv, TypeOK,
               AttemptBound, RunAfterRequest, TrackerTarget, UserTarget, RunIsTracked,
               ReqPcs, RunPcs, Air, Running
  <2> QED
    BY Zenon, <2>1, <2>2 DEF Inv
<1>10. ASSUME NEW r \in Requests, RunAnswered(r) PROVE Inv'
  <2>0. /\ Target(r) \in Msgs /\ attempt[r] \in 1..10 /\ cap[r] \in 1..10
        /\ runPc[r] \in Running \ {"final", "finish"} =>
             <<Target(r), attempt[r]>> \in Codes /\ attempt[r] + 1 \in 1..10
        /\ <<Target(r), 0>> \in Codes
    BY DEF Inv, TypeOK, AttemptBound, Codes
  <2>1. row' \in [Msgs -> Rows]
    BY <1>10, <2>0, RowTypes DEF RunAnswered, Inv, TypeOK
  <2>2. (pending \subseteq Codes /\ buffered \subseteq Codes /\ awaited \subseteq Codes
          /\ arrived \subseteq Codes)'
    BY Zenon, <1>10, <2>0 DEF RunAnswered, Inv, TypeOK
  <2>3. (tracker \in [Msgs -> Requests \cup {None}] /\ reqPc \in [Requests -> ReqPcs]
          /\ runPc \in [Requests -> RunPcs] /\ attempt \in [Requests -> 1..10])'
    BY SMTT(30), <1>10, <2>0 DEF RunAnswered, Inv, TypeOK, Advance, GoTo, RunPcs, Air, Running
  <2>4. (air \subseteq Codes /\ cap \in [Requests -> 1..10] /\ claims \in [Msgs -> Nat]
          /\ heard \in [Codes -> Nat] /\ restarts \in Nat /\ stranded \subseteq Msgs
          /\ silenced \in [Msgs -> {"no", "clean", "racing"}]
          /\ user \in [Users -> [pc: UserPcs, kind: {"cancel", "delete"}, msg: Msgs \cup {None}]])'
    BY Zenon, <1>10, <2>0 DEF RunAnswered, Inv, TypeOK
  <2>5. TypeOK'
    BY Zenon, <2>1, <2>2, <2>3, <2>4 DEF TypeOK
  <2>6. (AttemptBound /\ RunAfterRequest /\ TrackerTarget /\ UserTarget /\ RunIsTracked)'
    BY <1>10, <2>0 DEF RunAnswered, Advance, GoTo, Inv, TypeOK,
               AttemptBound, RunAfterRequest, TrackerTarget, UserTarget, RunIsTracked,
               ReqPcs, RunPcs, Air, Running
  <2> QED
    BY Zenon, <2>5, <2>6 DEF Inv
<1>11. ASSUME NEW r \in Requests, RunRecheck(r) PROVE Inv'
  <2>0. /\ Target(r) \in Msgs /\ attempt[r] \in 1..10 /\ cap[r] \in 1..10
        /\ runPc[r] \in Running \ {"final", "finish"} =>
             <<Target(r), attempt[r]>> \in Codes /\ attempt[r] + 1 \in 1..10
        /\ <<Target(r), 0>> \in Codes
    BY DEF Inv, TypeOK, AttemptBound, Codes
  <2>1. row' \in [Msgs -> Rows]
    BY Zenon, <1>11, <2>0 DEF RunRecheck, Inv, TypeOK
  <2>2. (pending \subseteq Codes /\ buffered \subseteq Codes /\ awaited \subseteq Codes
          /\ arrived \subseteq Codes)'
    BY Zenon, <1>11, <2>0 DEF RunRecheck, Inv, TypeOK
  <2>3. (tracker \in [Msgs -> Requests \cup {None}] /\ reqPc \in [Requests -> ReqPcs]
          /\ runPc \in [Requests -> RunPcs] /\ attempt \in [Requests -> 1..10])'
    <3>1. \/ GoTo(r, "done") \/ GoTo(r, "track")
          \/ Advance(r) /\ attempt[r] + 1 \in 1..10
      BY Zenon, <1>11, <2>0 DEF RunRecheck, Running, RunPcs
    <3>2. UNCHANGED <<tracker, reqPc>>
      BY Zenon, <1>11 DEF RunRecheck
    <3>3. runPc' \in [Requests -> RunPcs] /\ attempt' \in [Requests -> 1..10]
      BY <3>1, <2>0, SMTT(30) DEF Inv, TypeOK, Advance, GoTo, RunPcs
    <3> QED
      BY Zenon, <3>2, <3>3 DEF Inv, TypeOK
  <2>4. (air \subseteq Codes /\ cap \in [Requests -> 1..10] /\ claims \in [Msgs -> Nat]
          /\ heard \in [Codes -> Nat] /\ restarts \in Nat /\ stranded \subseteq Msgs
          /\ silenced \in [Msgs -> {"no", "clean", "racing"}]
          /\ user \in [Users -> [pc: UserPcs, kind: {"cancel", "delete"}, msg: Msgs \cup {None}]])'
    BY Zenon, <1>11, <2>0 DEF RunRecheck, Inv, TypeOK
  <2>5. TypeOK'
    BY Zenon, <2>1, <2>2, <2>3, <2>4 DEF TypeOK
  <2>6. (AttemptBound /\ RunAfterRequest /\ TrackerTarget /\ UserTarget /\ RunIsTracked)'
    <3>1. /\ UNCHANGED <<tracker, reqPc, cap, user>> /\ runPc[r] \in {"okCode", "okNocode"}
          /\ \/ GoTo(r, "done") \/ GoTo(r, "track") \/ Advance(r)
      BY Zenon, <1>11 DEF RunRecheck
    <3>2. /\ \A q \in Requests : q # r => runPc'[q] = runPc[q] /\ attempt'[q] = attempt[q]
          /\ \/ runPc'[r] = "done" /\ attempt'[r] = 1
             \/ runPc'[r] = "track" /\ attempt'[r] = attempt[r]
             \/ runPc'[r] = "sleep" /\ attempt'[r] < cap[r]
             \/ runPc'[r] = "final"
      BY SMTT(30), <3>1 DEF Inv, TypeOK, GoTo, Advance
    <3>3. AttemptBound'
      BY ZenonT(30), <3>1, <3>2 DEF Inv, AttemptBound, Running, RunPcs
    <3>4. (RunAfterRequest /\ TrackerTarget /\ UserTarget /\ RunIsTracked)'
      BY ZenonT(30), <3>1, <3>2 DEF Inv, RunAfterRequest, TrackerTarget, UserTarget, RunIsTracked,
                        Running, RunPcs
    <3> QED
      BY Zenon, <3>3, <3>4
  <2> QED
    BY Zenon, <2>5, <2>6 DEF Inv
<1>12. ASSUME NEW r \in Requests, RunTrack(r) PROVE Inv'
  <2>0. /\ Target(r) \in Msgs /\ attempt[r] \in 1..10 /\ cap[r] \in 1..10
        /\ runPc[r] \in Running \ {"final", "finish"} =>
             <<Target(r), attempt[r]>> \in Codes /\ attempt[r] + 1 \in 1..10
        /\ <<Target(r), 0>> \in Codes
    BY DEF Inv, TypeOK, AttemptBound, Codes
  <2>1. row' \in [Msgs -> Rows]
    BY Zenon, <1>12, <2>0 DEF RunTrack, Inv, TypeOK
  <2>2. (pending \subseteq Codes /\ buffered \subseteq Codes /\ awaited \subseteq Codes
          /\ arrived \subseteq Codes)'
    BY Zenon, <1>12, <2>0 DEF RunTrack, Inv, TypeOK, Running, RunPcs
  <2>3. (tracker \in [Msgs -> Requests \cup {None}] /\ reqPc \in [Requests -> ReqPcs]
          /\ runPc \in [Requests -> RunPcs] /\ attempt \in [Requests -> 1..10])'
    BY <1>12, <2>0 DEF RunTrack, Inv, TypeOK, Advance, GoTo, RunPcs, Air, Running
  <2>4. (air \subseteq Codes /\ cap \in [Requests -> 1..10] /\ claims \in [Msgs -> Nat]
          /\ heard \in [Codes -> Nat] /\ restarts \in Nat /\ stranded \subseteq Msgs
          /\ silenced \in [Msgs -> {"no", "clean", "racing"}]
          /\ user \in [Users -> [pc: UserPcs, kind: {"cancel", "delete"}, msg: Msgs \cup {None}]])'
    BY Zenon, <1>12, <2>0 DEF RunTrack, Inv, TypeOK
  <2>5. TypeOK'
    BY Zenon, <2>1, <2>2, <2>3, <2>4 DEF TypeOK
  <2>6. (AttemptBound /\ RunAfterRequest /\ TrackerTarget /\ UserTarget /\ RunIsTracked)'
    BY SMTT(30), <1>12, <2>0 DEF RunTrack, Advance, GoTo, Inv, TypeOK,
               AttemptBound, RunAfterRequest, TrackerTarget, UserTarget, RunIsTracked,
               ReqPcs, RunPcs, Air, Running
  <2> QED
    BY Zenon, <2>5, <2>6 DEF Inv
<1>13. ASSUME NEW r \in Requests, RunIncrement(r) PROVE Inv'
  BY <1>13, RowTypes DEF RunIncrement, GoTo, Inv, TypeOK, AttemptBound, RunAfterRequest, TrackerTarget, UserTarget,
              RunIsTracked,
              ReqPcs, RunPcs, Air, Running
<1>14. ASSUME NEW r \in Requests, RunFinal(r) PROVE Inv'
  BY <1>14 DEF RunFinal, GoTo, Inv, TypeOK, AttemptBound, RunAfterRequest, TrackerTarget, UserTarget,
              RunIsTracked,
              ReqPcs, RunPcs, Air, Running
<1>15. ASSUME NEW r \in Requests, RunFinish(r) PROVE Inv'
  BY SMTT(30), <1>15, RowTypes DEF RunFinish, GoTo, SendStates, Inv, TypeOK, AttemptBound, RunAfterRequest, TrackerTarget, UserTarget,
              RunIsTracked,
              ReqPcs, RunPcs, Air, Running
<1>16. ASSUME NEW r \in Requests, Deregister(r) PROVE Inv'
  BY SMTT(30), <1>16 DEF Deregister, Inv, TypeOK, AttemptBound, RunAfterRequest, TrackerTarget, UserTarget,
              RunIsTracked,
              ReqPcs, RunPcs, Air, Running
<1>17. ASSUME NEW c \in Codes, HearAck(c) PROVE Inv'
  BY <1>17 DEF HearAck, Codes, Inv, TypeOK, AttemptBound, RunAfterRequest, TrackerTarget, UserTarget,
              RunIsTracked,
              ReqPcs, RunPcs, Air, Running
<1>18. ASSUME PeriodicCleanup PROVE Inv'
  BY Zenon, <1>18 DEF PeriodicCleanup, Expire, Inv, TypeOK, AttemptBound, RunAfterRequest, TrackerTarget, UserTarget,
              RunIsTracked,
              ReqPcs, RunPcs, Air, Running
<1>19. ASSUME NEW u \in Users, NEW m \in Msgs, NEW kind \in {"cancel", "delete"}, UserStop(u, m, kind) PROVE Inv'
  BY <1>19 DEF UserStop, CancelTask, UserPcs, Inv, TypeOK, AttemptBound, RunAfterRequest, TrackerTarget, UserTarget,
              RunIsTracked,
              ReqPcs, RunPcs, Air, Running
<1>20. ASSUME NEW u \in Users, UserMark(u) PROVE Inv'
  <2>1. TypeOK'
    <3>1. user[u].msg \in Msgs
      BY Zenon, <1>20 DEF UserMark, Inv, UserTarget
    <3>2. row' \in [Msgs -> Rows]
      BY Zenon, <1>20, <3>1, RowTypes DEF UserMark, SendStates, Inv, TypeOK
    <3>3. user' \in [Users -> [pc: UserPcs, kind: {"cancel", "delete"}, msg: Msgs \cup {None}]]
      BY <1>20 DEF UserMark, Inv, TypeOK, UserPcs
    <3> QED
      BY Zenon, <1>20, <3>2, <3>3 DEF UserMark, Inv, TypeOK
  <2>2. (AttemptBound /\ RunAfterRequest /\ TrackerTarget /\ UserTarget /\ RunIsTracked)'
    BY <1>20 DEF UserMark, UserPcs, SendStates, UserTarget, Inv, TypeOK,
               AttemptBound, RunAfterRequest, TrackerTarget, UserTarget, RunIsTracked,
               ReqPcs, RunPcs, Air, Running
  <2> QED
    BY Zenon, <2>1, <2>2 DEF Inv
<1>21. ASSUME NEW u \in Users, UserDelete(u) PROVE Inv'
  <2>1. TypeOK'
    <3>1. user[u].msg \in Msgs
      BY Zenon, <1>21 DEF UserDelete, Inv, UserTarget
    <3>2. row' \in [Msgs -> Rows]
      BY Zenon, <1>21, <3>1, RowTypes DEF UserDelete, Inv, TypeOK
    <3>3. user' \in [Users -> [pc: UserPcs, kind: {"cancel", "delete"}, msg: Msgs \cup {None}]]
      BY <1>21 DEF UserDelete, Inv, TypeOK, UserPcs
    <3> QED
      BY Zenon, <1>21, <3>2, <3>3 DEF UserDelete, Inv, TypeOK
  <2>2. (AttemptBound /\ RunAfterRequest /\ TrackerTarget /\ UserTarget /\ RunIsTracked)'
    BY <1>21 DEF UserDelete, UserPcs, UserTarget, Inv, TypeOK,
               AttemptBound, RunAfterRequest, TrackerTarget, UserTarget, RunIsTracked,
               ReqPcs, RunPcs, Air, Running
  <2> QED
    BY Zenon, <2>1, <2>2 DEF Inv
<1>22. ASSUME Restart PROVE Inv'
  <2>1. TypeOK'
    <3>1. ASSUME NEW u \in Users
          PROVE  [user[u] EXCEPT !.pc = IF @ = "idle" THEN @ ELSE "done"]
                   \in [pc: UserPcs, kind: {"cancel", "delete"}, msg: Msgs \cup {None}]
      BY <3>1 DEF Inv, TypeOK, UserPcs
    <3>2. user' \in [Users -> [pc: UserPcs, kind: {"cancel", "delete"}, msg: Msgs \cup {None}]]
      BY Zenon, <1>22, <3>1 DEF Restart
    <3>3. /\ reqPc' \in [Requests -> ReqPcs] /\ runPc' \in [Requests -> RunPcs]
          /\ tracker' \in [Msgs -> Requests \cup {None}] /\ claims' \in [Msgs -> Nat]
          /\ attempt' \in [Requests -> 1..10] /\ restarts' \in Nat
          /\ stranded' \subseteq Msgs
      BY <1>22 DEF Restart, Inv, TypeOK, ReqPcs, RunPcs
    <3> QED
      BY Zenon, <1>22, <3>2, <3>3 DEF Restart, Inv, TypeOK
  <2>2. (AttemptBound /\ RunAfterRequest /\ TrackerTarget /\ UserTarget /\ RunIsTracked)'
    BY SMTT(30), <1>22 DEF Restart, UserPcs, Inv, TypeOK,
               AttemptBound, RunAfterRequest, TrackerTarget, UserTarget, RunIsTracked,
               ReqPcs, RunPcs, Air, Running
  <2> QED
    BY Zenon, <2>1, <2>2 DEF Inv
<1>23. CASE UNCHANGED vars
  BY Zenon, <1>23 DEF vars, Inv, TypeOK, AttemptBound, RunAfterRequest, TrackerTarget, UserTarget,
              RunIsTracked,
              ReqPcs, RunPcs, Air, Running
<1> QED
  BY Zenon, <1>1, <1>2, <1>3, <1>4, <1>5, <1>6, <1>7, <1>8, <1>9, <1>10, <1>11, <1>12, <1>13, <1>14, <1>15, <1>16, <1>17, <1>18, <1>19, <1>20, <1>21, <1>22, <1>23
     DEF Next, RequestStep, RunStep, UserStep
\* Whatever the interleaving, the state keeps its shape: in particular no attempt
\* number leaves the range the retry loop of message_send.py allows.
THEOREM TypeCorrect == Spec => []TypeOK
<1>1. Inv => TypeOK
  BY Zenon DEF Inv
<1> QED
  BY InitInv, NextInv, <1>1, PTL DEF Spec

\* Every run that can still transmit is the one send_tracker would cancel.
THEOREM OneTrackedRun == Spec => []RunIsTracked
<1>1. Inv => RunIsTracked
  BY Zenon, SMTT(30) DEF Inv
<1> QED
  BY InitInv, NextInv, <1>1, PTL DEF Spec

-----------------------------------------------------------------------------
(* The user's cancel.                                                      *)

\* A stored row belongs to a request that has begun.
StoredIsSent == \A m \in Msgs : Live(m) => reqPc[m] # "idle"

\* A message silenced cleanly has no request that could transmit, and no run.
Silent ==
  \A m \in Msgs : silenced[m] = "clean" =>
    /\ reqPc[m] # "idle"
    /\ \A r \in Requests : Target(r) = m => ~InFlight(r) /\ runPc[r] \notin Running

LEMMA NextSilent == Inv /\ StoredIsSent /\ Silent /\ [Next]_vars => (StoredIsSent /\ Silent)'
<1> SUFFICES ASSUME Inv, StoredIsSent, Silent, [Next]_vars PROVE (StoredIsSent /\ Silent)'
  BY Zenon
<1> USE RequestsAssumption, TargetType
<1>1. ASSUME NEW m \in Msgs, StartSend(m) PROVE (StoredIsSent /\ Silent)'
  <2>1. Target(m) = m /\ m \in Requests
    BY Zenon DEF Target, Requests
  <2> QED
    BY <1>1, <2>1 DEF StartSend, Inv, TypeOK, StoredIsSent, Silent, Live, InFlight, Air,
       Running, RunPcs, Requests
<1>2. ASSUME NEW m \in Msgs, AckIncrement(m) PROVE (StoredIsSent /\ Silent)'
  BY SMTT(30), <1>2 DEF AckIncrement, Incremented,
     Inv, TypeOK, StoredIsSent, Silent, Live, InFlight, Air, Running, RunPcs, Requests
<1>3. ASSUME NEW r \in Retries, StartRetry(r) PROVE (StoredIsSent /\ Silent)'
  BY SMTT(30), <1>3 DEF StartRetry, CancelTask, Requests,
     Inv, TypeOK, StoredIsSent, Silent, Live, InFlight, Air, Running, RunPcs, Requests
<1>4. ASSUME NEW r \in Requests, ReqTransmit(r) PROVE (StoredIsSent /\ Silent)'
  BY <1>4 DEF ReqTransmit,
     Inv, TypeOK, StoredIsSent, Silent, Live, InFlight, Air, Running, RunPcs, Requests
<1>5. ASSUME NEW r \in Requests, ReqAnswered(r) PROVE (StoredIsSent /\ Silent)'
  BY <1>5 DEF ReqAnswered,
     Inv, TypeOK, StoredIsSent, Silent, Live, InFlight, Air, Running, RunPcs, Requests
<1>6. ASSUME NEW r \in Requests, ReqStore(r) PROVE (StoredIsSent /\ Silent)'
  <2>1. Target(r) \in Msgs /\ Target(r) \in Requests /\ silenced[Target(r)] # "clean"
    BY Zenon, <1>6 DEF ReqStore, Silent, InFlight, Requests
  <2>2. \A m \in Msgs : m # Target(r) => row'[m] = row[m]
    BY Zenon, <1>6, <2>1 DEF ReqStore, StoredRow, Inv, TypeOK
  <2>3. r \in Retries => row'[Target(r)].kind = row[Target(r)].kind
    BY SMTT(30), <1>6, <2>1 DEF ReqStore, StoredRow, Inv, TypeOK, Rows
  <2>4. /\ \A q \in Requests : reqPc'[q] = "idle" => reqPc[q] = "idle"
        /\ r \in Msgs => reqPc[Target(r)] # "idle"
    BY <1>6 DEF ReqStore, Inv, TypeOK, Target
  <2>5. StoredIsSent'
    BY Zenon, <2>1, <2>2, <2>3, <2>4 DEF StoredIsSent, Live, Requests
  <2>6. \A q \in Requests :
          q # r => /\ reqPc'[q] = reqPc[q]
                   /\ runPc'[q] \in Running => runPc[q] \in Running
    BY SMTT(30), <1>6 DEF ReqStore, Register, Inv, TypeOK, Running
  <2>7. Silent'
    <3>1. silenced' = silenced
      BY Zenon, <1>6, SMTT(30) DEF ReqStore
    <3> SUFFICES ASSUME NEW m \in Msgs, silenced[m] = "clean"
                 PROVE  /\ reqPc'[m] # "idle"
                        /\ \A q \in Requests : Target(q) = m =>
                              ~InFlight(q)' /\ runPc'[q] \notin Running
      BY Zenon, <3>1 DEF Silent
    <3>2. m \in Requests /\ reqPc'[m] # "idle"
      BY Zenon, <2>4 DEF Silent, Requests
    <3>3. ASSUME NEW q \in Requests, Target(q) = m
          PROVE  ~InFlight(q)' /\ runPc'[q] \notin Running
      <4>1. q # r /\ ~InFlight(q) /\ runPc[q] \notin Running
        BY Zenon, <2>1, <3>3 DEF Silent
      <4> QED
        BY Zenon, <2>6, <4>1 DEF InFlight, Air
    <3> QED
      BY Zenon, <3>2, <3>3
  <2> QED
    BY Zenon, <2>5, <2>7
<1>7. ASSUME NEW r \in Requests, ReqIncrement(r) PROVE (StoredIsSent /\ Silent)'
  BY SMTT(30), <1>7 DEF ReqIncrement, Incremented,
     Inv, TypeOK, StoredIsSent, Silent, Live, InFlight, Air, Running, RunPcs, Requests
<1>8. ASSUME NEW r \in Requests, RunWake(r) PROVE (StoredIsSent /\ Silent)'
  BY SMTT(30), <1>8 DEF RunWake, GoTo,
     Inv, TypeOK, StoredIsSent, Silent, Live, InFlight, Air, Running, RunPcs, Requests
<1>9. ASSUME NEW r \in Requests, RunTransmit(r) PROVE (StoredIsSent /\ Silent)'
  BY <1>9 DEF RunTransmit, GoTo,
     Inv, TypeOK, StoredIsSent, Silent, Live, InFlight, Air, Running, RunPcs, Requests
<1>10. ASSUME NEW r \in Requests, RunAnswered(r) PROVE (StoredIsSent /\ Silent)'
  BY <1>10, SMTT(30) DEF RunAnswered, Advance, GoTo, Counted,
     Inv, TypeOK, StoredIsSent, Silent, Live, InFlight, Air, Running, RunPcs, Requests
<1>11. ASSUME NEW r \in Requests, RunRecheck(r) PROVE (StoredIsSent /\ Silent)'
  BY <1>11 DEF RunRecheck, Advance, GoTo,
     Inv, TypeOK, StoredIsSent, Silent, Live, InFlight, Air, Running, RunPcs, Requests
<1>12. ASSUME NEW r \in Requests, RunTrack(r) PROVE (StoredIsSent /\ Silent)'
  <2>1. silenced[Target(r)] # "clean"
    BY Zenon, <1>12 DEF RunTrack, Silent, Running, RunPcs
  <2>2. /\ UNCHANGED <<row, reqPc, silenced>>
        /\ \A q \in Requests : q # r => runPc'[q] = runPc[q]
    BY Zenon, <1>12 DEF RunTrack, Advance, GoTo, Inv, TypeOK
  <2> QED
    BY Zenon, <2>1, <2>2 DEF StoredIsSent, Silent, Live, InFlight
<1>13. ASSUME NEW r \in Requests, RunIncrement(r) PROVE (StoredIsSent /\ Silent)'
  BY SMTT(30), <1>13 DEF RunIncrement, GoTo, Incremented,
     Inv, TypeOK, StoredIsSent, Silent, Live, InFlight, Air, Running, RunPcs, Requests
<1>14. ASSUME NEW r \in Requests, RunFinal(r) PROVE (StoredIsSent /\ Silent)'
  BY Zenon, <1>14 DEF RunFinal, GoTo,
     Inv, TypeOK, StoredIsSent, Silent, Live, InFlight, Air, Running, RunPcs, Requests
<1>15. ASSUME NEW r \in Requests, RunFinish(r) PROVE (StoredIsSent /\ Silent)'
  BY SMTT(30), <1>15 DEF RunFinish, GoTo, WithState,
     Inv, TypeOK, StoredIsSent, Silent, Live, InFlight, Air, Running, RunPcs, Requests
<1>16. ASSUME NEW r \in Requests, Deregister(r) PROVE (StoredIsSent /\ Silent)'
  BY Zenon, <1>16 DEF Deregister,
     Inv, TypeOK, StoredIsSent, Silent, Live, InFlight, Air, Running, RunPcs, Requests
<1>17. ASSUME NEW c \in Codes, HearAck(c) PROVE (StoredIsSent /\ Silent)'
  BY ZenonT(30), <1>17 DEF HearAck,
     Inv, TypeOK, StoredIsSent, Silent, Live, InFlight, Air, Running, RunPcs, Requests
<1>18. ASSUME PeriodicCleanup PROVE (StoredIsSent /\ Silent)'
  BY Zenon, <1>18 DEF PeriodicCleanup, Expire,
     Inv, TypeOK, StoredIsSent, Silent, Live, InFlight, Air, Running, RunPcs, Requests
<1>19. ASSUME NEW u \in Users, NEW m \in Msgs, NEW kind \in {"cancel", "delete"}, UserStop(u, m, kind) PROVE (StoredIsSent /\ Silent)'
  BY <1>19 DEF UserStop, CancelTask, RunIsTracked,
     Inv, TypeOK, StoredIsSent, Silent, Live, InFlight, Air, Running, RunPcs, Requests
<1>20. ASSUME NEW u \in Users, UserMark(u) PROVE (StoredIsSent /\ Silent)'
  BY <1>20 DEF UserMark, WithState,
     Inv, TypeOK, StoredIsSent, Silent, Live, InFlight, Air, Running, RunPcs, Requests
<1>21. ASSUME NEW u \in Users, UserDelete(u) PROVE (StoredIsSent /\ Silent)'
  BY <1>21 DEF UserDelete, NoRow,
     Inv, TypeOK, StoredIsSent, Silent, Live, InFlight, Air, Running, RunPcs, Requests
<1>22. ASSUME Restart PROVE (StoredIsSent /\ Silent)'
  BY Zenon, <1>22 DEF Restart,
     Inv, TypeOK, StoredIsSent, Silent, Live, InFlight, Air, Running, RunPcs, Requests
<1>23. CASE UNCHANGED vars
  BY Zenon, <1>23 DEF vars, Inv, TypeOK, StoredIsSent, Silent, Live, InFlight, Air, Running, RunPcs, Requests
<1> QED
  BY Zenon, <1>1, <1>2, <1>3, <1>4, <1>5, <1>6, <1>7, <1>8, <1>9, <1>10, <1>11, <1>12, <1>13, <1>14, <1>15, <1>16, <1>17, <1>18, <1>19, <1>20, <1>21, <1>22, <1>23
     DEF Next, RequestStep, RunStep, UserStep

\* The radio is entered from the lock only.
LEMMA TransmitsFromLock ==
  ASSUME Inv, Next, NEW q \in Requests
  PROVE  /\ reqPc[q] \notin Air /\ reqPc'[q] \in Air => reqPc[q] = "lock"
         /\ runPc[q] \notin Air /\ runPc'[q] \in Air => runPc[q] = "lock"
<1> DEFINE Goal == /\ reqPc[q] \notin Air /\ reqPc'[q] \in Air => reqPc[q] = "lock"
                   /\ runPc[q] \notin Air /\ runPc'[q] \in Air => runPc[q] = "lock"
<1> USE DEF Inv, TypeOK, Air
<1>1. ASSUME NEW m \in Msgs, StartSend(m) PROVE Goal
  BY Zenon, <1>1 DEF StartSend
<1>2. ASSUME NEW m \in Msgs, AckIncrement(m) PROVE Goal
  BY Zenon, <1>2 DEF AckIncrement
<1>3. ASSUME NEW r \in Retries, StartRetry(r) PROVE Goal
  BY Zenon, <1>3 DEF StartRetry, CancelTask, Requests
<1>4. ASSUME NEW r \in Requests, ReqTransmit(r) PROVE Goal
  BY Zenon, <1>4 DEF ReqTransmit
<1>5. ASSUME NEW r \in Requests, ReqAnswered(r) PROVE Goal
  BY Zenon, <1>5 DEF ReqAnswered
<1>6. ASSUME NEW r \in Requests, ReqStore(r) PROVE Goal
  BY <1>6 DEF ReqStore, Register
<1>7. ASSUME NEW r \in Requests, ReqIncrement(r) PROVE Goal
  BY Zenon, <1>7 DEF ReqIncrement
<1>8. ASSUME NEW r \in Requests, RunWake(r) PROVE Goal
  BY Zenon, <1>8 DEF RunWake, GoTo
<1>9. ASSUME NEW r \in Requests, RunTransmit(r) PROVE Goal
  BY Zenon, <1>9 DEF RunTransmit, GoTo
<1>10. ASSUME NEW r \in Requests, RunAnswered(r) PROVE Goal
  BY Zenon, <1>10 DEF RunAnswered, Advance, GoTo
<1>11. ASSUME NEW r \in Requests, RunRecheck(r) PROVE Goal
  BY Zenon, <1>11 DEF RunRecheck, Advance, GoTo
<1>12. ASSUME NEW r \in Requests, RunTrack(r) PROVE Goal
  BY Zenon, <1>12 DEF RunTrack, Advance, GoTo
<1>13. ASSUME NEW r \in Requests, RunIncrement(r) PROVE Goal
  BY Zenon, <1>13 DEF RunIncrement, GoTo
<1>14. ASSUME NEW r \in Requests, RunFinal(r) PROVE Goal
  BY Zenon, <1>14 DEF RunFinal, GoTo
<1>15. ASSUME NEW r \in Requests, RunFinish(r) PROVE Goal
  BY Zenon, <1>15 DEF RunFinish, GoTo
<1>16. ASSUME NEW r \in Requests, Deregister(r) PROVE Goal
  BY Zenon, <1>16 DEF Deregister
<1>17. ASSUME NEW c \in Codes, HearAck(c) PROVE Goal
  BY Zenon, <1>17 DEF HearAck
<1>18. ASSUME PeriodicCleanup PROVE Goal
  BY Zenon, <1>18 DEF PeriodicCleanup
<1>19. ASSUME NEW u \in Users, NEW m \in Msgs, NEW kind \in {"cancel", "delete"}, UserStop(u, m, kind) PROVE Goal
  BY Zenon, <1>19 DEF UserStop, CancelTask
<1>20. ASSUME NEW u \in Users, UserMark(u) PROVE Goal
  BY Zenon, <1>20 DEF UserMark
<1>21. ASSUME NEW u \in Users, UserDelete(u) PROVE Goal
  BY Zenon, <1>21 DEF UserDelete
<1>22. ASSUME Restart PROVE Goal
  BY Zenon, <1>22 DEF Restart
<1> HIDE DEF Goal
<1>q. Goal
  BY ZenonT(30), <1>1, <1>2, <1>3, <1>4, <1>5, <1>6, <1>7, <1>8, <1>9, <1>10, <1>11, <1>12, <1>13, <1>14, <1>15, <1>16, <1>17, <1>18, <1>19, <1>20, <1>21, <1>22
     DEF Next, RequestStep, RunStep, UserStep
<1> QED
  BY Zenon, <1>q DEF Goal

\* Once a cancel or delete found no request in flight for its message, nothing
\* transmits that message again until the user retries it.
THEOREM CancelSilences == Spec => CancelStopsRun
<1>1. Init => StoredIsSent /\ Silent
  BY DEF Init, StoredIsSent, Silent, Live, NoRow
<1>2. Inv /\ Silent /\ [Next]_vars
        => [\A m \in Msgs : silenced[m] = "clean" => ~Transmits(m)]_vars
  <2> SUFFICES ASSUME Inv, Silent, Next, NEW m \in Msgs, silenced[m] = "clean", Transmits(m)
               PROVE  FALSE
    BY Zenon
  <2>1. PICK r \in Requests :
          /\ Target(r) = m
          /\ \/ reqPc[r] \notin Air /\ reqPc'[r] \in Air
             \/ runPc[r] \notin Air /\ runPc'[r] \in Air
    BY Zenon DEF Transmits
  <2>2. reqPc[r] # "lock" /\ runPc[r] # "lock"
    BY Zenon, <2>1 DEF Silent, InFlight, Running, RunPcs
  <2> QED
    BY Zenon, <2>1, <2>2, TransmitsFromLock
<1> QED
  BY InitInv, NextInv, NextSilent, <1>1, <1>2, PTL DEF Spec, CancelStopsRun

-----------------------------------------------------------------------------
(* The order in which a message's row, retries and runs come about, and the  *)
(* matching of ACKs with registrations.                                      *)

\* Only the send request stores the row, as its last step; retries, runs, cancels
\* and deletes concern a stored row.
StoredFirst ==
  /\ \A m \in Msgs : reqPc[m] \notin {"inc", "done"} => row[m].kind = "none"
  /\ \A r \in Retries : reqPc[r] # "idle" => row[Target(r)].kind # "none"
  /\ \A r \in Requests : runPc[r] # "none" => row[Target(r)].kind # "none"
  /\ \A u \in Users : user[u].pc # "idle" => row[user[u].msg].kind # "none"

LEMMA NextStored == Inv /\ StoredFirst /\ [Next]_vars => StoredFirst'
<1> SUFFICES ASSUME Inv, StoredFirst, [Next]_vars PROVE StoredFirst'
  BY Zenon, SMTT(30)
<1> USE RequestsAssumption, TargetType
<1>1. ASSUME NEW m \in Msgs, StartSend(m) PROVE StoredFirst'
  BY <1>1 DEF StartSend, Target,
     Inv, TypeOK, StoredFirst, UserTarget, Air, Requests, Rows
<1>2. ASSUME NEW m \in Msgs, AckIncrement(m) PROVE StoredFirst'
  BY <1>2 DEF AckIncrement, Incremented,
     Inv, TypeOK, StoredFirst, UserTarget, Air, Requests, Rows
<1>3. ASSUME NEW r \in Retries, StartRetry(r) PROVE StoredFirst'
  <2>1. /\ UNCHANGED <<row, user>> /\ row[Target(r)].kind = "live"
        /\ \A q \in Requests : /\ q # r => reqPc'[q] = reqPc[q]
                               /\ runPc'[q] # "none" => runPc[q] # "none"
    BY Zenon, <1>3 DEF StartRetry, CancelTask, Live, Inv, TypeOK, Running, Requests
  <2> QED
    BY Zenon, <2>1 DEF StoredFirst, Requests
<1>4. ASSUME NEW r \in Requests, ReqTransmit(r) PROVE StoredFirst'
  <2>1. /\ UNCHANGED <<row, runPc, user>> /\ reqPc[r] = "lock"
        /\ \A q \in Requests : q # r => reqPc'[q] = reqPc[q]
    BY Zenon, <1>4 DEF ReqTransmit, Inv, TypeOK
  <2> QED
    BY Zenon, <2>1 DEF StoredFirst, Requests
<1>5. ASSUME NEW r \in Requests, ReqAnswered(r) PROVE StoredFirst'
  <2>1. /\ UNCHANGED <<row, runPc, user>> /\ reqPc[r] \in Air
        /\ \A q \in Requests : q # r => reqPc'[q] = reqPc[q]
    BY Zenon, <1>5 DEF ReqAnswered, Inv, TypeOK, Air
  <2> QED
    BY Zenon, <2>1 DEF StoredFirst, Requests, Air
<1>6. ASSUME NEW r \in Requests, ReqStore(r) PROVE StoredFirst'
  <2>1. /\ user' = user
        /\ \A q \in Requests : /\ q # r => reqPc'[q] = reqPc[q]
                               /\ q # r /\ runPc'[q] # "none" => runPc[q] # "none"
    BY Zenon, <1>6 DEF ReqStore, Register, Inv, TypeOK, Running
  <2>2. /\ reqPc'[r] \in {"inc", "done"} /\ Target(r) \in Msgs
        /\ r \in Msgs => Target(r) = r
        /\ r \in Retries => Target(r) = RetryOf[r]
    BY Zenon, <1>6 DEF ReqStore, Inv, TypeOK, Target
  <2>3. r \in Msgs => row'[Target(r)].kind = "live"
    BY Zenon, <1>6, <2>2 DEF ReqStore, StoredRow, Inv, TypeOK
  <2>4. /\ r \in Retries => row'[Target(r)].kind = row[Target(r)].kind
        /\ \A m \in Msgs : m # Target(r) => row'[m] = row[m]
    BY SMTT(30), <1>6, <2>2 DEF ReqStore, StoredRow, Inv, TypeOK, Rows
  <2>5. r \in Retries => row[Target(r)].kind # "none"
    BY Zenon, <1>6 DEF ReqStore, StoredFirst
  <2> QED
    BY SMTT(30), <2>1, <2>2, <2>3, <2>4, <2>5 DEF StoredFirst, Inv, UserTarget, Requests
<1>7. ASSUME NEW r \in Requests, ReqIncrement(r) PROVE StoredFirst'
  BY SMTT(30), <1>7 DEF ReqIncrement, Incremented,
     Inv, TypeOK, StoredFirst, UserTarget, Air, Requests, Rows
<1>8. ASSUME NEW r \in Requests, RunWake(r) PROVE StoredFirst'
  BY Zenon, <1>8 DEF RunWake, GoTo,
     Inv, TypeOK, StoredFirst, UserTarget, Air, Requests, Rows
<1>9. ASSUME NEW r \in Requests, RunTransmit(r) PROVE StoredFirst'
  BY SMTT(30), <1>9 DEF RunTransmit, GoTo,
     Inv, TypeOK, StoredFirst, UserTarget, Air, Requests, Rows
<1>10. ASSUME NEW r \in Requests, RunAnswered(r) PROVE StoredFirst'
  <2>1. /\ \A m \in Msgs : row'[m].kind = row[m].kind
        /\ UNCHANGED <<reqPc, user>>
    <3>1. row' = row \/ row' = Counted(Target(r))
      BY Zenon, <1>10 DEF RunAnswered
    <3>2. Target(r) \in Msgs /\ row \in [Msgs -> Rows]
      BY Zenon DEF Inv, TypeOK
    <3>3. \A m \in Msgs : Counted(Target(r))[m].kind = row[m].kind
      BY Zenon, <3>2 DEF Counted, Rows
    <3> QED
      BY Zenon, <1>10, <3>1, <3>3 DEF RunAnswered
  <2>2. \A q \in Requests : runPc'[q] # "none" => runPc[q] # "none"
    BY Zenon, <1>10 DEF RunAnswered, Advance, GoTo, Inv, TypeOK
  <2> QED
    BY Zenon, <2>1, <2>2 DEF StoredFirst, Inv, UserTarget, Requests
<1>11. ASSUME NEW r \in Requests, RunRecheck(r) PROVE StoredFirst'
  BY SMTT(30), <1>11 DEF RunRecheck, Advance, GoTo,
     Inv, TypeOK, StoredFirst, UserTarget, Air, Requests, Rows
<1>12. ASSUME NEW r \in Requests, RunTrack(r) PROVE StoredFirst'
  BY <1>12 DEF RunTrack, Advance, GoTo,
     Inv, TypeOK, StoredFirst, UserTarget, Air, Requests, Rows
<1>13. ASSUME NEW r \in Requests, RunIncrement(r) PROVE StoredFirst'
  BY SMTT(30), <1>13 DEF RunIncrement, GoTo, Incremented,
     Inv, TypeOK, StoredFirst, UserTarget, Air, Requests, Rows
<1>14. ASSUME NEW r \in Requests, RunFinal(r) PROVE StoredFirst'
  BY Zenon, <1>14 DEF RunFinal, GoTo,
     Inv, TypeOK, StoredFirst, UserTarget, Air, Requests, Rows
<1>15. ASSUME NEW r \in Requests, RunFinish(r) PROVE StoredFirst'
  BY SMTT(30), <1>15 DEF RunFinish, GoTo, WithState,
     Inv, TypeOK, StoredFirst, UserTarget, Air, Requests, Rows
<1>16. ASSUME NEW r \in Requests, Deregister(r) PROVE StoredFirst'
  BY Zenon, <1>16 DEF Deregister,
     Inv, TypeOK, StoredFirst, UserTarget, Air, Requests, Rows
<1>17. ASSUME NEW c \in Codes, HearAck(c) PROVE StoredFirst'
  BY Zenon, <1>17 DEF HearAck,
     Inv, TypeOK, StoredFirst, UserTarget, Air, Requests, Rows
<1>18. ASSUME PeriodicCleanup PROVE StoredFirst'
  BY Zenon, <1>18 DEF PeriodicCleanup, Expire,
     Inv, TypeOK, StoredFirst, UserTarget, Air, Requests, Rows
<1>19. ASSUME NEW u \in Users, NEW m \in Msgs, NEW kind \in {"cancel", "delete"}, UserStop(u, m, kind) PROVE StoredFirst'
  BY <1>19 DEF UserStop, CancelTask, Live, RunIsTracked, Running,
     Inv, TypeOK, StoredFirst, UserTarget, Air, Requests, Rows
<1>20. ASSUME NEW u \in Users, UserMark(u) PROVE StoredFirst'
  BY <1>20 DEF UserMark, WithState, UserTarget,
     Inv, TypeOK, StoredFirst, UserTarget, Air, Requests, Rows
<1>21. ASSUME NEW u \in Users, UserDelete(u) PROVE StoredFirst'
  <2>1. /\ row[user[u].msg].kind # "none" /\ user[u].msg \in Msgs
        /\ row' = [row EXCEPT ![user[u].msg] = [NoRow EXCEPT !.kind = "deleted"]]
        /\ UNCHANGED <<reqPc, runPc>>
        /\ \A v \in Users : /\ user'[v].msg = user[v].msg
                            /\ user'[v].pc # "idle" => user[v].pc # "idle"
    BY <1>21 DEF UserDelete, StoredFirst, Inv, TypeOK, UserTarget
  <2>2. \A m \in Msgs : row[m].kind # "none" <=> row'[m].kind # "none"
    BY Zenon, <2>1 DEF NoRow, Inv, TypeOK
  <2> QED
    BY Zenon, <2>1, <2>2 DEF StoredFirst, Inv, UserTarget, Requests
<1>22. ASSUME Restart PROVE StoredFirst'
  <2>1. /\ row' = row
        /\ \A q \in Requests : /\ reqPc'[q] # "idle" <=> reqPc[q] # "idle"
                               /\ reqPc'[q] \notin {"inc", "done"} => reqPc[q] = "idle"
                               /\ runPc'[q] # "none" <=> runPc[q] # "none"
    BY Zenon, <1>22 DEF Restart
  <2>2. \A u \in Users : /\ user'[u].msg = user[u].msg
                         /\ user'[u].pc # "idle" => user[u].pc # "idle"
    BY <1>22 DEF Restart, Inv, TypeOK
  <2>3. \A m \in Msgs : reqPc'[m] \notin {"inc", "done"} => row'[m].kind = "none"
    BY Zenon, <2>1 DEF StoredFirst, Requests
  <2>4. /\ \A r \in Retries : reqPc'[r] # "idle" => row'[Target(r)].kind # "none"
        /\ \A r \in Requests : runPc'[r] # "none" => row'[Target(r)].kind # "none"
    BY Zenon, <2>1 DEF StoredFirst, Requests
  <2>5. \A u \in Users : user'[u].pc # "idle" => row'[user'[u].msg].kind # "none"
    BY Zenon, <2>1, <2>2 DEF StoredFirst
  <2> QED
    BY Zenon, <2>3, <2>4, <2>5 DEF StoredFirst
<1>23. CASE UNCHANGED vars
  BY Zenon, <1>23 DEF vars, Inv, TypeOK, StoredFirst, UserTarget, Air, Requests, Rows
<1> QED
  BY Zenon, <1>1, <1>2, <1>3, <1>4, <1>5, <1>6, <1>7, <1>8, <1>9, <1>10, <1>11, <1>12, <1>13, <1>14, <1>15, <1>16, <1>17, <1>18, <1>19, <1>20, <1>21, <1>22, <1>23
     DEF Next, RequestStep, RunStep, UserStep

LEMMA NextMatch == NoMissedMatch /\ [Next]_vars => NoMissedMatch'
<1> SUFFICES ASSUME NoMissedMatch, [Next]_vars PROVE NoMissedMatch'
  BY Zenon
<1> USE RequestsAssumption, TargetType
<1>1. ASSUME NEW m \in Msgs, StartSend(m) PROVE NoMissedMatch'
  BY Zenon, <1>1 DEF StartSend,
     NoMissedMatch
<1>2. ASSUME NEW m \in Msgs, AckIncrement(m) PROVE NoMissedMatch'
  BY Zenon, <1>2 DEF AckIncrement,
     NoMissedMatch
<1>3. ASSUME NEW r \in Retries, StartRetry(r) PROVE NoMissedMatch'
  BY Zenon, <1>3 DEF StartRetry,
     NoMissedMatch
<1>4. ASSUME NEW r \in Requests, ReqTransmit(r) PROVE NoMissedMatch'
  BY Zenon, <1>4 DEF ReqTransmit,
     NoMissedMatch
<1>5. ASSUME NEW r \in Requests, ReqAnswered(r) PROVE NoMissedMatch'
  BY Zenon, <1>5 DEF ReqAnswered,
     NoMissedMatch
<1>6. ASSUME NEW r \in Requests, ReqStore(r) PROVE NoMissedMatch'
  BY Zenon, <1>6 DEF ReqStore,
     NoMissedMatch
<1>7. ASSUME NEW r \in Requests, ReqIncrement(r) PROVE NoMissedMatch'
  BY Zenon, <1>7 DEF ReqIncrement,
     NoMissedMatch
<1>8. ASSUME NEW r \in Requests, RunWake(r) PROVE NoMissedMatch'
  BY Zenon, <1>8 DEF RunWake,
     NoMissedMatch
<1>9. ASSUME NEW r \in Requests, RunTransmit(r) PROVE NoMissedMatch'
  BY Zenon, <1>9 DEF RunTransmit,
     NoMissedMatch
<1>10. ASSUME NEW r \in Requests, RunAnswered(r) PROVE NoMissedMatch'
  BY Zenon, <1>10 DEF RunAnswered,
     NoMissedMatch
<1>11. ASSUME NEW r \in Requests, RunRecheck(r) PROVE NoMissedMatch'
  BY Zenon, <1>11 DEF RunRecheck,
     NoMissedMatch
<1>12. ASSUME NEW r \in Requests, RunTrack(r) PROVE NoMissedMatch'
  BY Zenon, <1>12 DEF RunTrack,
     NoMissedMatch
<1>13. ASSUME NEW r \in Requests, RunIncrement(r) PROVE NoMissedMatch'
  BY Zenon, <1>13 DEF RunIncrement,
     NoMissedMatch
<1>14. ASSUME NEW r \in Requests, RunFinal(r) PROVE NoMissedMatch'
  BY Zenon, <1>14 DEF RunFinal,
     NoMissedMatch
<1>15. ASSUME NEW r \in Requests, RunFinish(r) PROVE NoMissedMatch'
  BY Zenon, <1>15 DEF RunFinish,
     NoMissedMatch
<1>16. ASSUME NEW r \in Requests, Deregister(r) PROVE NoMissedMatch'
  BY Zenon, <1>16 DEF Deregister,
     NoMissedMatch
<1>17. ASSUME NEW c \in Codes, HearAck(c) PROVE NoMissedMatch'
  BY ZenonT(30), <1>17 DEF HearAck,
     NoMissedMatch
<1>18. ASSUME PeriodicCleanup PROVE NoMissedMatch'
  BY Zenon, <1>18 DEF PeriodicCleanup, Expire,
     NoMissedMatch
<1>19. ASSUME NEW u \in Users, NEW m \in Msgs, NEW kind \in {"cancel", "delete"}, UserStop(u, m, kind) PROVE NoMissedMatch'
  BY Zenon, <1>19 DEF UserStop,
     NoMissedMatch
<1>20. ASSUME NEW u \in Users, UserMark(u) PROVE NoMissedMatch'
  BY Zenon, <1>20 DEF UserMark,
     NoMissedMatch
<1>21. ASSUME NEW u \in Users, UserDelete(u) PROVE NoMissedMatch'
  BY Zenon, <1>21 DEF UserDelete,
     NoMissedMatch
<1>22. ASSUME Restart PROVE NoMissedMatch'
  BY Zenon, <1>22 DEF Restart,
     NoMissedMatch
<1>23. CASE UNCHANGED vars
  BY Zenon, <1>23 DEF vars, NoMissedMatch
<1> QED
  BY ZenonT(30), <1>1, <1>2, <1>3, <1>4, <1>5, <1>6, <1>7, <1>8, <1>9, <1>10, <1>11, <1>12, <1>13, <1>14, <1>15, <1>16, <1>17, <1>18, <1>19, <1>20, <1>21, <1>22, <1>23
     DEF Next, RequestStep, RunStep, UserStep
\* An ACK never waits in the buffer beside the registration it belongs to.
THEOREM AcksMatched == Spec => []NoMissedMatch
<1>1. Init => NoMissedMatch
  BY Zenon DEF Init, NoMissedMatch
<1> QED
  BY <1>1, NextMatch, PTL DEF Spec

-----------------------------------------------------------------------------
(* No ACK is lost between the buffer, the registrations and the row.         *)

Settled(m) == Live(m) => row[m].acked > 0 \/ Counting(m)

\* A registration that left the tracker without ageing out, and an ACK that left
\* the buffer without ageing out, have been counted or are being counted.
AwaitedSettled == \A c \in awaited \ pending : Settled(c[1])
ArrivedSettled == \A c \in arrived \ buffered : Settled(c[1])

\* Before its row is stored a message awaits nothing and no ACK of it is used.
UnstoredUntouched ==
  \A m \in Msgs : row[m].kind = "none" =>
    CodesOf(m) \cap (awaited \cup pending) = {} /\ CodesOf(m) \cap arrived \subseteq buffered

\* What the counting of ACKs rests on, besides NoMissedMatch and StoredFirst.
Counts == AwaitedSettled /\ ArrivedSettled /\ UnstoredUntouched

LEMMA CodeTypes ==
  Inv => /\ pending \subseteq Codes /\ buffered \subseteq Codes
         /\ awaited \subseteq Codes /\ arrived \subseteq Codes
BY Zenon DEF Inv, TypeOK

LEMMA CodeMessage == \A c \in Codes : c[1] \in Msgs
BY Zenon DEF Codes

\* A step that leaves the tracker alone and settles no message back.
LEMMA Frame ==
  ASSUME Inv, Counts, UNCHANGED ackVars,
         \A n \in Msgs : Settled(n) => Settled(n)',
         \A n \in Msgs : row'[n].kind = "none" => row[n].kind = "none"
  PROVE  Counts'
<1>1. AwaitedSettled' /\ ArrivedSettled'
  BY Zenon, CodeMessage, CodeTypes DEF Counts, AwaitedSettled, ArrivedSettled
<1>2. UnstoredUntouched'
  BY Zenon DEF Counts, UnstoredUntouched, CodesOf
<1> QED
  BY Zenon, <1>1, <1>2 DEF Counts

\* A step that neither counts an ACK nor gives one up.
LEMMA Quiet ==
  ASSUME Inv, Counts, UNCHANGED ackVars, UNCHANGED claims,
         \A n \in Msgs : /\ row'[n].kind = "none" => row[n].kind = "none"
                         /\ row'[n].kind = "live" => /\ row[n].kind = "live"
                                                     /\ row'[n].acked = row[n].acked,
         \A r \in Requests : /\ reqPc[r] = "inc" => reqPc'[r] = "inc"
                             /\ runPc[r] = "inc" => runPc'[r] = "inc"
  PROVE  Counts'
<1>1. \A n \in Msgs : Settled(n) => Settled(n)'
  BY Zenon DEF Settled, Live, Counting
<1> QED
  BY Zenon, <1>1, Frame

\* A step that counts an ACK of m.
LEMMA Count ==
  ASSUME Inv, Counts, UNCHANGED ackVars, NEW m \in Msgs, row' = Incremented(m),
         \A n \in Msgs \ {m} : Counting(n) => Counting(n)'
  PROVE  Counts'
<1>1. \A n \in Msgs \ {m} : row'[n] = row[n]
  BY Zenon DEF Incremented, Inv, TypeOK
<1>2. /\ row'[m].kind = row[m].kind
      /\ row[m].kind = "live" => row'[m].acked > 0
  <2>1. row[m].acked \in Nat /\ row'[m].kind = row[m].kind
    BY DEF Incremented, Inv, TypeOK, Rows
  <2>2. row[m].kind = "live" => row'[m].acked = row[m].acked + 1
    BY Zenon DEF Incremented, Live, Inv, TypeOK, Rows
  <2> QED
    BY <2>1, <2>2
<1>3. \A n \in Msgs : Settled(n) => Settled(n)'
  BY Zenon, <1>1, <1>2 DEF Settled, Live
<1> QED
  BY Zenon, <1>1, <1>2, <1>3, Frame

\* Cancelling the registered run gives up the ACKs of its message at most.
LEMMA CancelCounts ==
  ASSUME Inv, Counts, NEW m \in Msgs, CancelTask(m),
         arrived' = arrived \ LostByCancel(m), awaited' = awaited \ LostByCancel(m),
         UNCHANGED <<row, pending, buffered, claims>>,
         \A r \in Requests : reqPc[r] = "inc" => reqPc'[r] = "inc"
  PROVE  Counts'
<1>1. \A n \in Msgs : Settled(n) => Settled(n)' \/ (n = m /\ LostByCancel(m) = CodesOf(m))
  <2> SUFFICES ASSUME NEW n \in Msgs, Settled(n), Live(n), row[n].acked = 0, ~Counting(n)'
               PROVE  n = m /\ LostByCancel(m) = CodesOf(m)
    BY SMTT(30) DEF Settled, Live, Inv, TypeOK, Rows
  <2>1. PICK r \in Requests : Target(r) = n /\ runPc[r] = "inc" /\ runPc'[r] # "inc"
    BY SMTT(30) DEF Settled, Counting, Inv, TypeOK, Rows
  <2>2. r = tracker[m]
    BY Zenon, <2>1 DEF CancelTask
  <2> QED
    BY Zenon, <2>1, <2>2, RequestsAssumption DEF LostByCancel, Inv, TrackerTarget, Requests
<1>2. \A c \in Codes : c[1] = m <=> c \in CodesOf(m)
  BY Zenon, SMTT(30) DEF CodesOf
<1>3. AwaitedSettled' /\ ArrivedSettled'
  BY Zenon, <1>1, <1>2, CodeMessage, CodeTypes DEF Counts, AwaitedSettled, ArrivedSettled
<1>4. UnstoredUntouched'
  BY Zenon, SMTT(30) DEF Counts, UnstoredUntouched, CodesOf
<1> QED
  BY Zenon, <1>3, <1>4 DEF Counts

\* Storing a row (or restarting its run) loses no ACK: those of a new row wait in
\* the buffer, those of a retried row were counted or belong to its old run.
LEMMA StoreCounts ==
  ASSUME Inv, StoredFirst, Counts, NEW r \in Requests, ReqStore(r)
  PROVE  Counts'
<1> DEFINE m == Target(r)
          c == <<m, 0>>
<1>1. /\ m \in Msgs /\ c \in Codes /\ c \in CodesOf(m) /\ c[1] = m
      /\ CodesOf(m) \subseteq Codes
      /\ \A d \in Codes : d[1] = m <=> d \in CodesOf(m)
  BY SMTT(30), TargetType DEF Codes, CodesOf
<1>2. /\ \A n \in Msgs \ {m} : row'[n] = row[n]
      /\ row'[m].kind # "none"
      /\ row[m].kind = "live" => row'[m].kind = "live" /\ row'[m].acked = row[m].acked
      /\ row[m].kind # "none" /\ row[m].kind # "live" => row'[m].kind # "live"
  <2>1. r \in Msgs => m = r /\ row[m].kind = "none"
    BY Zenon, <1>1 DEF ReqStore, StoredFirst, Target
  <2>2. r \in Retries => row[m].kind # "none"
    BY Zenon DEF ReqStore, StoredFirst
  <2>3. r \in Msgs => row'[m].kind = "live"
    BY Zenon, <1>1 DEF ReqStore, StoredRow, Inv, TypeOK
  <2>4. r \notin Msgs => row'[m].kind = row[m].kind /\ row'[m].acked = row[m].acked
    BY <1>1 DEF ReqStore, StoredRow, Inv, TypeOK, Rows
  <2>5. \A n \in Msgs \ {m} : row'[n] = row[n]
    BY Zenon, <1>1 DEF ReqStore, StoredRow, Inv, TypeOK
  <2> QED
    BY Zenon, <2>1, <2>2, <2>3, <2>4, <2>5 DEF Requests
<1>3. row[m].kind = "none" => /\ CodesOf(m) \cap (awaited \cup pending) = {}
                              /\ CodesOf(m) \cap arrived \subseteq buffered
  BY Zenon, <1>1 DEF Counts, UnstoredUntouched
<1>4. \A n \in Msgs \ {m} :
        row'[n].kind = "none" =>
          /\ CodesOf(n) \cap (awaited \cup pending) = {}
          /\ CodesOf(n) \cap arrived \subseteq buffered
  BY Zenon, <1>2 DEF Counts, UnstoredUntouched
<1>5. claims' = claims
  BY Zenon DEF ReqStore
<1> HIDE DEF m
<1>6. CASE reqPc[r] = "okNocode"
  <2>1. UNCHANGED <<ackVars, runPc>> /\ \A q \in Requests : reqPc[q] = "inc" => reqPc'[q] = "inc"
    BY Zenon, <1>6, SMTT(30) DEF ReqStore, Inv, TypeOK
  <2>2. \A n \in Msgs : n # m \/ row[m].kind # "none" => (Settled(n) => Settled(n)')
    BY SMTT(30), <1>2, <1>5, <2>1 DEF Settled, Live, Counting
  <2>3. AwaitedSettled' /\ ArrivedSettled'
    BY Zenon, <1>1, <1>3, <2>1, <2>2, CodeMessage, CodeTypes DEF Counts, AwaitedSettled, ArrivedSettled
  <2>4. UnstoredUntouched'
    BY Zenon, <1>2, <1>4, <2>1 DEF UnstoredUntouched, CodesOf
  <2> QED
    BY Zenon, <2>3, <2>4 DEF Counts
<1>7. CASE reqPc[r] = "okCode" /\ c \in buffered
  <2>1. /\ buffered' = buffered \ {c} /\ pending' = pending \ CodesOf(m)
        /\ awaited' = awaited \cup {c} /\ arrived' = arrived
        /\ runPc' = runPc /\ reqPc'[r] = "inc"
        /\ \A q \in Requests : reqPc[q] = "inc" => reqPc'[q] = "inc"
    BY Zenon, <1>7 DEF ReqStore, Inv, TypeOK, m
  <2>2. Settled(m)'
    BY Zenon, <2>1 DEF Settled, Counting, m
  <2>3. \A n \in Msgs : Settled(n) => Settled(n)'
    BY Zenon, <1>2, <1>5, <2>1, <2>2 DEF Settled, Live, Counting
  <2>4. AwaitedSettled' /\ ArrivedSettled'
    BY Zenon, <1>1, <2>1, <2>2, <2>3, CodeMessage, CodeTypes DEF Counts, AwaitedSettled, ArrivedSettled
  <2>5. UnstoredUntouched'
    BY SMTT(30), <1>1, <1>2, <1>4, <2>1 DEF UnstoredUntouched, CodesOf
  <2> QED
    BY Zenon, <2>4, <2>5 DEF Counts
<1>8. CASE reqPc[r] = "okCode" /\ c \notin buffered
  <2>1. /\ buffered' = buffered /\ pending' = pending \cup {c}
        /\ \A q \in Requests : reqPc[q] = "inc" => reqPc'[q] = "inc"
    BY Zenon, <1>8, SMTT(30) DEF ReqStore, Inv, TypeOK, m
  <2>2. /\ arrived' \subseteq arrived /\ awaited' \subseteq awaited \cup {c}
        /\ \/ runPc' = runPc
           \/ /\ arrived' \cap LostByCancel(m) = {} /\ awaited' \cap LostByCancel(m) \subseteq {c}
              /\ \A q \in Requests : q # r /\ runPc[q] = "inc" /\ runPc'[q] # "inc" => q = tracker[m]
    BY Zenon, <1>1, <1>8 DEF ReqStore, Register, m
  <2>3. runPc[r] # "inc"
    BY Zenon, <1>8 DEF Inv, RunAfterRequest
  <2>4. \A n \in Msgs : n # m \/ row[m].kind # "none" =>
          (Settled(n) => Settled(n)' \/ (/\ n = m /\ arrived' \cap CodesOf(m) = {}
                                         /\ awaited' \cap CodesOf(m) \subseteq {c}))
    <3> SUFFICES ASSUME NEW n \in Msgs, n # m \/ row[m].kind # "none", Settled(n), ~Settled(n)'
                 PROVE  /\ n = m /\ arrived' \cap CodesOf(m) = {}
                        /\ awaited' \cap CodesOf(m) \subseteq {c}
      BY Zenon
    <3>1. Counting(n) /\ ~Counting(n)'
      BY Zenon, <1>2 DEF Settled, Live
    <3>2. PICK q \in Requests : Target(q) = n /\ runPc[q] = "inc" /\ runPc'[q] # "inc"
      BY Zenon, <3>1, <1>5, <2>1 DEF Counting
    <3>3. q = tracker[m] /\ arrived' \cap LostByCancel(m) = {}
          /\ awaited' \cap LostByCancel(m) \subseteq {c}
      BY Zenon, <2>2, <2>3, <3>2
    <3>4. n = m /\ LostByCancel(m) = CodesOf(m)
      BY Zenon, <1>1, <3>2, <3>3, RequestsAssumption DEF LostByCancel, Inv, TrackerTarget, Requests
    <3> QED
      BY Zenon, <3>3, <3>4
  <2>5. AwaitedSettled' /\ ArrivedSettled'
    BY Zenon, <1>1, <1>3, <2>1, <2>2, <2>4, CodeMessage, CodeTypes
       DEF Counts, AwaitedSettled, ArrivedSettled
  <2>6. UnstoredUntouched'
    BY SMTT(30), <1>1, <1>2, <1>4, <2>1, <2>2 DEF UnstoredUntouched, CodesOf
  <2> QED
    BY Zenon, <2>5, <2>6 DEF Counts
<1> QED
  BY Zenon, <1>6, <1>7, <1>8 DEF ReqStore

LEMMA TrackCounts ==
  ASSUME Inv, StoredFirst, Counts, NEW r \in Requests, RunTrack(r)
  PROVE  Counts'
<1> DEFINE m == Target(r)
          c == <<m, attempt[r]>>
<1>1. /\ m \in Msgs /\ c \in Codes /\ c \in CodesOf(m) /\ row[m].kind # "none"
      /\ \A d \in Codes : d[1] = m <=> d \in CodesOf(m)
  BY TargetType, SMTT(30) DEF RunTrack, Inv, TypeOK, AttemptBound, StoredFirst, Codes, CodesOf, Running, RunPcs
<1>2. UNCHANGED <<row, claims, arrived, reqPc>> /\ awaited' = awaited \cup {c}
  BY Zenon, ZenonT(30) DEF RunTrack
<1>3. \A q \in Requests : runPc[q] = "inc" => runPc'[q] = "inc"
  BY Zenon, SMTT(30) DEF RunTrack, GoTo, Advance, Inv, TypeOK
<1>4. \A n \in Msgs : Settled(n) => Settled(n)'
  BY Zenon, <1>2, <1>3 DEF Settled, Live, Counting
<1>5. \/ /\ pending' = pending \cup {c} /\ buffered' = buffered
      \/ /\ pending' = pending \ CodesOf(m) /\ buffered' = buffered \ {c}
         /\ runPc'[r] = "inc"
  BY Zenon DEF RunTrack, GoTo, Inv, TypeOK
<1>6. runPc'[r] = "inc" => Settled(m)'
  BY Zenon, SMTT(30) DEF Settled, Counting
<1> HIDE DEF m, c
<1>7. AwaitedSettled' /\ ArrivedSettled'
  BY Zenon, <1>1, <1>2, <1>4, <1>5, <1>6, CodeMessage, CodeTypes
     DEF Counts, AwaitedSettled, ArrivedSettled
<1>8. UnstoredUntouched'
  BY Zenon, <1>1, <1>2, <1>5 DEF Counts, UnstoredUntouched, CodesOf
<1> QED
  BY Zenon, <1>7, <1>8 DEF Counts

LEMMA HearCounts ==
  ASSUME Inv, Counts, NEW c \in Codes, HearAck(c)
  PROVE  Counts'
<1> DEFINE m == c[1]
<1>1. /\ m \in Msgs /\ c \in CodesOf(m)
      /\ \A d \in Codes : d[1] = m <=> d \in CodesOf(m)
  BY Zenon, SMTT(30) DEF Codes, CodesOf
<1>2. UNCHANGED <<row, reqPc, runPc>>
  BY Zenon, SMTT(30) DEF HearAck
<1>3. PICK old \in SUBSET (pending \cup buffered) :
       /\ awaited' = awaited \ (pending \cap old)
       /\ arrived' = (arrived \ (buffered \cap old)) \cup {c}
       /\ \/ /\ c \in pending \ old
             /\ pending' = (pending \ old) \ CodesOf(c[1])
             /\ buffered' = buffered \ old
             /\ claims' = [claims EXCEPT ![c[1]] = @ + 1]
          \/ /\ c \notin pending \ old
             /\ pending' = pending \ old
             /\ buffered' = (buffered \ old) \cup {c}
             /\ UNCHANGED claims
  BY Zenon DEF HearAck
<1> HIDE DEF m
<1>4. CASE c \in pending \ old
  <2>1. /\ pending' = (pending \ old) \ CodesOf(m) /\ buffered' = buffered \ old
        /\ claims' = [claims EXCEPT ![m] = @ + 1]
    BY Zenon, <1>3, <1>4 DEF m
  <2>2. \A n \in Msgs : claims[n] > 0 \/ n = m => claims'[n] > 0
    BY SMTT(30), <1>1, <2>1 DEF Inv, TypeOK
  <2>3. Settled(m)' /\ \A n \in Msgs : Settled(n) => Settled(n)'
    BY Zenon, <1>1, <1>2, <2>2 DEF Settled, Live, Counting
  <2>4. AwaitedSettled' /\ ArrivedSettled'
    BY Zenon, <1>1, <1>3, <2>1, <2>3, CodeMessage, CodeTypes
       DEF m, Counts, AwaitedSettled, ArrivedSettled
  <2>5. row[m].kind # "none"
    BY Zenon, <1>1, <1>4 DEF Counts, UnstoredUntouched
  <2>6. UnstoredUntouched'
    BY Zenon, <1>1, <1>2, <1>3, <2>1, <2>5 DEF Counts, UnstoredUntouched, CodesOf, m
  <2> QED
    BY Zenon, <2>4, <2>6 DEF Counts
<1>5. CASE c \notin pending \ old
  <2>1. /\ pending' = pending \ old /\ buffered' = (buffered \ old) \cup {c}
        /\ claims' = claims
    BY Zenon, <1>3, <1>5
  <2>2. \A n \in Msgs : Settled(n) => Settled(n)'
    BY Zenon, <1>2, <2>1 DEF Settled, Live, Counting
  <2>3. AwaitedSettled' /\ ArrivedSettled'
    BY Zenon, <1>3, <2>1, <2>2, CodeMessage, CodeTypes
       DEF Counts, AwaitedSettled, ArrivedSettled
  <2>4. UnstoredUntouched'
    BY Zenon, <1>2, <1>3, <2>1 DEF Counts, UnstoredUntouched, CodesOf
  <2> QED
    BY Zenon, <2>3, <2>4 DEF Counts
<1> QED
  BY Zenon, <1>4, <1>5
LEMMA NextCounts == Inv /\ StoredFirst /\ Counts /\ [Next]_vars => Counts'
<1> SUFFICES ASSUME Inv, StoredFirst, Counts, [Next]_vars PROVE Counts'
  BY Zenon, SMTT(30)
<1> USE RequestsAssumption, TargetType
<1>1. ASSUME NEW m \in Msgs, StartSend(m) PROVE Counts'
  <2>1. /\ UNCHANGED ackVars /\ UNCHANGED claims
        /\ \A n \in Msgs : row'[n].kind = row[n].kind /\ row'[n].acked = row[n].acked
        /\ \A q \in Requests : /\ reqPc[q] = "inc" => reqPc'[q] = "inc"
                               /\ runPc[q] = "inc" => runPc'[q] = "inc"
    BY Zenon, <1>1 DEF StartSend, Inv, TypeOK, Air, Requests
  <2> QED
    BY Zenon, <2>1, Quiet
<1>2. ASSUME NEW m \in Msgs, AckIncrement(m) PROVE Counts'
  <2>1. \A k \in Msgs \ {m} : Counting(k) => Counting(k)'
    BY Zenon, <1>2 DEF AckIncrement, Counting, Inv, TypeOK
  <2> QED
    BY Zenon, <1>2, <2>1, Count DEF AckIncrement
<1>3. ASSUME NEW r \in Retries, StartRetry(r) PROVE Counts'
  <2>1. \A q \in Requests : reqPc[q] = "inc" => reqPc'[q] = "inc"
    BY Zenon, <1>3 DEF StartRetry, Inv, TypeOK, Requests
  <2>2. Target(r) \in Msgs
    BY Zenon, SMTT(30) DEF Requests
  <2> QED
    BY Zenon, <1>3, <2>1, <2>2, CancelCounts DEF StartRetry
<1>4. ASSUME NEW r \in Requests, ReqTransmit(r) PROVE Counts'
  <2>1. /\ UNCHANGED ackVars /\ UNCHANGED claims
        /\ \A n \in Msgs : row'[n].kind = row[n].kind /\ row'[n].acked = row[n].acked
        /\ \A q \in Requests : /\ reqPc[q] = "inc" => reqPc'[q] = "inc"
                               /\ runPc[q] = "inc" => runPc'[q] = "inc"
    BY Zenon, <1>4 DEF ReqTransmit, Inv, TypeOK, Air, Requests
  <2> QED
    BY Zenon, <2>1, Quiet
<1>5. ASSUME NEW r \in Requests, ReqAnswered(r) PROVE Counts'
  <2>1. /\ UNCHANGED ackVars /\ UNCHANGED claims
        /\ \A n \in Msgs : row'[n].kind = row[n].kind /\ row'[n].acked = row[n].acked
        /\ \A q \in Requests : /\ reqPc[q] = "inc" => reqPc'[q] = "inc"
                               /\ runPc[q] = "inc" => runPc'[q] = "inc"
    BY Zenon, <1>5 DEF ReqAnswered, Inv, TypeOK, Air, Requests
  <2> QED
    BY Zenon, <2>1, Quiet
<1>6. ASSUME NEW r \in Requests, ReqStore(r) PROVE Counts'
  BY Zenon, <1>6, StoreCounts
<1>7. ASSUME NEW r \in Requests, ReqIncrement(r) PROVE Counts'
  <2>1. \A k \in Msgs \ {Target(r)} : Counting(k) => Counting(k)'
    BY Zenon, <1>7 DEF ReqIncrement, Counting, Inv, TypeOK
  <2> QED
    BY Zenon, <1>7, <2>1, Count DEF ReqIncrement
<1>8. ASSUME NEW r \in Requests, RunWake(r) PROVE Counts'
  <2>1. /\ UNCHANGED ackVars /\ UNCHANGED claims
        /\ \A n \in Msgs : row'[n].kind = row[n].kind /\ row'[n].acked = row[n].acked
        /\ \A q \in Requests : /\ reqPc[q] = "inc" => reqPc'[q] = "inc"
                               /\ runPc[q] = "inc" => runPc'[q] = "inc"
    BY Zenon, <1>8 DEF RunWake, GoTo, Inv, TypeOK, Air, Requests
  <2> QED
    BY Zenon, <2>1, Quiet
<1>9. ASSUME NEW r \in Requests, RunTransmit(r) PROVE Counts'
  <2>1. /\ UNCHANGED ackVars /\ UNCHANGED claims
        /\ \A n \in Msgs : row'[n].kind = row[n].kind /\ row'[n].acked = row[n].acked
        /\ \A q \in Requests : /\ reqPc[q] = "inc" => reqPc'[q] = "inc"
                               /\ runPc[q] = "inc" => runPc'[q] = "inc"
    BY Zenon, <1>9 DEF RunTransmit, GoTo, Inv, TypeOK, Air, Requests
  <2> QED
    BY Zenon, <2>1, Quiet
<1>10. ASSUME NEW r \in Requests, RunAnswered(r) PROVE Counts'
  <2>1. /\ UNCHANGED ackVars /\ UNCHANGED claims
        /\ \A n \in Msgs : row'[n].kind = row[n].kind /\ row'[n].acked = row[n].acked
        /\ \A q \in Requests : /\ reqPc[q] = "inc" => reqPc'[q] = "inc"
                               /\ runPc[q] = "inc" => runPc'[q] = "inc"
    <3>1. row \in [Msgs -> Rows] /\ Target(r) \in Msgs
      BY Zenon DEF Inv, TypeOK
    <3>2. \A n \in Msgs : /\ Counted(Target(r))[n].kind = row[n].kind
                          /\ Counted(Target(r))[n].acked = row[n].acked
      BY ZenonT(30), <3>1 DEF Counted, Rows
    <3>3. row' = row \/ row' = Counted(Target(r))
      BY Zenon, <1>10 DEF RunAnswered
    <3>4. \A q \in Requests : runPc[q] = "inc" => runPc'[q] = "inc"
      BY Zenon, <1>10 DEF RunAnswered, Advance, GoTo, Inv, TypeOK
    <3> QED
      BY Zenon, <1>10, <3>2, <3>3, <3>4 DEF RunAnswered
  <2> QED
    BY Zenon, <2>1, Quiet
<1>11. ASSUME NEW r \in Requests, RunRecheck(r) PROVE Counts'
  <2>1. /\ UNCHANGED ackVars /\ UNCHANGED claims
        /\ \A n \in Msgs : row'[n].kind = row[n].kind /\ row'[n].acked = row[n].acked
        /\ \A q \in Requests : /\ reqPc[q] = "inc" => reqPc'[q] = "inc"
                               /\ runPc[q] = "inc" => runPc'[q] = "inc"
    BY Zenon, <1>11 DEF RunRecheck, Advance, GoTo, Inv, TypeOK, Air, Requests
  <2> QED
    BY Zenon, <2>1, Quiet
<1>12. ASSUME NEW r \in Requests, RunTrack(r) PROVE Counts'
  BY Zenon, <1>12, TrackCounts
<1>13. ASSUME NEW r \in Requests, RunIncrement(r) PROVE Counts'
  <2>1. \A k \in Msgs \ {Target(r)} : Counting(k) => Counting(k)'
    BY Zenon, <1>13 DEF RunIncrement, GoTo, Counting, Inv, TypeOK
  <2> QED
    BY Zenon, <1>13, <2>1, Count DEF RunIncrement
<1>14. ASSUME NEW r \in Requests, RunFinal(r) PROVE Counts'
  <2>1. /\ UNCHANGED ackVars /\ UNCHANGED claims
        /\ \A n \in Msgs : row'[n].kind = row[n].kind /\ row'[n].acked = row[n].acked
        /\ \A q \in Requests : /\ reqPc[q] = "inc" => reqPc'[q] = "inc"
                               /\ runPc[q] = "inc" => runPc'[q] = "inc"
    BY Zenon, <1>14 DEF RunFinal, GoTo, Inv, TypeOK, Air, Requests
  <2> QED
    BY Zenon, <2>1, Quiet
<1>15. ASSUME NEW r \in Requests, RunFinish(r) PROVE Counts'
  <2>1. /\ UNCHANGED ackVars /\ UNCHANGED claims
        /\ \A n \in Msgs : row'[n].kind = row[n].kind /\ row'[n].acked = row[n].acked
        /\ \A q \in Requests : /\ reqPc[q] = "inc" => reqPc'[q] = "inc"
                               /\ runPc[q] = "inc" => runPc'[q] = "inc"
    BY SMTT(30), <1>15 DEF RunFinish, GoTo, WithState, Rows, Inv, TypeOK, Air, Requests
  <2> QED
    BY Zenon, <2>1, Quiet
<1>16. ASSUME NEW r \in Requests, Deregister(r) PROVE Counts'
  <2>1. /\ UNCHANGED ackVars /\ UNCHANGED claims
        /\ \A n \in Msgs : row'[n].kind = row[n].kind /\ row'[n].acked = row[n].acked
        /\ \A q \in Requests : /\ reqPc[q] = "inc" => reqPc'[q] = "inc"
                               /\ runPc[q] = "inc" => runPc'[q] = "inc"
    BY Zenon, <1>16 DEF Deregister, Inv, TypeOK, Air, Requests
  <2> QED
    BY Zenon, <2>1, Quiet
<1>17. ASSUME NEW c \in Codes, HearAck(c) PROVE Counts'
  BY Zenon, <1>17, HearCounts
<1>18. ASSUME PeriodicCleanup PROVE Counts'
  <2>1. UNCHANGED <<row, claims, reqPc, runPc>>
    BY Zenon, <1>18 DEF PeriodicCleanup
  <2>2. \A k \in Msgs : Settled(k) => Settled(k)'
    BY Zenon, <2>1 DEF Settled, Live, Counting
  <2>3. AwaitedSettled' /\ ArrivedSettled'
    BY Zenon, <1>18, <2>2, CodeMessage, CodeTypes
       DEF PeriodicCleanup, Expire, Counts, AwaitedSettled, ArrivedSettled
  <2>4. UnstoredUntouched'
    BY Zenon, <1>18, <2>1 DEF PeriodicCleanup, Expire, Counts, UnstoredUntouched, CodesOf
  <2> QED
    BY Zenon, <2>3, <2>4 DEF Counts
<1>19. ASSUME NEW u \in Users, NEW m \in Msgs, NEW kind \in {"cancel", "delete"}, UserStop(u, m, kind) PROVE Counts'
  BY Zenon, <1>19, CancelCounts DEF UserStop
<1>20. ASSUME NEW u \in Users, UserMark(u) PROVE Counts'
  <2>1. /\ UNCHANGED ackVars /\ UNCHANGED claims
        /\ \A n \in Msgs : row'[n].kind = row[n].kind /\ row'[n].acked = row[n].acked
        /\ \A q \in Requests : /\ reqPc[q] = "inc" => reqPc'[q] = "inc"
                               /\ runPc[q] = "inc" => runPc'[q] = "inc"
    BY <1>20 DEF UserMark, WithState, Rows, Inv, TypeOK, Air, Requests
  <2> QED
    BY Zenon, <2>1, Quiet
<1>21. ASSUME NEW u \in Users, UserDelete(u) PROVE Counts'
  <2>1. /\ UNCHANGED ackVars /\ UNCHANGED <<claims, reqPc, runPc>> /\ user[u].msg \in Msgs
        /\ row' = [row EXCEPT ![user[u].msg] = [NoRow EXCEPT !.kind = "deleted"]]
    BY Zenon, <1>21 DEF UserDelete, Inv, UserTarget
  <2>2. \A k \in Msgs : /\ row'[k].kind = "none" => row[k].kind = "none"
                        /\ row'[k].kind = "live" => /\ row[k].kind = "live"
                                                    /\ row'[k].acked = row[k].acked
    BY Zenon, <2>1 DEF NoRow, Inv, TypeOK
  <2> QED
    BY Zenon, <2>1, <2>2, Quiet
<1>22. ASSUME Restart PROVE Counts'
  BY Zenon, <1>22 DEF Restart, Counts, AwaitedSettled, ArrivedSettled, UnstoredUntouched
<1>23. CASE UNCHANGED vars
  <2>1. UNCHANGED <<ackVars, claims, row, reqPc, runPc>>
    BY Zenon, <1>23 DEF vars
  <2> QED
    BY Zenon, <2>1, Quiet
<1> QED
  BY Zenon, <1>1, <1>2, <1>3, <1>4, <1>5, <1>6, <1>7, <1>8, <1>9, <1>10, <1>11, <1>12, <1>13, <1>14, <1>15, <1>16, <1>17, <1>18, <1>19, <1>20, <1>21, <1>22, <1>23
     DEF Next, RequestStep, RunStep, UserStep

\* An ACK that was heard for a code the server registered is counted on the row,
\* or its increment is on its way, whichever of the two came first.
THEOREM AcksCounted == Spec => []AckCounted
<1>1. Init => NoMissedMatch /\ StoredFirst /\ Counts
  <2>1. Init => Counts /\ NoMissedMatch
    BY Zenon, SMTT(30) DEF Init, Counts, AwaitedSettled, ArrivedSettled, UnstoredUntouched, NoMissedMatch
  <2>2. Init => StoredFirst
    BY SMTT(30), TargetType DEF Init, StoredFirst, NoRow, Requests
  <2> QED
    BY Zenon, <2>1, <2>2
<1>2. NoMissedMatch /\ Counts => AckCounted
  BY Zenon DEF NoMissedMatch, Counts, AwaitedSettled, ArrivedSettled, Settled, AckCounted
<1> QED
  BY InitInv, NextInv, NextMatch, NextStored, NextCounts, <1>1, <1>2, PTL DEF Spec

-----------------------------------------------------------------------------
(* A message that is shown as on its way is being worked on.                 *)

WorkedOn(m) == Unsettled(m) => m \in stranded \/ Working(m)

\* A request that has not ended, or whose run has not.
Busy(r) == InFlight(r) \/ reqPc[r] = "inc" \/ runPc[r] \in Running

\* A cancel or delete of m that is still to write the row.
Stops(u, m) == user[u].msg = m /\ user[u].pc \in {"mark", "delete"}

LEMMA WorkingIs ==
  ASSUME NEW m
  PROVE  Working(m) <=> \/ \E r \in Requests : Target(r) = m /\ Busy(r)
                        \/ \E u \in Users : Stops(u, m)
                        \/ claims[m] > 0
<1>1. "inc" \in Running
  BY Zenon DEF Running, RunPcs
<1> QED BY Zenon, <1>1 DEF Working, Counting, Busy, Stops

\* A step leaves a message worked on if it ends nothing that was going on for it.
LEMMA WorkKept ==
  ASSUME NEW m \in Msgs, WorkedOn(m), Unsettled(m)' => Unsettled(m),
         m \in stranded => m \in stranded', claims[m] > 0 => claims'[m] > 0,
         \A r \in Requests : Target(r) = m /\ Busy(r) => Busy(r)',
         \A u \in Users : Stops(u, m) => Stops(u, m)'
  PROVE  WorkedOn(m)'
<1>1. Working(m)' <=> \/ \E r \in Requests : Target(r) = m /\ Busy(r)'
                      \/ \E u \in Users : Stops(u, m)'
                      \/ claims'[m] > 0
  <2>1. ("inc" \in Running)'
    BY Zenon DEF Running, RunPcs
  <2> QED BY Zenon, <2>1 DEF Working, Counting, Busy, Stops, Target
<1> QED BY Zenon, <1>1, WorkingIs DEF WorkedOn

\* A step for message t leaves the others worked on.
LEMMA OthersKept ==
  ASSUME SendingIsWorkedOn, NEW t,
         \A m \in Msgs \ {t} : /\ row'[m] = row[m] /\ claims'[m] = claims[m]
                               /\ m \in stranded => m \in stranded'
                               /\ \A u \in Users : Stops(u, m) => Stops(u, m)',
         \A r \in Requests : Target(r) # t => reqPc'[r] = reqPc[r] /\ runPc'[r] = runPc[r]
  PROVE  \A m \in Msgs \ {t} : WorkedOn(m)'
<1> SUFFICES ASSUME NEW m \in Msgs \ {t} PROVE WorkedOn(m)'
  BY Zenon
<1>1. WorkedOn(m)
  BY Zenon DEF SendingIsWorkedOn, WorkedOn
<1>2. Unsettled(m)' => Unsettled(m)
  BY Zenon DEF Unsettled, Live
<1>3. \A r \in Requests : Target(r) = m /\ Busy(r) => Busy(r)'
  BY Zenon DEF Busy, InFlight
<1> QED BY Zenon, <1>1, <1>2, <1>3, WorkKept

\* A step that leaves the rows, claims and stops alone, and ends at most the requests
\* and runs of messages that are settled.
LEMMA QuietWork ==
  ASSUME SendingIsWorkedOn, UNCHANGED <<row, stranded, claims, user>>,
         \A r \in Requests : Busy(r) /\ Unsettled(Target(r)) => Busy(r)'
  PROVE  SendingIsWorkedOn'
<1>1. ASSUME NEW m \in Msgs PROVE WorkedOn(m)'
  <2>1. WorkedOn(m) /\ (Unsettled(m)' <=> Unsettled(m))
    BY Zenon DEF SendingIsWorkedOn, WorkedOn, Unsettled, Live
  <2>2. CASE Unsettled(m)
    <3>1. \A r \in Requests : Target(r) = m /\ Busy(r) => Busy(r)'
      BY Zenon, <2>2
    <3>2. \A u \in Users : Stops(u, m) => Stops(u, m)'
      BY Zenon DEF Stops
    <3> QED BY Zenon, <2>1, <3>1, <3>2, WorkKept
  <2>3. CASE ~Unsettled(m)
    BY Zenon, <2>1, <2>3 DEF WorkedOn
  <2> QED BY Zenon, <2>2, <2>3
<1> QED BY Zenon, <1>1 DEF SendingIsWorkedOn, WorkedOn

\* A step that settles t.
LEMMA Settles ==
  ASSUME SendingIsWorkedOn, NEW t, ~Unsettled(t)',
         \A m \in Msgs \ {t} : WorkedOn(m)'
  PROVE  SendingIsWorkedOn'
BY Zenon DEF SendingIsWorkedOn, WorkedOn

\* increment_ack_count settles its message.
LEMMA IncrementSettles ==
  ASSUME TypeOK, NEW t \in Msgs, row' = Incremented(t)
  PROVE  ~Unsettled(t)' /\ \A m \in Msgs \ {t} : row'[m] = row[m]
<1>1. row \in [Msgs -> Rows] /\ row[t].acked \in Nat
  <2>1. row \in [Msgs -> Rows] /\ row[t] \in Rows
    BY Zenon DEF TypeOK
  <2> QED BY Zenon, <2>1 DEF Rows
<1>2. row[t].acked + 1 # 0
  BY <1>1
<1>3. row'[t] = [row[t] EXCEPT !.acked = IF Live(t) THEN @ + 1 ELSE @]
  BY Zenon, <1>1 DEF Incremented
<1>4. row'[t].kind = row[t].kind /\ (Live(t) => row'[t].acked = row[t].acked + 1)
  <2>1. row[t] \in Rows
    BY Zenon, <1>1
  <2> QED BY Zenon, <1>3, <2>1 DEF Rows
<1>5. ~Unsettled(t)'
  BY Zenon, <1>2, <1>4 DEF Unsettled, Live
<1> QED BY Zenon, <1>1, <1>5 DEF Incremented

\* set_send_state changes the state of one row.
LEMMA StateRow ==
  ASSUME TypeOK, NEW t \in Msgs, NEW s
  PROVE  /\ \A m \in Msgs \ {t} : WithState(t, s)[m] = row[m]
         /\ WithState(t, s)[t].kind = "live" => WithState(t, s)[t].state = s
<1>1. row \in [Msgs -> Rows] /\ row[t] \in Rows
  BY Zenon DEF TypeOK
<1>2. \A m \in Msgs \ {t} : WithState(t, s)[m] = row[m]
  BY Zenon, <1>1 DEF WithState
<1>3. WithState(t, s)[t] = [row[t] EXCEPT !.state = IF Live(t) THEN s ELSE @]
  BY Zenon, <1>1 DEF WithState
<1>4. ASSUME WithState(t, s)[t].kind = "live" PROVE WithState(t, s)[t].state = s
  <2>1. row[t].kind = "live"
    BY Zenon, <1>1, <1>3, <1>4 DEF Rows
  <2>2. WithState(t, s)[t] = [row[t] EXCEPT !.state = s]
    BY Zenon, <1>3, <2>1 DEF Live
  <2> QED BY Zenon, <1>1, <2>2 DEF Rows
<1> QED BY Zenon, <1>2, <1>4

\* record_send_attempt and the write of a request change one row.
LEMMA OneRow ==
  ASSUME TypeOK, NEW t \in Msgs
  PROVE  /\ \A m \in Msgs \ {t} : Counted(t)[m] = row[m]
         /\ \A r \in Requests : \A m \in Msgs \ {t} : StoredRow(r, t)[m] = row[m]
<1>1. row \in [Msgs -> Rows] /\ row[t] \in Rows
  BY Zenon DEF TypeOK
<1>2. \A m \in Msgs \ {t} : Counted(t)[m] = row[m]
  BY Zenon, <1>1 DEF Counted
<1>3. \A r \in Requests : \A m \in Msgs \ {t} : StoredRow(r, t)[m] = row[m]
  BY Zenon, <1>1 DEF StoredRow
<1> QED BY Zenon, <1>2, <1>3

\* send_tracker.cancel and register end only runs of their message.
LEMMA OnlyItsRun ==
  ASSUME Inv, NEW m \in Msgs, CancelTask(m) \/ \E q \in Requests : Target(q) = m /\ Register(m, q)
  PROVE  \A r \in Requests : Target(r) # m => runPc'[r] = runPc[r]
<1>1. \A r \in Requests : r = tracker[m] => Target(r) = m
  BY Zenon, RequestsAssumption DEF Inv, TypeOK, TrackerTarget, Requests
<1>2. CASE CancelTask(m)
  BY Zenon, <1>1, <1>2 DEF CancelTask
<1>3. CASE \E q \in Requests : Target(q) = m /\ Register(m, q)
  <2>1. PICK q \in Requests : Target(q) = m /\ Register(m, q)
    BY Zenon, <1>3
  <2> QED BY Zenon, <1>1, <2>1 DEF Register
<1> QED BY Zenon, <1>2, <1>3

\* The row a request writes is settled, or the request goes on: its ACK is being counted
\* or its run has started.
LEMMA StoreWorks ==
  ASSUME Inv, SendingIsWorkedOn, NEW r \in Requests, ReqStore(r)
  PROVE  SendingIsWorkedOn'
<1> DEFINE t == Target(r)
<1>1. t \in Msgs /\ TypeOK /\ row' = StoredRow(r, t) /\ stranded' = stranded \ {t}
  BY Zenon, TargetType DEF ReqStore, Inv
<1>2. row \in [Msgs -> Rows] /\ row[t] \in Rows
  BY Zenon, <1>1 DEF TypeOK
<1>3. \A m \in Msgs \ {t} : row'[m] = row[m]
  BY Zenon, <1>1, OneRow
<1>4. /\ claims' = claims /\ user' = user /\ reqPc' \in [Requests -> ReqPcs]
      /\ reqPc'[r] \in {"inc", "done"} /\ \A q \in Requests \ {r} : reqPc'[q] = reqPc[q]
  <2>1. reqPc \in [Requests -> ReqPcs] /\ "inc" \in ReqPcs /\ "done" \in ReqPcs
    BY Zenon, <1>1 DEF TypeOK, ReqPcs
  <2>2. \E p \in {"inc", "done"} : reqPc' = [reqPc EXCEPT ![r] = p]
    BY Zenon DEF ReqStore
  <2> QED BY Zenon, <2>1, <2>2 DEF ReqStore
<1>5. \A q \in Requests : Target(q) # t => runPc'[q] = runPc[q]
  <2>1. UNCHANGED runPc \/ Register(t, r)
    BY Zenon DEF ReqStore
  <2> QED BY Zenon, <1>1, <2>1, OnlyItsRun
<1>6. \A m \in Msgs \ {t} : WorkedOn(m)'
  <2>1. \A q \in Requests : Target(q) # t => reqPc'[q] = reqPc[q] /\ runPc'[q] = runPc[q]
    BY Zenon, <1>4, <1>5
  <2>2. \A m \in Msgs \ {t} : /\ row'[m] = row[m] /\ claims'[m] = claims[m]
                              /\ m \in stranded => m \in stranded'
                              /\ \A u \in Users : Stops(u, m) => Stops(u, m)'
    BY Zenon, <1>1, <1>3, <1>4 DEF Stops
  <2> QED BY Zenon, <2>1, <2>2, OthersKept
<1>7. CASE cap[r] > 1 /\ reqPc[r] = "okCode"
  <2>1. reqPc'[r] = "inc" \/ runPc'[r] = "sleep"
    <3>1. reqPc \in [Requests -> ReqPcs] /\ cap[r] # 1
      BY <1>1, <1>7 DEF TypeOK
    <3> QED BY Zenon, <1>7, <3>1 DEF ReqStore, Register
  <2>2. Working(t)'
    BY Zenon, <2>1 DEF Working, Counting, Running, RunPcs, Target
  <2> QED BY Zenon, <1>6, <2>2 DEF SendingIsWorkedOn, WorkedOn
<1>8. CASE ~(cap[r] > 1 /\ reqPc[r] = "okCode")
  <2>1. row'[t].kind = "live" => row'[t].state = "sent"
    <3>1. CASE r \in Msgs
      <4>1. row' = [row EXCEPT ![t] = [kind |-> "live", state |-> "sent", attempts |-> 1,
                                       max |-> cap[r], acked |-> 0]]
        BY Zenon, <1>1, <1>8, <3>1 DEF StoredRow
      <4>2. row'[t] = [kind |-> "live", state |-> "sent", attempts |-> 1,
                       max |-> cap[r], acked |-> 0]
        BY Zenon, <1>1, <1>2, <4>1
      <4> QED BY <4>2
    <3>2. CASE r \notin Msgs /\ Live(t)
      <4>1. row' = [row EXCEPT ![t] =
                      [row[t] EXCEPT !.state = "sent", !.attempts = 1, !.max = cap[r]]]
        BY Zenon, <1>1, <1>8, <3>2 DEF StoredRow
      <4>2. row'[t] = [row[t] EXCEPT !.state = "sent", !.attempts = 1, !.max = cap[r]]
        BY Zenon, <1>1, <1>2, <4>1
      <4> QED BY Zenon, <1>2, <4>2 DEF Rows
    <3>3. CASE r \notin Msgs /\ ~Live(t)
      BY Zenon, <1>1, <3>3 DEF StoredRow, Live
    <3> QED BY Zenon, <3>1, <3>2, <3>3
  <2>2. ~Unsettled(t)'
    BY Zenon, <2>1 DEF Unsettled, Live
  <2> QED BY Zenon, <1>6, <2>2, Settles
<1> QED BY Zenon, <1>7, <1>8

\* A step that counts an ACK of t.
LEMMA CountWorks ==
  ASSUME Inv, SendingIsWorkedOn, NEW t \in Msgs, row' = Incremented(t),
         UNCHANGED <<stranded, user>>, \A m \in Msgs \ {t} : claims'[m] = claims[m],
         \A r \in Requests : Target(r) # t => reqPc'[r] = reqPc[r] /\ runPc'[r] = runPc[r]
  PROVE  SendingIsWorkedOn'
<1>1. ~Unsettled(t)' /\ \A m \in Msgs \ {t} : row'[m] = row[m]
  BY Zenon, IncrementSettles DEF Inv
<1>2. \A m \in Msgs : \A u \in Users : Stops(u, m) => Stops(u, m)'
  BY Zenon DEF Stops
<1>3. \A m \in Msgs \ {t} : WorkedOn(m)'
  BY Zenon, <1>1, <1>2, OthersKept
<1> QED BY Zenon, <1>1, <1>3, Settles

\* A retry, cancel or delete that supersedes the run of t takes its place.
LEMMA StopWorks ==
  ASSUME Inv, SendingIsWorkedOn, NEW t \in Msgs, CancelTask(t),
         UNCHANGED <<row, stranded, claims>>, Working(t)',
         \A m \in Msgs \ {t} : \A u \in Users : Stops(u, m) => Stops(u, m)',
         \A r \in Requests : Target(r) # t => reqPc'[r] = reqPc[r]
  PROVE  SendingIsWorkedOn'
<1>1. \A r \in Requests : Target(r) # t => runPc'[r] = runPc[r]
  BY Zenon, OnlyItsRun
<1>2. \A m \in Msgs \ {t} : WorkedOn(m)'
  BY Zenon, <1>1, OthersKept
<1> QED BY Zenon, <1>2 DEF SendingIsWorkedOn, WorkedOn

LEMMA NextWorked == Inv /\ SendingIsWorkedOn /\ [Next]_vars => SendingIsWorkedOn'
<1> SUFFICES ASSUME Inv, SendingIsWorkedOn, [Next]_vars PROVE SendingIsWorkedOn'
  BY Zenon
<1>0. /\ reqPc \in [Requests -> ReqPcs] /\ runPc \in [Requests -> RunPcs] /\ TypeOK
      /\ claims \in [Msgs -> Nat] /\ \A r \in Requests : Target(r) \in Msgs
  BY Zenon, TargetType DEF Inv, TypeOK
<1> USE DEF InFlight, Air, Running, RunPcs
<1>1. ASSUME NEW m \in Msgs, StartSend(m) PROVE SendingIsWorkedOn'
  <2>1. \A r \in Requests : Busy(r) => Busy(r)'
    BY Zenon, <1>0, <1>1 DEF StartSend, Busy, Requests
  <2> QED BY Zenon, <1>1, <2>1, QuietWork DEF StartSend
<1>2. ASSUME NEW m \in Msgs, AckIncrement(m) PROVE SendingIsWorkedOn'
  <2>1. \A k \in Msgs \ {m} : claims'[k] = claims[k]
    BY Zenon, <1>0, <1>2 DEF AckIncrement
  <2> QED BY Zenon, <1>2, <2>1, CountWorks DEF AckIncrement
<1>3. ASSUME NEW r \in Retries, StartRetry(r) PROVE SendingIsWorkedOn'
  <2>1. r \in Requests /\ Target(r) \in Msgs
    BY Zenon, <1>0 DEF Requests
  <2>2. reqPc'[r] = "lock" /\ \A q \in Requests \ {r} : reqPc'[q] = reqPc[q]
    BY Zenon, <1>0, <1>3, <2>1 DEF StartRetry
  <2>3. Working(Target(r))'
    BY Zenon, <2>1, <2>2 DEF Working, Target
  <2>4. \A m \in Msgs : \A u \in Users : Stops(u, m) => Stops(u, m)'
    BY Zenon, <1>3 DEF StartRetry, Stops
  <2> QED BY Zenon, <1>3, <2>1, <2>2, <2>3, <2>4, StopWorks DEF StartRetry
<1>4. ASSUME NEW r \in Requests, ReqTransmit(r) PROVE SendingIsWorkedOn'
  <2>1. \A q \in Requests : Busy(q) => Busy(q)'
    BY Zenon, <1>0, <1>4 DEF ReqTransmit, Busy
  <2> QED BY Zenon, <1>4, <2>1, QuietWork DEF ReqTransmit
<1>5. ASSUME NEW r \in Requests, ReqAnswered(r) PROVE SendingIsWorkedOn'
  <2>1. CASE reqPc[r] # "airFail"
    <3>1. \A q \in Requests : Busy(q) => Busy(q)'
      BY Zenon, <1>0, <1>5, <2>1 DEF ReqAnswered, Busy
    <3> QED BY Zenon, <1>5, <2>1, <3>1, QuietWork DEF ReqAnswered
  <2>2. CASE reqPc[r] = "airFail"
    <3> DEFINE t == Target(r)
    <3>1. \A q \in Requests \ {r} : reqPc'[q] = reqPc[q] /\ runPc'[q] = runPc[q]
      BY Zenon, <1>0, <1>5 DEF ReqAnswered
    <3>2. /\ stranded' = IF Unsettled(t) THEN stranded \cup {t} ELSE stranded
          /\ UNCHANGED <<row, claims, user>>
      BY Zenon, <1>5, <2>2 DEF ReqAnswered
    <3>3. \A m \in Msgs \ {t} : WorkedOn(m)'
      BY Zenon, <3>1, <3>2, OthersKept DEF Stops
    <3>4. WorkedOn(t)'
      BY Zenon, <3>2 DEF WorkedOn, Unsettled, Live
    <3> QED BY Zenon, <3>3, <3>4 DEF SendingIsWorkedOn, WorkedOn
  <2> QED BY Zenon, <2>1, <2>2
<1>6. ASSUME NEW r \in Requests, ReqStore(r) PROVE SendingIsWorkedOn'
  BY Zenon, <1>6, StoreWorks
<1>7. ASSUME NEW r \in Requests, ReqIncrement(r) PROVE SendingIsWorkedOn'
  <2>1. \A q \in Requests \ {r} : reqPc'[q] = reqPc[q] /\ runPc'[q] = runPc[q]
    BY Zenon, <1>0, <1>7 DEF ReqIncrement
  <2> QED BY Zenon, <1>0, <1>7, <2>1, CountWorks DEF ReqIncrement
<1>8. ASSUME NEW r \in Requests, RunWake(r) PROVE SendingIsWorkedOn'
  <2>1. Unsettled(Target(r)) => ~IsAcked(Target(r))
    BY SMT DEF Unsettled, IsAcked
  <2>2. \A q \in Requests : Busy(q) /\ Unsettled(Target(q)) => Busy(q)'
    BY Zenon, <1>0, <1>8, <2>1 DEF RunWake, GoTo, Busy
  <2> QED BY Zenon, <1>8, <2>2, QuietWork DEF RunWake
<1>9. ASSUME NEW r \in Requests, RunTransmit(r) PROVE SendingIsWorkedOn'
  <2>1. \A q \in Requests : Busy(q) => Busy(q)'
    BY Zenon, <1>0, <1>9 DEF RunTransmit, GoTo, Busy
  <2> QED BY Zenon, <1>9, <2>1, QuietWork DEF RunTransmit
<1>10. ASSUME NEW r \in Requests, RunAnswered(r) PROVE SendingIsWorkedOn'
  <2> DEFINE t == Target(r)
  <2>1. \A q \in Requests \ {r} : reqPc'[q] = reqPc[q] /\ runPc'[q] = runPc[q]
    BY Zenon, <1>0, <1>10 DEF RunAnswered, GoTo, Advance
  <2>2. \A m \in Msgs \ {t} : row'[m] = row[m]
    <3>1. t \in Msgs /\ (row' = row \/ row' = Counted(t))
      BY Zenon, <1>0, <1>10 DEF RunAnswered
    <3>2. \A m \in Msgs \ {t} : Counted(t)[m] = row[m]
      BY Zenon, <1>0, <3>1, OneRow
    <3> QED BY Zenon, <3>1, <3>2
  <2>3. \A m \in Msgs \ {t} : WorkedOn(m)'
    BY Zenon, <1>10, <2>1, <2>2, OthersKept DEF RunAnswered, Stops
  <2>4. runPc'[r] \in Running
    BY Zenon, <1>0, <1>10 DEF RunAnswered, GoTo, Advance
  <2>5. Working(t)'
    BY Zenon, <2>4 DEF Working, Target
  <2> QED BY Zenon, <2>3, <2>5 DEF SendingIsWorkedOn, WorkedOn
<1>11. ASSUME NEW r \in Requests, RunRecheck(r) PROVE SendingIsWorkedOn'
  <2>1. Unsettled(Target(r)) => ~IsAcked(Target(r))
    BY SMT DEF Unsettled, IsAcked
  <2>2. \A q \in Requests : Busy(q) /\ Unsettled(Target(q)) => Busy(q)'
    BY Zenon, <1>0, <1>11, <2>1 DEF RunRecheck, GoTo, Advance, Busy
  <2> QED BY Zenon, <1>11, <2>2, QuietWork DEF RunRecheck
<1>12. ASSUME NEW r \in Requests, RunTrack(r) PROVE SendingIsWorkedOn'
  <2>1. \A q \in Requests : Busy(q) => Busy(q)'
    BY Zenon, <1>0, <1>12 DEF RunTrack, GoTo, Advance, Busy
  <2> QED BY Zenon, <1>12, <2>1, QuietWork DEF RunTrack
<1>13. ASSUME NEW r \in Requests, RunIncrement(r) PROVE SendingIsWorkedOn'
  <2>1. \A q \in Requests \ {r} : reqPc'[q] = reqPc[q] /\ runPc'[q] = runPc[q]
    BY Zenon, <1>0, <1>13 DEF RunIncrement, GoTo
  <2> QED BY Zenon, <1>0, <1>13, <2>1, CountWorks DEF RunIncrement
<1>14. ASSUME NEW r \in Requests, RunFinal(r) PROVE SendingIsWorkedOn'
  <2>1. Unsettled(Target(r)) => ~IsAcked(Target(r))
    BY SMT DEF Unsettled, IsAcked
  <2>2. \A q \in Requests : Busy(q) /\ Unsettled(Target(q)) => Busy(q)'
    BY Zenon, <1>0, <1>14, <2>1 DEF RunFinal, GoTo, Busy
  <2> QED BY Zenon, <1>14, <2>2, QuietWork DEF RunFinal
<1>15. ASSUME NEW r \in Requests, RunFinish(r) PROVE SendingIsWorkedOn'
  <2> DEFINE t == Target(r)
  <2>1. \A q \in Requests \ {r} : reqPc'[q] = reqPc[q] /\ runPc'[q] = runPc[q]
    BY Zenon, <1>0, <1>15 DEF RunFinish, GoTo
  <2>2. /\ \A m \in Msgs \ {t} : row'[m] = row[m]
        /\ row'[t].kind = "live" => row'[t].state = "failed"
    <3>1. t \in Msgs /\ row' = WithState(t, "failed")
      BY Zenon, <1>0, <1>15 DEF RunFinish
    <3>2. /\ \A m \in Msgs \ {t} : WithState(t, "failed")[m] = row[m]
          /\ WithState(t, "failed")[t].kind = "live" => WithState(t, "failed")[t].state = "failed"
      BY Zenon, <1>0, <3>1, StateRow
    <3> QED BY Zenon, <3>1, <3>2
  <2>3. \A m \in Msgs \ {t} : WorkedOn(m)'
    BY Zenon, <1>15, <2>1, <2>2, OthersKept DEF RunFinish, Stops
  <2>4. ~Unsettled(t)'
    BY Zenon, <2>2 DEF Unsettled, Live
  <2> QED BY Zenon, <2>3, <2>4, Settles
<1>16. ASSUME NEW r \in Requests, Deregister(r) PROVE SendingIsWorkedOn'
  <2>1. \A q \in Requests : Busy(q) => Busy(q)'
    BY Zenon, <1>16 DEF Deregister, Busy
  <2> QED BY Zenon, <1>16, <2>1, QuietWork DEF Deregister
<1>17. ASSUME NEW c \in Codes, HearAck(c) PROVE SendingIsWorkedOn'
  <2>1. UNCHANGED <<row, stranded, user, reqPc, runPc>>
    BY Zenon, <1>17 DEF HearAck
  <2>2. \A m \in Msgs : claims[m] > 0 => claims'[m] > 0
    <3>1. UNCHANGED claims \/ claims' = [claims EXCEPT ![c[1]] = @ + 1]
      BY Zenon, <1>17 DEF HearAck
    <3> QED BY <1>0, <3>1
  <2>3. ASSUME NEW m \in Msgs PROVE WorkedOn(m)'
    <3>1. WorkedOn(m) /\ (Unsettled(m)' => Unsettled(m))
      BY Zenon, <2>1 DEF SendingIsWorkedOn, WorkedOn, Unsettled, Live
    <3>2. \A q \in Requests : Busy(q) => Busy(q)'
      BY Zenon, <2>1 DEF Busy
    <3>3. \A u \in Users : Stops(u, m) => Stops(u, m)'
      BY Zenon, <2>1 DEF Stops
    <3> QED BY Zenon, <2>1, <2>2, <3>1, <3>2, <3>3, WorkKept
  <2> QED BY Zenon, <2>3 DEF SendingIsWorkedOn, WorkedOn
<1>18. ASSUME PeriodicCleanup PROVE SendingIsWorkedOn'
  <2>1. \A q \in Requests : Busy(q) => Busy(q)'
    BY Zenon, <1>18 DEF PeriodicCleanup, Busy
  <2> QED BY Zenon, <1>18, <2>1, QuietWork DEF PeriodicCleanup
<1>19. ASSUME NEW u \in Users, NEW m \in Msgs, NEW kind \in {"cancel", "delete"}, UserStop(u, m, kind)
       PROVE  SendingIsWorkedOn'
  <2>1. /\ user'[u].pc = "mark" /\ user'[u].msg = m
        /\ \A v \in Users \ {u} : user'[v] = user[v]
        /\ user[u].pc = "idle"
    <3>1. user' = [user EXCEPT ![u] = [pc |-> "mark", kind |-> kind, msg |-> m]] /\ user[u].pc = "idle"
      BY Zenon, <1>19 DEF UserStop
    <3>2. DOMAIN user = Users
      BY Zenon, <1>0 DEF TypeOK
    <3>3. user'[u] = [pc |-> "mark", kind |-> kind, msg |-> m] /\ \A v \in Users \ {u} : user'[v] = user[v]
      BY Zenon, <3>1, <3>2
    <3> QED BY <3>1, <3>3
  <2>2. Working(m)'
    BY Zenon, <2>1 DEF Working
  <2>3. \A n \in Msgs \ {m} : \A v \in Users : Stops(v, n) => Stops(v, n)'
    BY Zenon, <2>1 DEF Stops
  <2> QED BY Zenon, <1>19, <2>2, <2>3, StopWorks DEF UserStop
<1>20. ASSUME NEW u \in Users, UserMark(u) PROVE SendingIsWorkedOn'
  <2>1. PICK t \in Msgs : t = user[u].msg
    BY Zenon, <1>20 DEF UserMark, Inv, UserTarget
  <2>2. /\ \A m \in Msgs \ {t} : row'[m] = row[m]
        /\ row'[t].kind = "live" => row'[t].state = "canceled"
    <3>1. row' = WithState(t, "canceled")
      BY Zenon, <1>20, <2>1 DEF UserMark
    <3>2. /\ \A m \in Msgs \ {t} : WithState(t, "canceled")[m] = row[m]
          /\ WithState(t, "canceled")[t].kind = "live" =>
               WithState(t, "canceled")[t].state = "canceled"
      BY Zenon, <1>0, <2>1, StateRow
    <3> QED BY Zenon, <3>1, <3>2
  <2>3. \A m \in Msgs \ {t} : \A v \in Users : Stops(v, m) => Stops(v, m)'
    <3>1. \A v \in Users \ {u} : user'[v] = user[v]
      BY Zenon, <1>0, <1>20 DEF UserMark, TypeOK
    <3> QED BY Zenon, <2>1, <3>1 DEF Stops
  <2>4. \A m \in Msgs \ {t} : WorkedOn(m)'
    BY Zenon, <1>20, <2>1, <2>2, <2>3, OthersKept DEF UserMark
  <2>5. ~Unsettled(t)'
    BY Zenon, <2>2 DEF Unsettled, Live
  <2> QED BY Zenon, <2>4, <2>5, Settles
<1>21. ASSUME NEW u \in Users, UserDelete(u) PROVE SendingIsWorkedOn'
  <2>1. PICK t \in Msgs : t = user[u].msg
    BY Zenon, <1>21 DEF UserDelete, Inv, UserTarget
  <2>2. /\ \A m \in Msgs \ {t} : row'[m] = row[m]
        /\ row'[t] = [NoRow EXCEPT !.kind = "deleted"]
    BY Zenon, <1>0, <1>21, <2>1 DEF UserDelete, TypeOK
  <2>3. \A m \in Msgs \ {t} : \A v \in Users : Stops(v, m) => Stops(v, m)'
    <3>1. \A v \in Users \ {u} : user'[v] = user[v]
      BY Zenon, <1>0, <1>21 DEF UserDelete, TypeOK
    <3> QED BY Zenon, <2>1, <3>1 DEF Stops
  <2>4. \A m \in Msgs \ {t} : WorkedOn(m)'
    BY Zenon, <1>21, <2>2, <2>3, OthersKept DEF UserDelete
  <2>5. row'[t].kind = "deleted"
    BY <2>2 DEF NoRow
  <2>6. ~Unsettled(t)'
    BY Zenon, <2>5 DEF Unsettled, Live
  <2> QED BY Zenon, <2>4, <2>6, Settles
<1>22. ASSUME Restart PROVE SendingIsWorkedOn'
  <2>1. \A m \in Msgs : Unsettled(m)' => Unsettled(m)
    BY Zenon, <1>22 DEF Restart, Unsettled, Live
  <2> QED BY Zenon, <1>22, <2>1 DEF Restart, SendingIsWorkedOn
<1>23. CASE UNCHANGED vars
  <2>1. \A q \in Requests : Busy(q) => Busy(q)'
    BY Zenon, <1>23 DEF vars, Busy
  <2> QED BY Zenon, <1>23, <2>1, QuietWork DEF vars
<1> QED
  BY ZenonT(30), <1>1, <1>2, <1>3, <1>4, <1>5, <1>6, <1>7, <1>8, <1>9, <1>10, <1>11, <1>12, <1>13, <1>14, <1>15, <1>16, <1>17, <1>18, <1>19, <1>20, <1>21, <1>22, <1>23
     DEF Next, RequestStep, RunStep, UserStep

\* A row that the app shows as sending and without ACK has somebody at work on it, a
\* request, a run, a cancel, a delete or the counting of an ACK, in every interleaving of
\* any number of them: only a failed manual retry and a restart strand it.
THEOREM SendingHasAWorker == Spec => []SendingIsWorkedOn
<1>1. Init => SendingIsWorkedOn
  BY SMT DEF Init, SendingIsWorkedOn, Unsettled, Live, NoRow
<1> QED BY InitInv, NextInv, NextWorked, <1>1, PTL DEF Spec
==============================================================================
