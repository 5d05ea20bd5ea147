-------------------------- MODULE RxWatchdogProofs --------------------------
(***************************************************************************)
(* What the watchdog's ladder keeps to for every timeout and cooldown and  *)
(* any number of faults.                                                   *)
(***************************************************************************)
EXTENDS RxWatchdog, TLAPS

USE DEF linkVars, dogVars, ladderVars

\* Ages grow no further than their cap.
LEMMA OlderType ==
  ASSUME NEW most \in Nat \ {0}, NEW age \in Ages(most)
  PROVE  Older(age, most) \in Ages(most)
BY WatchdogAssumption DEF Older, Cap, Ages

-----------------------------------------------------------------------------
(* Types: flags apart from numbers.                                        *)

Flags ==
  /\ link \in {"up", "lost", "down", "setup"} /\ stalled \in BOOLEAN
  /\ incident \in BOOLEAN /\ heard \in BOOLEAN /\ tried \in BOOLEAN
  /\ pc \in {"sleep", "tick", "probe", "close", "dial", "prepare", "reboot", "drop"}

Clocks ==
  /\ lastRx \in Ages(Timeout) /\ base \in Ages(Timeout)
  /\ rebootAge \in Ages(Cooldown) /\ rested \in Ages(Cooldown)
  /\ probe \in [age: 0..Timeout, counted: BOOLEAN] \cup {None}
  /\ level \in 0..2 /\ gap \in {-1, 0, 1}
  /\ quiet \in 0..Timeout /\ faults \in 0..MaxFaults

LEMMA FlagsNext == Flags /\ [Next]_vars => Flags'
<1> SUFFICES ASSUME Flags, [Next]_vars PROVE Flags'
  OBVIOUS
<1> USE DEF Flags
<1>1. CASE CheckDisconnected
  BY Zenon, <1>1 DEF CheckDisconnected, Tick, Reset
<1>2. CASE CheckFlowing \/ CheckTooEarly \/ ReconnectPrepares \/ ReconnectFails \/ ReconnectReturns
  BY Zenon, <1>2 DEF CheckFlowing, CheckTooEarly, ReconnectPrepares, ReconnectFails,
     ReconnectReturns, TornDown
<1>3. CASE CheckResumed
  BY Zenon, <1>3 DEF CheckResumed, Reset
<1>4. CASE CheckProbes
  BY Zenon, <1>4 DEF CheckProbes
<1>5. CASE ProbeFails
  BY Zenon, <1>5 DEF ProbeFails, Fault
<1>6. CASE ProbeUncounted
  BY Zenon, <1>6 DEF ProbeUncounted, Fault, NewSample
<1>7. CASE ProbeCalm
  BY Zenon, <1>7 DEF ProbeCalm, NewSample
<1>8. CASE EscalateReconnect
  BY Zenon, <1>8 DEF EscalateReconnect
<1>9. CASE EscalateReboot
  BY Zenon, <1>9 DEF EscalateReboot
<1>10. CASE ReconnectCloses \/ RebootCloses
  BY Zenon, <1>10 DEF ReconnectCloses, RebootCloses, Close, TornDown, Fault
<1>11. CASE RebootSent
  BY Zenon, <1>11 DEF RebootSent, Fault
<1>12. CASE Lose \/ Regain \/ Stall
  BY Zenon, <1>12 DEF Lose, Regain, Stall, Fault
<1>13. CASE Teardown
  BY Zenon, <1>13 DEF Teardown, TornDown
<1>14. CASE SetupStarts \/ SetupEnds
  BY Zenon, <1>14 DEF SetupStarts, SetupEnds
<1>15. CASE Restart
  BY Zenon, <1>15 DEF Restart, Fault
<1>16. CASE Hear
  BY Zenon, <1>16 DEF Hear
<1>17. CASE Pass
  BY Zenon, <1>17 DEF Pass
<1>18. CASE UNCHANGED vars
  BY Zenon, <1>18 DEF vars
<1> QED BY Zenon, <1>1, <1>2, <1>3, <1>4, <1>5, <1>6, <1>7, <1>8, <1>9, <1>10, <1>11, <1>12,
           <1>13, <1>14, <1>15, <1>16, <1>17, <1>18
        DEF Next, Dog, Check, World

LEMMA ClocksNext == Clocks /\ [Next]_vars => Clocks'
<1> SUFFICES ASSUME Clocks, [Next]_vars PROVE Clocks'
  OBVIOUS
<1> USE WatchdogAssumption DEF Clocks
<1>1. CASE CheckDisconnected
  BY <1>1 DEF CheckDisconnected, Tick, Reset, Ages
<1>2. CASE CheckFlowing \/ CheckTooEarly \/ ReconnectPrepares \/ ReconnectFails \/ ReconnectReturns
  BY <1>2 DEF CheckFlowing, CheckTooEarly, ReconnectPrepares, ReconnectFails, ReconnectReturns,
     TornDown, Ages
<1>3. CASE CheckResumed
  BY <1>3 DEF CheckResumed, Reset, Ages
<1>4. CASE CheckProbes
  BY <1>4 DEF CheckProbes, Ages
<1>5. CASE ProbeFails
  BY <1>5 DEF ProbeFails, Fault, Ages
<1>6. CASE ProbeUncounted
  BY <1>6 DEF ProbeUncounted, Fault, NewSample, Ages
<1>7. CASE ProbeCalm
  BY <1>7 DEF ProbeCalm, NewSample, Ages
<1>8. CASE EscalateReconnect
  BY <1>8 DEF EscalateReconnect, Ages
<1>9. CASE EscalateReboot
  BY <1>9 DEF EscalateReboot, Ages
<1>10. CASE ReconnectCloses \/ RebootCloses
  BY <1>10 DEF ReconnectCloses, RebootCloses, Close, TornDown, Fault, Ages
<1>11. CASE RebootSent
  BY <1>11 DEF RebootSent, Fault, Ages
<1>12. CASE Lose \/ Regain \/ Stall
  BY <1>12 DEF Lose, Regain, Stall, Fault, Ages
<1>13. CASE Teardown
  BY <1>13 DEF Teardown, TornDown, Ages
<1>14. CASE SetupStarts \/ SetupEnds
  BY <1>14 DEF SetupStarts, SetupEnds, Ages
<1>15. CASE Restart
  BY <1>15 DEF Restart, Fault, Ages
<1>16. CASE Hear
  BY <1>16 DEF Hear, Ages
<1>17. CASE Pass
  <2>1. lastRx' \in Ages(Timeout) /\ base' \in Ages(Timeout)
        /\ rebootAge' \in Ages(Cooldown) /\ rested' \in Ages(Cooldown)
    BY <1>17, OlderType DEF Pass
  <2>2. probe' \in [age: 0..Timeout, counted: BOOLEAN] \cup {None}
    BY <1>17 DEF Pass, Cap
  <2>3. quiet' \in 0..Timeout
    BY <1>17 DEF Pass, Cap
  <2> QED BY <1>17, <2>1, <2>2, <2>3 DEF Pass
<1>18. CASE UNCHANGED vars
  BY <1>18 DEF vars
<1> QED BY Zenon, <1>1, <1>2, <1>3, <1>4, <1>5, <1>6, <1>7, <1>8, <1>9, <1>10, <1>11, <1>12,
           <1>13, <1>14, <1>15, <1>16, <1>17, <1>18
        DEF Next, Dog, Check, World

\* The watchdog's state stays in its types: the rung in 0..2, ages within their caps.
THEOREM WatchdogTypes == Spec => []TypeOK
<1>1. Init => Flags
  BY Zenon DEF Init, Flags
<1>2. Init => Clocks
  BY WatchdogAssumption DEF Init, Clocks, Ages
<1>3. Flags /\ Clocks => TypeOK
  BY Zenon DEF Flags, Clocks, TypeOK
<1> QED BY <1>1, <1>2, <1>3, FlagsNext, ClocksNext, PTL DEF Spec

-----------------------------------------------------------------------------
(* The ladder.                                                             *)

\* A rung above the first belongs to an open incident in which the watchdog has
\* reconnected; a probe is only sent in an open incident.
Ladder ==
  /\ level # 0 => incident /\ tried
  /\ pc = "probe" => incident
  /\ ReconnectFirst

\* The age of the last reboot survives every reset.
RebootRemembered == rested = rebootAge

\* The count is only ahead of the sample when a packet was heard since.
CountedWasHeard == gap > 0 => heard

LEMMA LadderNext == TypeOK /\ Ladder /\ [Next]_vars => Ladder'
<1> SUFFICES ASSUME TypeOK, Ladder, [Next]_vars PROVE Ladder'
  OBVIOUS
<1> USE DEF Ladder, ReconnectFirst
<1>1. CASE Check
  BY <1>1 DEF Check, CheckDisconnected, CheckFlowing, CheckResumed, CheckTooEarly, CheckProbes,
     Tick, Reset, TypeOK
<1>2. CASE ProbeFails \/ ProbeUncounted \/ ProbeCalm
  BY <1>2 DEF ProbeFails, ProbeUncounted, ProbeCalm
<1>3. CASE EscalateReconnect
  BY <1>3 DEF EscalateReconnect, Answered
<1>4. CASE EscalateReboot
  BY <1>4 DEF EscalateReboot, Answered
<1>5. CASE \/ ReconnectCloses \/ ReconnectPrepares \/ ReconnectFails \/ ReconnectReturns
           \/ RebootSent \/ RebootCloses
  BY <1>5 DEF ReconnectCloses, ReconnectPrepares, ReconnectFails, ReconnectReturns, RebootSent,
     RebootCloses, Close
<1>6. CASE World
  BY <1>6 DEF World, Lose, Regain, Teardown, SetupStarts, SetupEnds, Stall, Restart, Hear
<1>7. CASE Pass
  BY <1>7 DEF Pass
<1>8. CASE UNCHANGED vars
  BY <1>8 DEF vars
<1> QED BY <1>1, <1>2, <1>3, <1>4, <1>5, <1>6, <1>7, <1>8 DEF Next, Dog

LEMMA RebootRememberedNext == RebootRemembered /\ [Next]_vars => RebootRemembered'
<1> SUFFICES ASSUME RebootRemembered, [Next]_vars PROVE RebootRemembered'
  OBVIOUS
<1> USE DEF RebootRemembered
<1>1. CASE Check
  BY <1>1 DEF Check, CheckDisconnected, CheckFlowing, CheckResumed, CheckTooEarly, CheckProbes, Reset
<1>2. CASE ProbeFails \/ ProbeUncounted \/ ProbeCalm
  BY <1>2 DEF ProbeFails, ProbeUncounted, ProbeCalm
<1>3. CASE EscalateReconnect \/ EscalateReboot
  BY <1>3 DEF EscalateReconnect, EscalateReboot
<1>5. CASE \/ ReconnectCloses \/ ReconnectPrepares \/ ReconnectFails \/ ReconnectReturns
           \/ RebootSent \/ RebootCloses
  BY <1>5 DEF ReconnectCloses, ReconnectPrepares, ReconnectFails, ReconnectReturns, RebootSent,
     RebootCloses, Close
<1>6. CASE World
  BY <1>6 DEF World, Lose, Regain, Teardown, SetupStarts, SetupEnds, Stall, Restart, Hear
<1>7. CASE Pass
  BY <1>7 DEF Pass
<1>8. CASE UNCHANGED vars
  BY <1>8 DEF vars
<1> QED BY <1>1, <1>2, <1>3, <1>5, <1>6, <1>7, <1>8 DEF Next, Dog

LEMMA CountedWasHeardNext == CountedWasHeard /\ [Next]_vars => CountedWasHeard'
<1> SUFFICES ASSUME CountedWasHeard, [Next]_vars PROVE CountedWasHeard'
  OBVIOUS
<1> USE DEF CountedWasHeard
<1>1. CASE Check
  BY <1>1 DEF Check, CheckDisconnected, CheckFlowing, CheckResumed, CheckTooEarly, CheckProbes, Reset
<1>2. CASE ProbeFails \/ ProbeUncounted \/ ProbeCalm
  BY <1>2 DEF ProbeFails, ProbeUncounted, ProbeCalm
<1>3. CASE EscalateReconnect \/ EscalateReboot
  BY <1>3 DEF EscalateReconnect, EscalateReboot
<1>5. CASE \/ ReconnectCloses \/ ReconnectPrepares \/ ReconnectFails \/ ReconnectReturns
           \/ RebootSent \/ RebootCloses
  BY <1>5 DEF ReconnectCloses, ReconnectPrepares, ReconnectFails, ReconnectReturns, RebootSent,
     RebootCloses, Close
<1>6. CASE Restart
  BY <1>6 DEF Restart
<1>7. CASE Hear
  BY <1>7 DEF Hear
<1>8. CASE Lose \/ Regain \/ Teardown \/ SetupStarts \/ SetupEnds \/ Stall \/ Pass
  BY <1>8 DEF Lose, Regain, Teardown, SetupStarts, SetupEnds, Stall, Pass
<1>9. CASE UNCHANGED vars
  BY <1>9 DEF vars
<1> QED BY <1>1, <1>2, <1>3, <1>5, <1>6, <1>7, <1>8, <1>9 DEF Next, Dog, World

\* ReconnectFirst: whatever drops, failed probes and earlier incidents come in between,
\* the watchdog reboots only after it has reconnected in the same incident.
THEOREM RebootIsSecondRung == Spec => []ReconnectFirst
<1>1. Init => Ladder
  BY DEF Init, Ladder, ReconnectFirst
<1>2. Ladder => ReconnectFirst
  BY DEF Ladder
<1> QED BY <1>1, <1>2, LadderNext, WatchdogTypes, PTL DEF Spec

\* RebootsApart: resets of the ladder never shorten the time between two reboots, because
\* RxWatchdogState keeps last_reboot_at across them.
THEOREM RebootsAreApart == Spec => RebootsApart
<1>1. Init => RebootRemembered
  BY DEF Init, RebootRemembered
<1>2. TypeOK /\ RebootRemembered /\ [Next]_vars
      => [(pc = "probe" /\ pc' = "reboot") => rested \in {None, Cooldown}]_vars
  <2> SUFFICES ASSUME TypeOK, RebootRemembered, Next, pc = "probe", pc' = "reboot"
               PROVE  rested \in {None, Cooldown}
    OBVIOUS
  <2>1. EscalateReboot
    BY DEF Next, Dog, Check, CheckDisconnected, CheckFlowing, CheckResumed, CheckTooEarly,
       CheckProbes, Tick, ProbeFails, ProbeUncounted, ProbeCalm, EscalateReconnect,
       ReconnectCloses, ReconnectPrepares, ReconnectFails, ReconnectReturns, RebootSent,
       RebootCloses, Close, World, Lose, Regain,
       Teardown, SetupStarts, SetupEnds, Stall, Restart, Hear, Pass
  <2> QED BY <2>1, WatchdogAssumption DEF EscalateReboot, Cooling, RebootRemembered, TypeOK, Ages
<1> QED BY <1>1, <1>2, RebootRememberedNext, WatchdogTypes, PTL DEF Spec, RebootsApart

\* QuietMeshLeftAlone: the link is torn down only when the radio heard a packet since the
\* sample before, also across restarts of the radio, which set its count back.
THEOREM QuietMeshIsLeftAlone == Spec => QuietMeshLeftAlone
<1>1. Init => CountedWasHeard
  BY DEF Init, CountedWasHeard
<1>2. CountedWasHeard /\ [Next]_vars => [Escalates => heard]_vars
  <2> SUFFICES ASSUME CountedWasHeard, Next, Escalates PROVE heard
    OBVIOUS
  <2>1. EscalateReboot \/ EscalateReconnect
    BY DEF Escalates, Next, Dog, Check, CheckDisconnected, CheckFlowing, CheckResumed,
       CheckTooEarly, CheckProbes, Tick, ProbeFails, ProbeUncounted, ProbeCalm,
       ReconnectCloses, ReconnectPrepares, ReconnectFails, ReconnectReturns, RebootSent,
       RebootCloses, Close, World, Lose, Regain,
       Teardown, SetupStarts, SetupEnds, Stall, Restart, Hear, Pass
  <2> QED BY <2>1 DEF EscalateReboot, EscalateReconnect, Wedged, CountedWasHeard
<1> QED BY <1>1, <1>2, CountedWasHeardNext, PTL DEF Spec, QuietMeshLeftAlone
=============================================================================
