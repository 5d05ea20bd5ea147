---------------------------- MODULE RxWatchdog ----------------------------
(***************************************************************************)
(* The RX silence watchdog: check(), its probe and its escalation ladder   *)
(* (reconnect, then reboot), beside a link that drops and is set up again  *)
(* and a radio whose push of raw frames may stall.                         *)
(*                                                                         *)
(* One unit of time is CHECK_INTERVAL_SECONDS.  Timestamps are ages, which *)
(* stop growing where no comparison in the code tells them apart.          *)
(***************************************************************************)
EXTENDS Naturals, Integers

CONSTANTS
  Timeout,    \* rx_silence_timeout_seconds
  Cooldown,   \* REBOOT_COOLDOWN_SECONDS
  BusyMesh,   \* the radio hears a packet at least once per Timeout
  Faults,     \* which of "lose", "stall", "busy", "stats", "raise", "restart" happen
  MaxFaults,  \* bound: faults
  None

ASSUME WatchdogAssumption ==
  /\ Timeout \in Nat \ {0} /\ Cooldown \in Nat \ {0} /\ MaxFaults \in Nat
  /\ BusyMesh \in BOOLEAN
  /\ None \notin Nat

VARIABLES
  link,      \* "up": connected and set up; "lost": dropped; "down": torn down; "setup"
  stalled,   \* the radio hears packets and pushes none
  lastRx,    \* age of _last_rx_log_frame_at, or None
  base,      \* age of _rx_baseline_at, or None
  incident, level,  \* incident_open, escalation
  probe,     \* last_probe: its age and whether the radio gave a count, or None
  gap,       \* sign of the radio's packet count minus the count of that sample
  rebootAge, \* age of last_reboot_at, or None
  pc,        \* where the watchdog is
  quiet,     \* time since the radio heard anything
  faults,
  \* History, for the properties: since the last sample, did the radio hear a packet;
  \* since the incident opened, did the watchdog reconnect; age of its last reboot.
  heard, tried, rested

linkVars == <<link, stalled, lastRx, base>>
dogVars == <<incident, level, probe, gap, rebootAge>>
ladderVars == <<tried, rested>>
vars == <<linkVars, dogVars, pc, quiet, faults, heard, ladderVars>>

Cap(n, most) == IF n < most THEN n ELSE most
Older(age, most) == IF age = None THEN None ELSE Cap(age + 1, most)

Init ==
  /\ link = "down" /\ stalled = FALSE /\ lastRx = None /\ base = None
  /\ incident = FALSE /\ level = 0 /\ probe = None /\ gap = 0 /\ rebootAge = None
  /\ pc = "sleep" /\ quiet = 0 /\ faults = 0
  /\ heard = FALSE
  /\ tried = FALSE /\ rested = None

Fault(kind) == kind \in Faults /\ faults < MaxFaults /\ faults' = faults + 1

\* The later of the last frame and the end of the setup is the reference.
Silence ==
  IF lastRx = None \/ (base # None /\ base < lastRx) THEN base ELSE lastRx

\* Slip: the rung outlives its incident.
ResetKeepingRung ==
  /\ incident' = FALSE /\ probe' = None /\ gap' = 0
  /\ UNCHANGED <<level, rebootAge>>

\* Slip: the reboot is forgotten with the incident.
ResetAll ==
  /\ incident' = FALSE /\ probe' = None /\ level' = 0 /\ gap' = 0 /\ rebootAge' = None

\* A new RxWatchdogState that remembers the last reboot.
Reset ==
  /\ incident' = FALSE /\ probe' = None /\ level' = 0 /\ gap' = 0
  /\ UNCHANGED rebootAge

-----------------------------------------------------------------------------
(* check(), up to the probe.                                               *)

Tick == pc = "tick"

CheckDisconnected ==
  /\ Tick /\ link # "up"
  /\ IF incident
     THEN probe' = None /\ gap' = 0 /\ UNCHANGED <<incident, level, rebootAge>>
     ELSE Reset
  /\ pc' = "sleep"
  /\ UNCHANGED <<linkVars, quiet, faults, heard, ladderVars>>

\* Frames flow, or a fresh connection has only restarted the clock.
CheckFlowing ==
  /\ Tick /\ link = "up"
  /\ Silence = None \/ (Silence < Timeout /\ (~incident \/ lastRx = None))
  /\ pc' = "sleep"
  /\ UNCHANGED <<linkVars, dogVars, quiet, faults, heard, ladderVars>>

\* Slip: a fresh connection closes the incident.
CheckResumedByBaseline ==
  /\ Tick /\ link = "up" /\ incident
  /\ Silence # None /\ Silence < Timeout
  /\ Reset
  /\ pc' = "sleep"
  /\ UNCHANGED <<linkVars, quiet, faults, heard, ladderVars>>

\* Slip: the ladder starts again but the incident stays open.
CheckResumedLadderOnly ==
  /\ Tick /\ link = "up" /\ incident /\ lastRx # None
  /\ Silence < Timeout
  /\ level' = 0 /\ probe' = None /\ gap' = 0
  /\ pc' = "sleep"
  /\ UNCHANGED <<linkVars, incident, rebootAge, quiet, faults, heard, ladderVars>>

CheckResumed ==
  /\ Tick /\ link = "up" /\ incident /\ lastRx # None
  /\ Silence < Timeout
  /\ Reset
  /\ pc' = "sleep"
  /\ UNCHANGED <<linkVars, quiet, faults, heard, ladderVars>>

Silent == Silence # None /\ Silence >= Timeout
ProbedLately == probe # None /\ probe.age < Timeout

CheckTooEarly ==
  /\ Tick /\ link = "up" /\ Silent /\ ProbedLately
  /\ pc' = "sleep"
  /\ UNCHANGED <<linkVars, dogVars, quiet, faults, heard, ladderVars>>

CheckProbes ==
  /\ Tick /\ link = "up" /\ Silent /\ ~ProbedLately
  /\ incident' = TRUE
  /\ tried' = (incident /\ tried)
  /\ pc' = "probe"
  /\ UNCHANGED <<linkVars, level, probe, gap, rebootAge, quiet, faults, heard, rested>>

Check ==
  \/ CheckDisconnected \/ CheckFlowing \/ CheckResumed \/ CheckTooEarly \/ CheckProbes

-----------------------------------------------------------------------------
(* The probe and what follows from it.                                     *)

\* A setup that starts now waits until the probe gives the radio back.
Answered == pc = "probe" /\ link \in {"up", "setup"}

\* The radio is busy, gone, or the exchange raises.
ProbeFails ==
  /\ pc = "probe"
  /\ IF Answered THEN Fault("busy") ELSE UNCHANGED faults
  /\ pc' = "sleep"
  /\ UNCHANGED <<linkVars, dogVars, quiet, heard, ladderVars>>

NewSample == heard' = FALSE

\* The answer carries no count: nothing to compare, now and next time.
ProbeUncounted ==
  /\ Answered
  /\ Fault("stats")
  /\ probe' = [age |-> 0, counted |-> FALSE] /\ gap' = 0
  /\ pc' = "sleep" /\ NewSample
  /\ UNCHANGED <<linkVars, incident, level, rebootAge, quiet, ladderVars>>

\* Slip: any change of the count counts as packets heard.
WedgedByChange == probe # None /\ probe.counted /\ gap # 0

\* heard > 0 between two counted samples.
Wedged == probe # None /\ probe.counted /\ gap > 0

ProbeCalm ==
  /\ Answered
  /\ ~Wedged
  /\ probe' = [age |-> 0, counted |-> TRUE] /\ gap' = 0
  /\ pc' = "sleep" /\ NewSample
  /\ UNCHANGED <<linkVars, incident, level, rebootAge, quiet, faults, ladderVars>>

Cooling == rebootAge # None /\ rebootAge < Cooldown

\* _escalate: the sample is dropped, the transport closed and dialled again.
EscalateReconnect ==
  /\ Answered /\ Wedged
  /\ level = 0 \/ Cooling
  /\ level' = IF level = 0 THEN 1 ELSE level
  /\ probe' = None /\ gap' = 0
  /\ pc' = "close" /\ tried' = TRUE
  /\ UNCHANGED <<linkVars, incident, rebootAge, quiet, faults, heard, rested>>

EscalateReboot ==
  /\ Answered /\ Wedged
  /\ level # 0 /\ ~Cooling
  /\ level' = 2 /\ rebootAge' = 0
  /\ probe' = None /\ gap' = 0
  /\ pc' = "reboot" /\ rested' = 0
  /\ UNCHANGED <<linkVars, incident, quiet, faults, heard, tried>>

\* _reset_connected_runtime_state.
TornDown == link' = "down" /\ lastRx' = None /\ base' = None /\ UNCHANGED stalled

\* disconnect() needs the radio, which a running setup holds; it may raise.
Close(after) ==
  /\ link # "setup"
  /\ \/ TornDown /\ UNCHANGED faults
     \/ link # "down" /\ Fault("raise") /\ UNCHANGED linkVars
  /\ pc' = after
  /\ UNCHANGED <<dogVars, quiet, heard, ladderVars>>

ReconnectCloses == pc = "close" /\ Close("dial")

\* reconnect: a link that is still up, or was brought up by somebody else, is kept, and
\* any other dialled again; the setup runs in either case.
ReconnectPrepares ==
  /\ pc = "dial" /\ link # "setup"
  /\ link' = "setup"
  /\ IF link = "up" THEN UNCHANGED <<lastRx, base>> ELSE lastRx' = None /\ base' = None
  /\ pc' = "prepare"
  /\ UNCHANGED <<stalled, dogVars, quiet, faults, heard, ladderVars>>

\* The dial fails: the rest is left to the connection monitor.
ReconnectFails ==
  /\ pc = "dial" /\ link \in {"down", "lost"}
  /\ TornDown
  /\ pc' = "sleep"
  /\ UNCHANGED <<dogVars, quiet, faults, heard, ladderVars>>

\* The setup is through.
ReconnectReturns ==
  /\ pc = "prepare" /\ link # "setup"
  /\ pc' = "sleep"
  /\ UNCHANGED <<linkVars, dogVars, quiet, faults, heard, ladderVars>>

\* A reboot ends the stall; the command may fail.
RebootSent ==
  /\ pc = "reboot" /\ link # "setup"
  /\ \/ /\ link = "up"
        /\ stalled' = FALSE /\ UNCHANGED faults
     \/ /\ IF link = "up" THEN Fault("raise") ELSE UNCHANGED faults
        /\ UNCHANGED stalled
  /\ pc' = "drop"
  /\ UNCHANGED <<link, lastRx, base, dogVars, quiet, heard, ladderVars>>

RebootCloses == pc = "drop" /\ Close("sleep")

Dog ==
  \/ Check \/ ProbeFails \/ ProbeUncounted \/ ProbeCalm \/ EscalateReconnect \/ EscalateReboot
  \/ ReconnectCloses \/ ReconnectPrepares \/ ReconnectFails \/ ReconnectReturns
  \/ RebootSent \/ RebootCloses

-----------------------------------------------------------------------------
(* The link, the radio and time.                                           *)

Lose ==
  /\ link = "up" /\ Fault("lose")
  /\ link' = "lost"
  /\ UNCHANGED <<stalled, lastRx, base, dogVars, pc, quiet, heard, ladderVars>>

\* The library reconnects before the connection monitor has looked.
Regain ==
  /\ link = "lost" /\ link' = "up"
  /\ UNCHANGED <<stalled, lastRx, base, dogVars, pc, quiet, faults, heard, ladderVars>>

\* The connection monitor closes what was lost, unless the probe holds the radio.
Teardown ==
  /\ link = "lost" /\ pc # "probe"
  /\ TornDown
  /\ UNCHANGED <<dogVars, pc, quiet, faults, heard, ladderVars>>

\* Dialled again, or restored by the library after the monitor looked: setup runs.
SetupStarts ==
  /\ link \in {"down", "lost"}
  /\ link' = "setup"
  /\ UNCHANGED <<stalled, lastRx, base, dogVars, pc, quiet, faults, heard, ladderVars>>

SetupEnds ==
  /\ link = "setup" /\ pc # "probe"
  /\ link' = "up" /\ base' = 0
  /\ UNCHANGED <<stalled, lastRx, dogVars, pc, quiet, faults, heard, ladderVars>>

Stall ==
  /\ ~stalled /\ Fault("stall")
  /\ stalled' = TRUE
  /\ UNCHANGED <<link, lastRx, base, dogVars, pc, quiet, heard, ladderVars>>

\* The radio restarts by itself: its count starts again.
Restart ==
  /\ Fault("restart")
  /\ stalled' = FALSE /\ gap' = IF probe = None THEN 0 ELSE -1
  /\ UNCHANGED <<link, lastRx, base, incident, level, probe, rebootAge, pc, quiet, heard, ladderVars>>

\* A packet is counted and, unless the push is stalled, reaches a connected host.
Pushed == link \in {"up", "setup"} /\ ~stalled
Hear ==
  /\ quiet' = 0 /\ heard' = TRUE
  /\ gap' \in CASE probe = None -> {0} [] gap = -1 -> {-1, 0} [] OTHER -> {1}
  /\ lastRx' = IF Pushed THEN 0 ELSE lastRx
  /\ UNCHANGED <<link, stalled, base, incident, level, probe, rebootAge, pc, faults, tried, rested>>

\* The watchdog sleeps for one interval; its awaits may take time as well.  Two things
\* are faster: a reconnect returns once the radio is set up, and the connection monitor
\* or the library sees to a lost link.
Pass ==
  /\ pc # "tick" /\ link # "lost" /\ ~(pc \in {"dial", "prepare"} /\ link = "up")
  /\ BusyMesh => quiet < Timeout
  /\ pc' = IF pc = "sleep" THEN "tick" ELSE pc
  /\ quiet' = Cap(quiet + 1, Timeout)
  /\ lastRx' = Older(lastRx, Timeout) /\ base' = Older(base, Timeout)
  /\ probe' = IF probe = None THEN None ELSE [probe EXCEPT !.age = Cap(@ + 1, Timeout)]
  /\ rebootAge' = Older(rebootAge, Cooldown) /\ rested' = Older(rested, Cooldown)
  /\ UNCHANGED <<link, stalled, incident, level, gap, faults, heard, tried>>

World == Lose \/ Regain \/ Teardown \/ SetupStarts \/ SetupEnds \/ Stall \/ Restart \/ Hear

Next == Dog \/ World \/ Pass

Spec == Init /\ [][Next]_vars

\* The watchdog and the setup run, time passes, and what must be heard is heard.
FairSpec ==
  /\ Spec
  /\ WF_vars(Dog) /\ WF_vars(SetupStarts \/ SetupEnds) /\ WF_vars(Pass)
  /\ WF_vars(quiet >= Timeout /\ Hear)

-----------------------------------------------------------------------------
Ages(most) == (0..most) \cup {None}
TypeOK ==
  /\ link \in {"up", "lost", "down", "setup"} /\ stalled \in BOOLEAN
  /\ lastRx \in Ages(Timeout) /\ base \in Ages(Timeout)
  /\ incident \in BOOLEAN /\ level \in 0..2 /\ gap \in {-1, 0, 1}
  /\ probe \in [age: 0..Timeout, counted: BOOLEAN] \cup {None}
  /\ rebootAge \in Ages(Cooldown) /\ rested \in Ages(Cooldown)
  /\ pc \in {"sleep", "tick", "probe", "close", "dial", "prepare", "reboot", "drop"}
  /\ quiet \in 0..Timeout /\ faults \in 0..MaxFaults
  /\ heard \in BOOLEAN
  /\ tried \in BOOLEAN

Escalates == pc = "probe" /\ pc' \in {"close", "reboot"}

\* "A radio that heard nothing is a quiet mesh, and nothing happens": the link is only
\* torn down if the radio heard a packet since the sample before, also when the radio
\* has restarted and counts from zero.
QuietMeshLeftAlone == [][Escalates => heard]_vars

\* "Do not reboot the radio more often than this, whatever the counters say": however many
\* incidents open and close in between, two decisions to reboot are a cooldown apart.
RebootsApart == [][(pc = "probe" /\ pc' = "reboot") => rested \in {None, Cooldown}]_vars

\* A reboot is the second rung: the watchdog reconnected in the same incident before.
ReconnectFirst == pc = "reboot" => tried

\* The ladder clears a stall: whatever probes and reboots fail and drops come in between, a
\* radio that hears packets and pushes none is in the end rebooted (or recovers).
StallCleared == stalled ~> ~stalled

\* An incident does not outlive the stall: once frames flow for good it is closed.
IncidentCloses == <>[](~stalled /\ link = "up") => []<>~incident
=============================================================================
