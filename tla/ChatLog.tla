------------------------------- MODULE ChatLog -------------------------------
(* What a browser that has a conversation open is promised while no event is lost: a *)
(* message appears once, its echo count only grows, and what was deleted does not come *)
(* back.                                                                               *)
EXTENDS Naturals

CONSTANTS
  Ids,       \* row ids
  Contents,  \* what identifies a message on the air: its text and sender timestamp
  None

VARIABLES
  shown,  \* the bubbles on the screen, by row id
  told,   \* the contents that have been on the screen
  whole   \* no event has been lost so far

Init == shown = [i \in Ids |-> None] /\ told = {}

\* What happens to one bubble leaves the others alone.
Only(i) == \A j \in Ids \ {i} : shown'[j] = shown[j]

Appear(i) ==
  /\ shown[i] = None /\ shown'[i] # None
  /\ shown'[i].content \in Contents \ told
  /\ told' = told \cup {shown'[i].content}
  /\ Only(i)

Count(i) ==
  /\ shown[i] # None /\ shown'[i] # None
  /\ shown'[i].content = shown[i].content
  /\ shown'[i].acked > shown[i].acked
  /\ Only(i) /\ UNCHANGED told

Vanish(i) ==
  /\ shown[i] # None /\ shown'[i] = None
  /\ Only(i) /\ UNCHANGED told

Next == \E i \in Ids : Appear(i) \/ Count(i) \/ Vanish(i)

Spec == Init /\ [][whole' => Next]_<<shown, told>>
==============================================================================
