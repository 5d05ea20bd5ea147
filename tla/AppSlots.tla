------------------------------ MODULE AppSlots ------------------------------
(***************************************************************************)
(* The channel slots that the virtual node shows to apps.  Apps remember   *)
(* a channel by its slot, so the table is kept in the database, and every  *)
(* command that names a slot first reconciles the table with the channel   *)
(* store under a lock.  Apps bind and clear slots, the server adds and     *)
(* deletes channels, and the process restarts.                             *)
(*                                                                         *)
(* Slots count from 1 here, so the slot the code calls 0 is slot 1.  A key *)
(* is a number, which gives the order in which the code sorts keys.        *)
(***************************************************************************)
EXTENDS Integers, Sequences, FiniteSets

CONSTANTS
  Keys,         \* channel keys
  Public,       \* PUBLIC_CHANNEL_KEY
  Tasks,        \* commands and event tasks that may run at a time
  None,
  MaxSlots,     \* MAX_VIRTUAL_CHANNEL_SLOTS
  Advertised,   \* MIN_ADVERTISED_CHANNEL_SLOTS or what the radio has
  MaxAsks,      \* bound on commands, additions and deletions
  MaxMishaps    \* bound on failed writes and restarts

ASSUME SlotsAssumption ==
  /\ Keys \subseteq Nat /\ IsFiniteSet(Keys) /\ Public \in Keys /\ None \notin Keys
  /\ MaxSlots \in Nat \ {0} /\ Advertised \in 1..MaxSlots
  /\ MaxAsks \in Nat /\ MaxMishaps \in Nat

VARIABLES
  channels,  \* the keys in the channels table
  table,     \* _channel_slots
  loaded,    \* _channel_slots_loaded
  stored,    \* virtual_node_channel_slots: the slots that hold a key
  lock,      \* the tasks at _channel_slots_lock, the holder first
  act,       \* what each task does and where it stands
  unsaved,   \* history: the last write of the table failed
  told,      \* history: the key apps know a slot by
  spent      \* asks and mishaps so far

vars == <<channels, table, loaded, stored, lock, act, unsaved, told, spent>>

Slots == 1..MaxSlots
Idle == [pc |-> "idle", job |-> "reconcile", slot |-> 1, key |-> None]
Jobs == {"reconcile", "send", "bind", "clear"}

ActType == [pc : {"idle", "reconcile", "save", "send", "set", "saveSet", "upsert"},
            job : Jobs, slot : Slots, key : Keys \cup {None}]

TypeOK ==
  /\ channels \in SUBSET Keys
  /\ table \in Seq(Keys \cup {None}) /\ Len(table) <= MaxSlots
  /\ loaded \in BOOLEAN
  /\ stored \in [Slots -> Keys \cup {None}]
  /\ lock \in Seq(Tasks)
  /\ act \in [Tasks -> ActType]
  /\ unsaved \in BOOLEAN
  /\ told \in [Slots -> Keys \cup {None}]
  /\ spent \in [asks : 0..MaxAsks, mishaps : 0..MaxMishaps]

Init ==
  /\ channels \in {{}, {Public}}
  /\ table = <<>> /\ loaded = FALSE
  /\ stored = [i \in Slots |-> None]
  /\ lock = <<>> /\ act = [t \in Tasks |-> Idle]
  /\ unsaved = FALSE
  /\ told = [i \in Slots |-> None]
  /\ spent = [asks |-> 0, mishaps |-> 0]

Asks == spent.asks < MaxAsks /\ spent' = [spent EXCEPT !.asks = @ + 1]
Mishap == spent.mishaps < MaxMishaps /\ spent' = [spent EXCEPT !.mishaps = @ + 1]

Holds(t) == lock # <<>> /\ Head(lock) = t

-----------------------------------------------------------------------------
(* The table against the channel store.                                    *)

Held(slots) == {slots[i] : i \in DOMAIN slots} \ {None}
At(slots, key) == CHOOSE i \in DOMAIN slots : slots[i] = key /\ \A j \in 1..i - 1 : slots[j] # key
Blank(slots) == \E i \in DOMAIN slots : slots[i] = None

\* Slip: the slots behind a deleted channel move up.
BlankedShifted(slots) == SelectSeq(slots, LAMBDA key : key \in channels)

\* A deleted channel leaves a blank slot.
Blanked(slots) == [i \in DOMAIN slots |-> IF slots[i] \in channels THEN slots[i] ELSE None]

\* _pin_public_channel_slot
Pinned(slots) ==
  IF Public \notin channels \/ (slots # <<>> /\ slots[1] = Public) THEN slots
  ELSE IF slots = <<>> THEN <<Public>>
  ELSE LET displaced == slots[1]
           seated    == [slots EXCEPT ![1] = Public]
       IN CASE Public \in Held(slots) -> [seated EXCEPT ![At(slots, Public)] = displaced]
            [] Public \notin Held(slots) /\ displaced # None /\ Blank(seated) ->
                 [seated EXCEPT ![At(seated, None)] = displaced]
            [] Public \notin Held(slots) /\ displaced # None /\ ~Blank(seated)
                 /\ Len(slots) < MaxSlots -> Append(seated, displaced)
            [] OTHER -> seated

\* How many of the keys are seated before this one.
Rank(key, keys) == Cardinality({other \in keys : other < key})

\* How many keys are seated before one comes to slot i, which is new or blank: the table
\* grows first, and a full table has its blank slots filled from the front.
Turn(slots, i) ==
  IF i > Len(slots) THEN i - Len(slots) - 1
  ELSE (MaxSlots - Len(slots)) + Cardinality({j \in 1..i - 1 : slots[j] = None})

Seating(slots, keys, i) == {key \in keys : Rank(key, keys) = Turn(slots, i)}

\* The new keys take their slots in order; those for which none is left are not shown.
Seated(slots, keys) ==
  LET grown == Len(slots) + Cardinality(keys)
  IN [i \in 1..(IF grown < MaxSlots THEN grown ELSE MaxSlots) |->
       IF i \in DOMAIN slots /\ slots[i] # None THEN slots[i]
       ELSE IF Seating(slots, keys, i) = {} THEN None
       ELSE CHOOSE key \in Seating(slots, keys, i) : TRUE]

Reconciled ==
  LET kept == Pinned(Blanked(table))
  IN Seated(kept, channels \ Held(kept))

\* get_all after a restart: trailing blank slots were not stored.
Restored ==
  LET used == {i \in Slots : stored[i] # None}
      last == CHOOSE i \in used : \A j \in used : j <= i
  IN IF used = {} THEN <<>> ELSE [i \in 1..last |-> stored[i]]

\* replace_all
Saved == [i \in Slots |-> IF i \in DOMAIN table THEN table[i] ELSE None]

-----------------------------------------------------------------------------
(* _ensure_channel_slots                                                   *)

\* An app's command, or an event that concerns the channels.
Ask(t, job, slot, key) ==
  /\ act[t].pc = "idle"
  /\ Asks
  /\ act' = [act EXCEPT ![t] = [pc |-> "reconcile", job |-> job, slot |-> slot, key |-> key]]
  /\ lock' = Append(lock, t)
  /\ UNCHANGED <<channels, table, loaded, stored, unsaved, told>>

LoadSlots(t) ==
  /\ Holds(t) /\ act[t].pc = "reconcile" /\ ~loaded
  /\ loaded' = TRUE
  /\ table' = Restored
  /\ UNCHANGED <<channels, stored, lock, act, unsaved, told, spent>>

LoadFails(t) ==
  /\ Holds(t) /\ act[t].pc = "reconcile" /\ ~loaded
  /\ Mishap
  /\ loaded' = TRUE /\ unsaved' = TRUE
  /\ told' = [i \in Slots |-> None]
  /\ UNCHANGED <<channels, table, stored, lock, act>>

\* The apps are told the slots that hold a channel, and remember the others.
Retold(slots) == [i \in Slots |->
  IF i \in DOMAIN slots /\ slots[i] \in channels THEN slots[i] ELSE told[i]]

\* The reconciled table goes back to the command that asked for it.
Done(t, slots) ==
  LET i     == act[t].slot
      key   == IF i \in DOMAIN slots THEN slots[i] ELSE None
      legal == i <= Advertised \/ i <= Len(slots)
      job   == act[t].job
  IN
  /\ told' = Retold(slots)
  /\ act' = [act EXCEPT ![t] =
       IF job = "send" /\ key # None THEN [@ EXCEPT !.pc = "send", !.key = key]
       ELSE IF job \in {"bind", "clear"} /\ legal THEN [@ EXCEPT !.pc = "set"]
       ELSE Idle]
  /\ lock' = IF job \in {"bind", "clear"} /\ legal THEN Append(Tail(lock), t) ELSE Tail(lock)

Reconcile(t) ==
  /\ Holds(t) /\ act[t].pc = "reconcile" /\ loaded
  /\ table' = Reconciled
  /\ IF Reconciled = table
     THEN Done(t, table)
     ELSE act' = [act EXCEPT ![t].pc = "save"] /\ UNCHANGED <<lock, told>>
  /\ UNCHANGED <<channels, loaded, stored, unsaved, spent>>

Save(t) ==
  /\ act[t].pc = "save"
  /\ stored' = Saved /\ unsaved' = FALSE
  /\ Done(t, table)
  /\ UNCHANGED <<channels, table, loaded, spent>>

SaveFails(t) ==
  /\ act[t].pc = "save"
  /\ Mishap
  /\ unsaved' = TRUE
  /\ Done(t, table)
  /\ UNCHANGED <<channels, table, loaded, stored>>

-----------------------------------------------------------------------------
(* The commands that asked.                                                *)

\* SEND_CHANNEL_TXT_MSG: the channel is read once more and sent to.
Transmit(t) ==
  /\ act[t].pc = "send"
  /\ act' = [act EXCEPT ![t] = Idle]
  /\ UNCHANGED <<channels, table, loaded, stored, lock, unsaved, told, spent>>

Padded(slots, i) ==
  [j \in 1..(IF i < Len(slots) THEN Len(slots) ELSE i) |->
     IF j \in DOMAIN slots THEN slots[j] ELSE None]

\* The blank frame: the slot is unbound and its channel stays.
SetClear(t) ==
  LET i == act[t].slot
      slots == Padded(table, i)
  IN
  /\ Holds(t) /\ act[t].pc = "set" /\ act[t].job = "clear"
  /\ table' = [slots EXCEPT ![i] = None]
  /\ told' = [told EXCEPT ![i] = None]
  /\ IF slots[i] # None
     THEN act' = [act EXCEPT ![t].pc = "saveSet"] /\ UNCHANGED lock
     ELSE act' = [act EXCEPT ![t] = Idle] /\ lock' = Tail(lock)
  /\ UNCHANGED <<channels, loaded, stored, unsaved, spent>>

\* Slip: the slot the key had before keeps it.
SetBindTwice(t) ==
  LET i == act[t].slot
      key == act[t].key
  IN
  /\ Holds(t) /\ act[t].pc = "set" /\ act[t].job = "bind"
  /\ table' = [Padded(table, i) EXCEPT ![i] = key]
  /\ told' = [j \in Slots |-> IF j = i \/ told[j] = key THEN None ELSE told[j]]
  /\ act' = [act EXCEPT ![t].pc = "saveSet"]
  /\ UNCHANGED <<channels, loaded, stored, lock, unsaved, spent>>

\* A key that an app puts into a slot leaves the slot it had (by OneSlotEach there is one).
\* Apps are not told of the new meaning: the slot may be blanked again before the channel
\* is stored (SetEnds, Upsert).
SetBind(t) ==
  LET i == act[t].slot
      key == act[t].key
      slots == Padded(table, i)
  IN
  /\ Holds(t) /\ act[t].pc = "set" /\ act[t].job = "bind"
  /\ table' = [j \in DOMAIN slots |->
       IF j = i THEN key ELSE IF slots[j] = key THEN None ELSE slots[j]]
  /\ told' = [j \in Slots |-> IF j = i \/ told[j] = key THEN None ELSE told[j]]
  /\ act' = [act EXCEPT ![t].pc = "saveSet"]
  /\ UNCHANGED <<channels, loaded, stored, lock, unsaved, spent>>

\* The lock is free again; a bound key still has to become a channel.
SetEnds(t) ==
  /\ lock' = Tail(lock)
  /\ act' = [act EXCEPT ![t] = IF @.job = "bind" THEN [@ EXCEPT !.pc = "upsert"] ELSE Idle]

\* Slip: what an app set is not written.
SaveSetSkipped(t) ==
  /\ act[t].pc = "saveSet"
  /\ SetEnds(t)
  /\ UNCHANGED <<channels, table, loaded, stored, unsaved, told, spent>>

SaveSet(t) ==
  /\ act[t].pc = "saveSet"
  /\ stored' = Saved /\ unsaved' = FALSE
  /\ SetEnds(t)
  /\ UNCHANGED <<channels, table, loaded, told, spent>>

SaveSetFails(t) ==
  /\ act[t].pc = "saveSet"
  /\ Mishap
  /\ unsaved' = TRUE
  /\ SetEnds(t)
  /\ UNCHANGED <<channels, table, loaded, stored, told>>

\* The channel is stored, and its event has the table reconciled.
Upsert(t) ==
  /\ act[t].pc = "upsert"
  /\ channels' = channels \cup {act[t].key}
  /\ act' = [act EXCEPT ![t] = [Idle EXCEPT !.pc = "reconcile"]]
  /\ lock' = Append(lock, t)
  /\ UNCHANGED <<table, loaded, stored, unsaved, told, spent>>

-----------------------------------------------------------------------------
(* The server's own channels, and restarts.                                *)

AddChannel(t, key) ==
  /\ key \notin channels
  /\ act[t].pc = "idle" /\ Asks
  /\ channels' = channels \cup {key}
  /\ act' = [act EXCEPT ![t] = [Idle EXCEPT !.pc = "reconcile"]]
  /\ lock' = Append(lock, t)
  /\ UNCHANGED <<table, loaded, stored, unsaved, told>>

DeleteChannel(t, key) ==
  /\ key \in channels \ {Public}
  /\ act[t].pc = "idle" /\ Asks
  /\ channels' = channels \ {key}
  /\ told' = [i \in Slots |-> IF told[i] = key THEN None ELSE told[i]]
  /\ act' = [act EXCEPT ![t] = [Idle EXCEPT !.pc = "reconcile"]]
  /\ lock' = Append(lock, t)
  /\ UNCHANGED <<table, loaded, stored, unsaved>>

Restart ==
  /\ Mishap
  /\ table' = <<>> /\ loaded' = FALSE
  /\ lock' = <<>> /\ act' = [t \in Tasks |-> Idle]
  /\ unsaved' = FALSE
  /\ told' = IF unsaved THEN [i \in Slots |-> None] ELSE told
  /\ UNCHANGED <<channels, stored>>

Task(t) ==
  \/ Ask(t, "reconcile", 1, None)
  \/ \E i \in Slots : Ask(t, "send", i, None) \/ Ask(t, "clear", i, None)
  \/ \E i \in Slots, key \in Keys : Ask(t, "bind", i, key)
  \/ LoadSlots(t) \/ LoadFails(t) \/ Reconcile(t) \/ Save(t) \/ SaveFails(t)
  \/ Transmit(t) \/ SetClear(t) \/ SetBind(t) \/ SaveSet(t) \/ SaveSetFails(t)
  \/ Upsert(t)
  \/ \E key \in Keys : AddChannel(t, key) \/ DeleteChannel(t, key)

Next == Restart \/ \E t \in Tasks : Task(t)

Spec == Init /\ [][Next]_vars

-----------------------------------------------------------------------------
(* A key is in one slot at most, in memory and in the database, however    *)
(* binds, additions and the seating of the public channel follow each      *)
(* other; a second slot would be a second name for one conversation.       *)
OneSlotEach ==
  /\ \A i, j \in DOMAIN table : table[i] = table[j] /\ table[i] # None => i = j
  /\ \A i, j \in Slots : stored[i] = stored[j] /\ stored[i] # None => i = j

(* A slot keeps its meaning: as long as the channel that apps know a slot  *)
(* by exists and no app rebinds it, no other channel is found there,       *)
(* across additions, deletions, restarts and cut-off writes.               *)
SlotKeepsMeaning ==
  \A i \in DOMAIN table \ {1} :
    told[i] # None /\ table[i] # None => table[i] = told[i]

(* Between commands the database holds the table that apps see, so that a  *)
(* restart brings it back, unless a write failed and was logged.           *)
TableDurable ==
  loaded /\ ~unsaved /\ (\A t \in Tasks : act[t].pc \notin {"save", "saveSet"})
    => stored = Saved

=============================================================================
