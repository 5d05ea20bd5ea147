---------------------------- MODULE ChannelSlots ----------------------------
(***************************************************************************)
(* The radio's channel slots and what RadioManager remembers about them:   *)
(* the send cache (slots loaded by recent sends), the resident channels    *)
(* (slots pinned for the session), and everything that writes a slot: text *)
(* sends, binary image sends, pinning a new channel, clearing a deleted    *)
(* one, the full sync and the periodic audit.                              *)
(*                                                                         *)
(* One connected session.  Whoever writes a slot holds the radio operation *)
(* lock, a first-in first-out queue: the head of tasks holds it.           *)
(***************************************************************************)
EXTENDS Naturals, Sequences, FiniteSets

CONSTANTS
  Keys,         \* channel keys
  Public,       \* the channel that cannot be deleted
  Capacity,     \* max_channels of the connected firmware
  Reuse,        \* channel_slot_reuse_enabled: not TCP, not forced to reconfigure
  ResidentsOn,  \* settings.resident_channels_enabled
  Hazards,      \* which of "delete", "lost", "foreign" the environment does
  MaxTasks,     \* bound: operations queued on the radio lock
  MaxUpsets,    \* bound: hazards and failed slot writes
  None

ASSUME KeysAssumption == Public \in Keys /\ None \notin Keys /\ IsFiniteSet(Keys)
ASSUME CapacityAssumption == Capacity \in Nat \ {0} /\ None \notin Nat
ASSUME ConfigAssumption == /\ Reuse \in BOOLEAN
                           /\ ResidentsOn \in BOOLEAN
                           /\ Hazards \subseteq {"delete", "lost", "foreign"}
                           /\ MaxTasks \in Nat
                           /\ MaxUpsets \in Nat

Slots == 0..(Capacity - 1)
KeyOrNone == Keys \cup {None}
SlotOrNone == Slots \cup {None}

VARIABLES
  radio,   \* what each slot of the radio holds
  joined,  \* rows of the channels table
  maps,    \* RadioManager's send cache and resident maps
  tasks,   \* operations holding (head) or waiting for the radio lock
  layout,  \* the resident set a running sync chose, slot by slot
  aired,   \* the last channel packet: meant for .key, encrypted under .under
  upsets

vars == <<radio, joined, maps, tasks, layout, aired, upsets>>

Kinds == {"text", "transmit", "load", "blobs", "pin", "clear", "select", "write"}

Tasks == [kind: Kinds, key: KeyOrNone, slot: SlotOrNone,
          evicted: KeyOrNone, configure: BOOLEAN]

Task(kind, key, slot, evicted, configure) ==
  [kind |-> kind, key |-> key, slot |-> slot, evicted |-> evicted,
   configure |-> configure]

\* RadioManager's four dictionaries, None for a missing entry: _channel_slot_by_key
\* (slotOf, with its order lru), _channel_key_by_slot, _resident_channel_slot_by_key
\* and _resident_channel_key_by_slot.
Indexes(lru, slotOf, keyAt, resSlot, resKey) ==
  [lru |-> lru, slotOf |-> slotOf, keyAt |-> keyAt, resSlot |-> resSlot, resKey |-> resKey]

NoSlots == [k \in Keys |-> None]
NoKeys == [s \in Slots |-> None]

\* A session starts with empty maps; the slots hold what earlier sessions left.
Init ==
  /\ radio \in [Slots -> KeyOrNone]
  /\ joined \in {J \in SUBSET Keys : Public \in J}
  /\ maps = Indexes(<< >>, NoSlots, NoKeys, NoSlots, NoKeys)
  /\ tasks = << >>
  /\ layout = NoKeys
  /\ aired = [key |-> None, under |-> None, via |-> "text"]
  /\ upsets = 0

-----------------------------------------------------------------------------
(* The maps.                                                               *)

Without(s, k) == SelectSeq(s, LAMBDA j : j # k)

Cached(m) == {k \in Keys : m.slotOf[k] # None}
Residents(m) == {k \in Keys : m.resSlot[k] # None}

ResetCache(m) == Indexes(<< >>, NoSlots, NoKeys, m.resSlot, m.resKey)

\* The key leaves the cache; its slot too, unless another key took it.
Invalidate(m, k) ==
  Indexes(Without(m.lru, k),
          [m.slotOf EXCEPT ![k] = None],
          [s \in Slots |-> IF s = m.slotOf[k] /\ m.keyAt[s] = k THEN None ELSE m.keyAt[s]],
          m.resSlot, m.resKey)

\* The two pops that stop a slot from being a scratch slot.
DropScratch(m, s) ==
  Indexes(Without(m.lru, m.keyAt[s]),
          [k \in Keys |-> IF k = m.keyAt[s] THEN None ELSE m.slotOf[k]],
          [m.keyAt EXCEPT ![s] = None],
          m.resSlot, m.resKey)

\* Slip: the slot still answers for the unpinned channel.
RemoveResidentHalf(m, k) ==
  Indexes(m.lru, m.slotOf, m.keyAt, [m.resSlot EXCEPT ![k] = None], m.resKey)

RemoveResident(m, k) ==
  Indexes(m.lru, m.slotOf, m.keyAt,
          [m.resSlot EXCEPT ![k] = None],
          [s \in Slots |-> IF s = m.resSlot[k] THEN None ELSE m.resKey[s]])

\* Pin k into s, whatever was pinned there.
Pinned(m, k, s) ==
  Indexes(m.lru, m.slotOf, m.keyAt,
          [j \in Keys |->
             IF j = k THEN s ELSE IF j = m.resKey[s] THEN None ELSE m.resSlot[j]],
          [i \in Slots |->
             IF i = s THEN k ELSE IF i = m.resSlot[k] THEN None ELSE m.resKey[i]])

\* Slip: a pinned slot stays in the send cache.
AddResidentKeepingScratch(m, k, s) == Invalidate(Pinned(m, k, s), k)

AddResident(m, k, s) == Invalidate(DropScratch(Pinned(m, k, s), s), k)

\* f says which slot each resident key is in; resident slots and keys leave the cache.
SetResidents(m, f) ==
  LET leaves(k) == f[k] # None \/ \E j \in Keys : f[j] # None /\ m.keyAt[f[j]] = k
  IN Indexes(SelectSeq(m.lru, LAMBDA k : ~leaves(k)),
             [k \in Keys |-> IF leaves(k) THEN None ELSE m.slotOf[k]],
             [s \in Slots |-> IF m.keyAt[s] # None /\ leaves(m.keyAt[s])
                              THEN None ELSE m.keyAt[s]],
             f,
             [s \in Slots |-> IF \E k \in Keys : f[k] = s
                              THEN CHOOSE k \in Keys : f[k] = s ELSE None])

\* note_channel_slot_loaded: a pinned channel whose slot was overwritten is unpinned.
Displaced(m, s) == IF m.resKey[s] = None THEN m ELSE RemoveResident(m, m.resKey[s])

Loaded(m, k, s) ==
  Indexes(Append(Without(Without(m.lru, k), m.keyAt[s]), k),
          [j \in Keys |->
             IF j = k THEN s ELSE IF j = m.keyAt[s] THEN None ELSE m.slotOf[j]],
          [i \in Slots |->
             IF i = s THEN k ELSE IF i = m.slotOf[k] THEN None ELSE m.keyAt[i]],
          m.resSlot, m.resKey)

NoteLoaded(m, k, s) ==
  IF ~Reuse \/ m.resKey[s] = k THEN m ELSE Loaded(Displaced(m, s), k, s)

NoteUsed(m, k) ==
  IF ~Reuse \/ m.slotOf[k] = None
  THEN m
  ELSE Indexes(Append(Without(m.lru, k), k), m.slotOf,
               [m.keyAt EXCEPT ![m.slotOf[k]] = k], m.resSlot, m.resKey)

\* The least slot of a set, as a set of at most one.
Lowest(S) == {s \in S : \A t \in S : s <= t}

\* Slip: the last slot is pinned too.
FirstFreeResidentSlotGreedy(m) == Lowest({s \in Slots : m.resKey[s] = None})

\* first_free_resident_slot: none when that would leave no scratch slot.
FirstFreeResidentSlot(m) ==
  IF Cardinality({s \in Slots : m.resKey[s] # None}) >= Capacity - 1 THEN {}
  ELSE Lowest({s \in Slots : m.resKey[s] = None})

\* _find_first_free_channel_slot; every caller prefers slot 0.
FirstFreeChannelSlot(m) ==
  LET free == {s \in Slots : m.keyAt[s] = None /\ m.resKey[s] = None}
  IN IF free = {} THEN {0} ELSE Lowest(free)

Plan(slot, configure, evicted, m) ==
  [slot |-> slot, configure |-> configure, evicted |-> evicted, maps |-> m]

ResidentPlan(m, k) == Plan(m.resSlot[k], ~Reuse, None, m)

ScratchSlots(m) == Capacity - Cardinality({s \in Slots : m.resKey[s] # None})

\* plan_channel_send_slot: the plans it may return, with the maps it leaves.  The
\* branch that borrows a resident slot is the one the code says never happens.
Plans(m, k) ==
  IF m.resSlot[k] # None THEN {ResidentPlan(m, k)}
  ELSE IF ~Reuse
  THEN {Plan(s, TRUE, None, m) :
          s \in IF m.resKey[0] = None THEN {0} ELSE FirstFreeChannelSlot(m)}
  ELSE IF m.slotOf[k] # None THEN {Plan(m.slotOf[k], FALSE, None, m)}
  ELSE IF ScratchSlots(m) <= 0
  THEN {Plan(m.resSlot[e], TRUE, e, RemoveResident(m, e)) : e \in Residents(m)}
  ELSE IF Len(m.lru) < ScratchSlots(m)
  THEN {Plan(s, TRUE, None, m) : s \in FirstFreeChannelSlot(m)}
  ELSE {Plan(m.slotOf[e], TRUE, e, m) : e \in {c \in Cached(m) : c = Head(m.lru)}}

\* get_cached_channel_slot
KnownSlot(m, k) == IF Reuse /\ m.resSlot[k] # None THEN m.resSlot[k] ELSE m.slotOf[k]

-----------------------------------------------------------------------------
(* The radio.  set_channel answers OK, or fails; a failure is an error      *)
(* reply, or a write the radio made and whose reply was lost.               *)

Replies == {"ok", "error"} \cup (Hazards \cap {"lost"})

Written(s, k, reply) == IF reply = "error" THEN radio ELSE [radio EXCEPT ![s] = k]

Cost(replies) == Cardinality({s \in DOMAIN replies : replies[s] # "ok"})

Spend(n) == upsets + n <= MaxUpsets /\ upsets' = upsets + n

Priced(reply) == Spend(IF reply = "ok" THEN 0 ELSE 1)

Enqueue(t) == Len(tasks) < MaxTasks /\ tasks' = Append(tasks, t)

Holds(kind) == tasks # << >> /\ Head(tasks).kind = kind

\* The head becomes t, still holding the lock.
Becomes(t) == tasks' = << t >> \o Tail(tasks)

\* A packet from slot s meant for channel k; the firmware refuses an empty slot.
OnAir(k, s, via) == aired' = [key |-> k, under |-> radio[s], via |-> via]

-----------------------------------------------------------------------------
(* Text sends: plan, load and transmit under one hold of the lock.          *)

TextSend(k) ==
  /\ k \in joined
  /\ Enqueue(Task("text", k, None, None, FALSE))
  /\ UNCHANGED <<radio, joined, maps, layout, aired, upsets>>

\* Slip: the text is sent from the preferred slot, not from the planned one.
TextLoadedElsewhere(k, p, reply) ==
  /\ reply = "ok"
  /\ radio' = IF p.configure THEN [radio EXCEPT ![p.slot] = k] ELSE radio
  /\ maps' = IF p.configure THEN NoteLoaded(p.maps, k, p.slot) ELSE p.maps
  /\ Becomes(Task("transmit", k, 0, None, FALSE))

\* The slot needs no write, or the write answers OK.
TextLoaded(k, p, reply) ==
  /\ reply = "ok"
  /\ radio' = IF p.configure THEN [radio EXCEPT ![p.slot] = k] ELSE radio
  /\ maps' = IF p.configure THEN NoteLoaded(p.maps, k, p.slot) ELSE p.maps
  /\ Becomes(Task("transmit", k, p.slot, None, FALSE))

\* The slot cannot be written: what it evicted is forgotten and the send fails.
TextRefused(k, p, reply) ==
  /\ p.configure /\ reply # "ok"
  /\ radio' = Written(p.slot, k, reply)
  /\ maps' = IF p.evicted = None THEN p.maps ELSE Invalidate(p.maps, p.evicted)
  /\ tasks' = Tail(tasks)

TextConfigure(reply) ==
  /\ Holds("text")
  /\ \E p \in Plans(maps, Head(tasks).key) :
       \/ TextLoaded(Head(tasks).key, p, reply)
       \/ TextRefused(Head(tasks).key, p, reply)
  /\ Priced(reply)
  /\ UNCHANGED <<joined, layout, aired>>

\* The radio sends, and answers; a lost answer (408) leaves the maps alone.
TextSent(t) ==
  /\ radio[t.slot] # None
  /\ OnAir(t.key, t.slot, "text")
  /\ maps' \in {NoteUsed(maps, t.key), maps}

\* The radio answers with an error.
TextUnsent(t) ==
  /\ maps' = Invalidate(maps, t.key)
  /\ aired' = aired

TextTransmit ==
  /\ Holds("transmit")
  /\ TextSent(Head(tasks)) \/ TextUnsent(Head(tasks))
  /\ tasks' = Tail(tasks)
  /\ UNCHANGED <<radio, joined, layout, upsets>>

-----------------------------------------------------------------------------
(* Binary image sends: the slot is planned before the lock is taken, loaded  *)
(* under one hold of it, and used under another.                             *)

ImageSend(k) ==
  /\ k \in joined
  /\ \E p \in Plans(maps, k) :
       /\ Enqueue(Task("load", k, p.slot, p.evicted, p.configure))
       /\ maps' = p.maps
  /\ UNCHANGED <<radio, joined, layout, aired, upsets>>

\* An app on the virtual node sends a blob: a known slot is used as it is.
AppSend(k) ==
  /\ k \in joined /\ KnownSlot(maps, k) # None
  /\ Enqueue(Task("blobs", k, KnownSlot(maps, k), None, FALSE))
  /\ UNCHANGED <<radio, joined, maps, layout, aired, upsets>>

\* A refused write forgets what it evicted, a write that raises does not.
ImageLoad(reply) ==
  /\ Holds("load")
  /\ LET t == Head(tasks) IN
       \/ /\ reply = "ok"
          /\ radio' = IF t.configure THEN [radio EXCEPT ![t.slot] = t.key] ELSE radio
          /\ maps' = IF t.configure THEN NoteLoaded(maps, t.key, t.slot) ELSE maps
          /\ tasks' = Append(Tail(tasks), Task("blobs", t.key, t.slot, None, FALSE))
       \/ /\ t.configure /\ reply # "ok"
          /\ radio' = Written(t.slot, t.key, reply)
          /\ maps' \in {maps, IF t.evicted = None THEN maps ELSE Invalidate(maps, t.evicted)}
          /\ tasks' = Tail(tasks)
  /\ Priced(reply)
  /\ UNCHANGED <<joined, layout, aired>>

\* All blobs go out, or the radio refuses the first or a later one and the maps stay
\* as they are.
ImageBlobs ==
  /\ Holds("blobs")
  /\ LET t == Head(tasks) IN
       \/ /\ radio[t.slot] # None
          /\ OnAir(t.key, t.slot, "image")
          /\ maps' \in {NoteUsed(maps, t.key), maps}
       \/ UNCHANGED <<aired, maps>>
  /\ tasks' = Tail(tasks)
  /\ UNCHANGED <<radio, joined, layout, upsets>>

-----------------------------------------------------------------------------
(* Joining and deleting channels.                                           *)

\* upsert: a channel that is there already is pinned again, too.
Create(k) ==
  /\ joined' = joined \cup {k}
  /\ IF ResidentsOn
     THEN Enqueue(Task("pin", k, None, None, FALSE))
     ELSE UNCHANGED tasks
  /\ UNCHANGED <<radio, maps, layout, aired, upsets>>

Pin(reply) ==
  /\ Holds("pin")
  /\ LET k == Head(tasks).key IN
        \/ /\ maps.resSlot[k] # None \/ FirstFreeResidentSlot(maps) = {}
           /\ reply = "ok"
           /\ UNCHANGED <<radio, maps>>
        \/ \E s \in FirstFreeResidentSlot(maps) :
           /\ maps.resSlot[k] = None
           /\ radio' = Written(s, k, reply)
           /\ maps' = IF reply = "ok" THEN AddResident(maps, k, s) ELSE maps
  /\ tasks' = Tail(tasks)
  /\ Priced(reply)
  /\ UNCHANGED <<joined, layout, aired>>

\* The row goes and the slot is unpinned at once; the slot is cleared later.
Delete(k) ==
  /\ "delete" \in Hazards
  /\ k \in joined \ {Public}
  /\ joined' = joined \ {k}
  /\ IF ResidentsOn /\ maps.resSlot[k] # None
     THEN /\ maps' = RemoveResident(maps, k)
          /\ Enqueue(Task("clear", k, maps.resSlot[k], None, FALSE))
     ELSE UNCHANGED <<maps, tasks>>
  /\ Spend(1)
  /\ UNCHANGED <<radio, layout, aired>>

Clear(reply) ==
  /\ Holds("clear")
  /\ radio' = Written(Head(tasks).slot, None, reply)
  /\ tasks' = Tail(tasks)
  /\ Priced(reply)
  /\ UNCHANGED <<joined, maps, layout, aired>>

-----------------------------------------------------------------------------
(* The full sync: import what the slots hold, choose the resident set, write *)
(* it.  Under one hold of the lock; the rows may change in between.          *)

\* The periodic sync: it is skipped unless the lock is free.
SyncScan ==
  /\ tasks = << >>
  /\ maps' = ResetCache(maps)
  /\ joined' = joined \cup {radio[s] : s \in {t \in Slots : radio[t] # None}}
  /\ tasks' = << Task("select", None, None, None, FALSE) >>
  /\ UNCHANGED <<radio, layout, aired, upsets>>

\* select_resident_channels: Public first, the others in an order that depends on
\* favourites, activity and names; one slot is left free.
Layouts ==
  LET limit == IF Cardinality(joined) < Capacity - 1 THEN Cardinality(joined)
               ELSE Capacity - 1
  IN {f \in [Slots -> KeyOrNone] :
        /\ \A s \in Slots : IF s < limit THEN f[s] \in joined ELSE f[s] = None
        /\ \A s, t \in Slots : f[s] = f[t] /\ f[s] # None => s = t
        /\ limit > 0 /\ Public \in joined => f[0] = Public}

SyncSelect ==
  /\ Holds("select")
  /\ IF ResidentsOn THEN layout' \in Layouts ELSE layout' = NoKeys
  /\ Becomes(Task("write", None, None, None, FALSE))
  /\ UNCHANGED <<radio, joined, maps, aired, upsets>>

\* Slots already as they should be are left alone; a failed write pins nothing.  The slots
\* are written one by one, but nothing else uses the radio or reads the new residents until
\* they are installed at the end: a create or delete in between acts as one before.
SyncWrite(replies) ==
  /\ Holds("write")
  /\ LET stays(s) == radio[s] = layout[s]
         slotFor(k) == {s \in Slots : layout[s] = k /\ (stays(s) \/ replies[s] = "ok")}
     IN /\ \A s \in Slots : stays(s) => replies[s] = "ok"
        /\ radio' = [s \in Slots |-> IF replies[s] = "error" THEN radio[s] ELSE layout[s]]
        /\ maps' = SetResidents(maps, [k \in Keys |->
                      IF slotFor(k) = {} THEN None ELSE CHOOSE s \in slotFor(k) : TRUE])
  /\ tasks' = Tail(tasks)
  /\ layout' = NoKeys
  /\ Spend(Cost(replies))
  /\ UNCHANGED <<joined, aired>>

-----------------------------------------------------------------------------
(* The periodic audit, skipped when the lock is taken.                      *)

\* Slip: the audit logs the mismatch and keeps the cache.
AuditedCacheBlind(m, unread) == m

\* audit_channel_send_cache: one mismatch, or one slot it cannot read (unread),
\* resets the whole cache.
AuditedCache(m, unread) ==
  IF Reuse /\ \E k \in Cached(m) : unread \/ radio[m.slotOf[k]] # k \/ k \notin joined
  THEN ResetCache(m) ELSE m

\* audit_resident_channels: a drifted slot is rewritten, the slot of a deleted
\* channel unpinned and cleared.
Audit(replies, unread) ==
  /\ tasks = << >>
  /\ LET m == AuditedCache(maps, unread)
         orphan(s) == m.resKey[s] # None /\ m.resKey[s] \notin joined
         drifted(s) == m.resKey[s] \in joined /\ radio[s] # m.resKey[s]
     IN /\ \A s \in Slots : ~orphan(s) /\ ~drifted(s) => replies[s] = "ok"
        /\ radio' = [s \in Slots |->
                       IF replies[s] = "error" THEN radio[s]
                       ELSE IF orphan(s) THEN None
                       ELSE IF drifted(s) THEN m.resKey[s] ELSE radio[s]]
        /\ maps' = Indexes(m.lru, m.slotOf, m.keyAt,
                           [k \in Keys |-> IF k \in joined THEN m.resSlot[k] ELSE None],
                           [s \in Slots |-> IF orphan(s) THEN None ELSE m.resKey[s]])
  /\ Spend(Cost(replies))
  /\ UNCHANGED <<joined, tasks, layout, aired>>

\* External: another client of a shared radio writes a slot.
ForeignWrite(s, k) ==
  /\ "foreign" \in Hazards
  /\ ~Holds("write")
  /\ radio[s] # k
  /\ radio' = [radio EXCEPT ![s] = k]
  /\ Spend(1)
  /\ UNCHANGED <<joined, maps, tasks, layout, aired>>

-----------------------------------------------------------------------------
\* What the holder of the lock, and the periodic task, do next.
Work ==
  \/ \E reply \in Replies : TextConfigure(reply) \/ ImageLoad(reply)
                            \/ Pin(reply) \/ Clear(reply)
  \/ TextTransmit
  \/ ImageBlobs
  \/ SyncSelect
  \/ \E replies \in [Slots -> Replies] : SyncWrite(replies)

Audits == \E replies \in [Slots -> Replies], unread \in BOOLEAN : Audit(replies, unread)

Ask ==
  \/ \E k \in Keys : TextSend(k) \/ ImageSend(k) \/ AppSend(k) \/ Create(k) \/ Delete(k)
  \/ SyncScan
  \/ \E s \in Slots, k \in KeyOrNone : ForeignWrite(s, k)

Next == Work \/ Audits \/ Ask

Spec == Init /\ [][Next]_vars

\* The library answers or times out every command, so whoever holds the lock
\* finishes; the periodic task's tick does not always meet a busy radio.
FairSpec == Spec /\ WF_vars(Work) /\ SF_vars(Audits)

-----------------------------------------------------------------------------
(* Properties.                                                             *)

TypeOK ==
  /\ radio \in [Slots -> KeyOrNone]
  /\ joined \subseteq Keys
  /\ maps.slotOf \in [Keys -> SlotOrNone] /\ maps.keyAt \in [Slots -> KeyOrNone]
  /\ maps.resSlot \in [Keys -> SlotOrNone] /\ maps.resKey \in [Slots -> KeyOrNone]
  /\ tasks \in Seq(Tasks)
  /\ layout \in [Slots -> KeyOrNone]
  /\ aired \in [key: KeyOrNone, under: KeyOrNone, via: {"text", "image"}]
  /\ upsets \in 0..MaxUpsets

\* RadioManager keeps each assignment twice, by key and by slot: through every
\* load, eviction, pin, unpin, sync and audit the two indexes say the same, and
\* no slot is both pinned and scratch.
MapsAgree ==
  \A k \in Keys, s \in Slots :
    /\ maps.slotOf[k] = s <=> maps.keyAt[s] = k
    /\ maps.resSlot[k] = s <=> maps.resKey[s] = k
    /\ ~(maps.keyAt[s] # None /\ maps.resKey[s] # None)

\* One slot always stays free of residents: the branch of plan_channel_send_slot
\* that borrows a pinned slot ("should not happen") is never taken.
ScratchKept == ScratchSlots(maps) > 0

\* A channel the maps say is loaded, cached or pinned, is in that slot of the
\* radio, whatever sends, pins, syncs and audits overlapped.
Coherent ==
  \A k \in Keys, s \in Slots :
    maps.slotOf[k] = s \/ maps.resSlot[k] = s => radio[s] = k

\* A channel text is encrypted under the key of the channel it was sent to.
TextUnderOwnKey == aired.via = "text" => aired.under = aired.key

\* Once disturbances stop, the audits bring memory, radio and database together
\* again for good: known slots hold their channels, no deleted channel is pinned.
\* The audit gives way to a busy radio, so the radio must be idle time and again.
Healed == []<>(tasks = << >>) => <>[](Coherent /\ Residents(maps) \subseteq joined)

\* What load_channel_for_binary_send says of the shared planner: an image too is
\* encrypted under the key of its channel.
ImageUnderOwnKey == aired.via = "image" => aired.under = aired.key

=============================================================================
