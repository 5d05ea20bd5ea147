------------------------- MODULE ChannelSlotsProofs -------------------------
(***************************************************************************)
(* What holds of ChannelSlots for every set of channels and every number   *)
(* of slots, on every transport and whatever fails: first what             *)
(* RadioManager's operations on its slot maps return and how the queue of  *)
(* the radio lock moves, then the inductive invariant; last, that the maps *)
(* say what the radio holds, and that a channel text goes out under the    *)
(* key of its channel.                                                     *)
(***************************************************************************)
EXTENDS ChannelSlots, TLAPS, FiniteSetTheorems

\* The prover of the leaves that name none.
USE ZenonT(30)

-----------------------------------------------------------------------------
(* The maps.                                                               *)

MapsType(m) ==
  /\ m.slotOf \in [Keys -> SlotOrNone]
  /\ m.keyAt \in [Slots -> KeyOrNone]
  /\ m.resSlot \in [Keys -> SlotOrNone]
  /\ m.resKey \in [Slots -> KeyOrNone]

Agree(m) ==
  \A k \in Keys, s \in Slots :
    /\ m.slotOf[k] = s <=> m.keyAt[s] = k
    /\ m.resSlot[k] = s <=> m.resKey[s] = k
    /\ ~(m.keyAt[s] # None /\ m.resKey[s] # None)

Last == Capacity - 1

\* Well typed, in agreement, and the last slot not pinned: the scratch slot that
\* syncs and pins always leave.
Good(m) == MapsType(m) /\ Agree(m) /\ m.resKey[Last] = None

\* The maps say that channel k is loaded in slot s.
Claims(m, k, s) == m.slotOf[k] = s \/ m.resSlot[k] = s

\* Nothing is claimed in n that was not claimed in m.
Fewer(n, m) == \A k \in Keys, s \in Slots : Claims(n, k, s) => Claims(m, k, s)

\* In n channel k holds slot s, and nothing else changed but what that displaces.
Takes(n, m, k, s) ==
  \A j \in Keys, i \in Slots :
    Claims(n, j, i) => (j = k /\ i = s) \/ (Claims(m, j, i) /\ i # s)

\* None is neither a channel nor a slot.
LEMMA NoneIsNothing == None \notin Keys /\ None \notin Slots /\ Last \in Slots
BY SMT, KeysAssumption, CapacityAssumption DEF Slots, Last

\* reset_channel_send_cache leaves the maps in agreement.
LEMMA ResetGood ==
  ASSUME NEW m, Good(m)
  PROVE  Good(ResetCache(m)) /\ Fewer(ResetCache(m), m)
BY SMT, NoneIsNothing DEF Good, MapsType, Agree, Fewer, Claims, ResetCache, Indexes, NoSlots,
   NoKeys, SlotOrNone, KeyOrNone

\* invalidate_cached_channel_slot leaves the maps in agreement.
LEMMA InvalidateGood ==
  ASSUME NEW m, Good(m), NEW k \in Keys
  PROVE  Good(Invalidate(m, k)) /\ Fewer(Invalidate(m, k), m)
<1> DEFINE n == Invalidate(m, k)
<1>1. MapsType(n)
  BY DEF Good, MapsType, Invalidate, Indexes, SlotOrNone, KeyOrNone
<1>2. Agree(n)
  BY SMT, NoneIsNothing DEF Good, MapsType, Agree, Invalidate, Indexes, SlotOrNone, KeyOrNone
<1>3. Fewer(n, m)
  BY SMT, NoneIsNothing DEF Good, MapsType, Agree, Fewer, Claims, Invalidate, Indexes
<1>4. n.resKey[Last] = None
  BY DEF Good, Invalidate, Indexes
<1> QED BY <1>1, <1>2, <1>3, <1>4 DEF Good

\* remove_resident_channel leaves the maps in agreement.
LEMMA RemoveResidentGood ==
  ASSUME NEW m, Good(m), NEW k \in Keys
  PROVE  Good(RemoveResident(m, k)) /\ Fewer(RemoveResident(m, k), m)
<1> DEFINE n == RemoveResident(m, k)
<1>1. MapsType(n)
  BY DEF Good, MapsType, RemoveResident, Indexes, SlotOrNone, KeyOrNone
<1>2. Agree(n)
  BY SMT, NoneIsNothing DEF Good, MapsType, Agree, RemoveResident, Indexes, SlotOrNone, KeyOrNone
<1>3. Fewer(n, m)
  BY SMT, NoneIsNothing DEF Good, MapsType, Agree, Fewer, Claims, RemoveResident, Indexes
<1>4. n.resKey[Last] = None
  BY NoneIsNothing DEF Good, RemoveResident, Indexes
<1> QED BY <1>1, <1>2, <1>3, <1>4 DEF Good

\* add_resident_channel: the pinned channel takes the slot, alone.
LEMMA AddResidentGood ==
  ASSUME NEW m, Good(m), NEW k \in Keys, NEW s \in Slots \ {Last}
  PROVE  Good(AddResident(m, k, s)) /\ Takes(AddResident(m, k, s), m, k, s)
<1> DEFINE n == DropScratch(Pinned(m, k, s), s)
<1>1. MapsType(n)
  BY DEF Good, MapsType, DropScratch, Pinned, Indexes, SlotOrNone, KeyOrNone
<1>2. Agree(n)
  <2> DEFINE q == Pinned(m, k, s)
  <2>1. \A j \in Keys, i \in Slots : q.resSlot[j] = i <=> q.resKey[i] = j
    BY SMT, NoneIsNothing DEF Good, MapsType, Agree, Pinned, Indexes, SlotOrNone, KeyOrNone
  <2>2. /\ q.slotOf = m.slotOf /\ q.keyAt = m.keyAt
        /\ \A i \in Slots \ {s} : q.resKey[i] # None => m.resKey[i] # None
    BY NoneIsNothing DEF Good, MapsType, Agree, Pinned, Indexes, SlotOrNone, KeyOrNone
  <2> HIDE DEF q
  <2>3. /\ DropScratch(q, s).resSlot = q.resSlot /\ DropScratch(q, s).resKey = q.resKey
        /\ DropScratch(q, s).slotOf = [j \in Keys |-> IF j = m.keyAt[s] THEN None ELSE m.slotOf[j]]
        /\ DropScratch(q, s).keyAt = [m.keyAt EXCEPT ![s] = None]
    BY <2>2 DEF DropScratch, Indexes
  <2>4. \A j \in Keys, i \in Slots :
          DropScratch(q, s).slotOf[j] = i <=> DropScratch(q, s).keyAt[i] = j
    BY SMT, <2>3, NoneIsNothing DEF Good, MapsType, Agree
  <2>5. \A i \in Slots : ~(DropScratch(q, s).keyAt[i] # None /\ DropScratch(q, s).resKey[i] # None)
    BY SMTT(30), <2>2, <2>3, KeysAssumption DEF Good, MapsType, Agree
  <2> QED BY SMT, <2>1, <2>3, <2>4, <2>5 DEF q, Agree
<1>3. Takes(n, m, k, s)
  BY SMT, NoneIsNothing DEF Good, MapsType, Agree, Takes, Claims, DropScratch, Pinned, Indexes, SlotOrNone, KeyOrNone
<1>4. Good(Invalidate(n, k)) /\ Fewer(Invalidate(n, k), n)
  <2>1. n.resKey[Last] = None
    BY NoneIsNothing DEF Good, DropScratch, Pinned, Indexes
  <2> QED BY <1>1, <1>2, <2>1, InvalidateGood DEF Good
<1> QED BY <1>3, <1>4 DEF AddResident, Takes, Fewer

\* note_channel_slot_loaded: on transports that reuse slots the loaded channel
\* takes the slot, alone.
LEMMA NoteLoadedGood ==
  ASSUME NEW m, Good(m), NEW k \in Keys, NEW s \in Slots
  PROVE  /\ Good(NoteLoaded(m, k, s))
         /\ Reuse => Takes(NoteLoaded(m, k, s), m, k, s)
<1>1. CASE ~Reuse
  BY <1>1 DEF NoteLoaded
<1>2. CASE m.resKey[s] = k
  <2>1. NoteLoaded(m, k, s) = m
    BY <1>2 DEF NoteLoaded
  <2>2. Takes(m, m, k, s)
    BY SMT, <1>2, NoneIsNothing DEF Takes, Claims, Good, MapsType, Agree
  <2> QED BY <2>1, <2>2
<1>3. CASE Reuse /\ m.resKey[s] # k
  <2> DEFINE d == Displaced(m, s)
             n == Loaded(d, k, s)
  <2>1. Good(d) /\ Fewer(d, m)
    BY RemoveResidentGood DEF Displaced, Fewer, Good, MapsType, KeyOrNone
  <2>2. d.resKey[s] = None
    BY SMTT(30), NoneIsNothing DEF Displaced, RemoveResident, Indexes, Good, MapsType, Agree, KeyOrNone
  <2> HIDE DEF d
  <2>3. MapsType(n)
    BY <2>1 DEF Good, MapsType, Loaded, Indexes, SlotOrNone, KeyOrNone
  <2>4. Agree(n)
    BY SMTT(30), <2>1, <2>2, NoneIsNothing DEF Good, MapsType, Agree, Loaded, Indexes, SlotOrNone, KeyOrNone
  <2>5. Takes(n, d, k, s)
    BY SMT, <2>1, <2>2, NoneIsNothing
    DEF Good, MapsType, Agree, Takes, Claims, Loaded, Indexes, SlotOrNone, KeyOrNone
  <2>6. Takes(n, m, k, s)
    BY <2>1, <2>5 DEF Takes, Fewer
  <2>7. NoteLoaded(m, k, s) = n
    BY <1>3 DEF NoteLoaded, d
  <2>8. n.resKey[Last] = None
    BY <2>1 DEF Good, Loaded, Indexes
  <2> QED BY <2>3, <2>4, <2>6, <2>7, <2>8 DEF Good
<1> QED BY <1>1, <1>2, <1>3 DEF Good

\* note_channel_slot_used only reorders the cache.
LEMMA NoteUsedGood ==
  ASSUME NEW m, Good(m), NEW k \in Keys
  PROVE  Good(NoteUsed(m, k)) /\ Fewer(NoteUsed(m, k), m)
<1>1. CASE ~Reuse \/ m.slotOf[k] = None
  BY <1>1 DEF NoteUsed, Fewer
<1>2. CASE ~(~Reuse \/ m.slotOf[k] = None)
  <2> DEFINE n == NoteUsed(m, k)
  <2>1. n.slotOf = m.slotOf /\ n.resSlot = m.resSlot /\ n.resKey = m.resKey
    BY <1>2 DEF NoteUsed, Indexes
  <2>2. n.keyAt = [m.keyAt EXCEPT ![m.slotOf[k]] = k]
    BY <1>2 DEF NoteUsed, Indexes
  <2>3. m.slotOf[k] \in Slots
    BY <1>2 DEF Good, MapsType, SlotOrNone
  <2>4. m.keyAt[m.slotOf[k]] = k
    BY <2>3 DEF Good, Agree
  <2>5. n.keyAt = m.keyAt
    BY <2>2, <2>3, <2>4 DEF Good, MapsType
  <2> QED BY SMT, <2>1, <2>5 DEF Good, MapsType, Agree, Fewer, Claims
<1> QED BY <1>1, <1>2

\* set_resident_channels: residents are where f says, and what stays cached was
\* cached before.
LEMMA SetResidentsGood ==
  ASSUME NEW m, Good(m), NEW f \in [Keys -> SlotOrNone],
         \A j, k \in Keys : f[j] = f[k] /\ f[j] # None => j = k,
         \A k \in Keys : f[k] # Last
  PROVE  /\ Good(SetResidents(m, f))
         /\ \A k \in Keys, s \in Slots :
              Claims(SetResidents(m, f), k, s) => f[k] = s \/ m.slotOf[k] = s
<1> DEFINE n == SetResidents(m, f)
<1>0. n.resSlot = f
  BY DEF SetResidents, Indexes
<1>1. MapsType(n)
  <2>1. n.slotOf \in [Keys -> SlotOrNone]
    BY DEF Good, MapsType, SetResidents, Indexes, SlotOrNone
  <2>2. n.keyAt \in [Slots -> KeyOrNone]
    BY DEF Good, MapsType, SetResidents, Indexes, KeyOrNone
  <2>3. n.resKey \in [Slots -> KeyOrNone]
    BY DEF SetResidents, Indexes, KeyOrNone
  <2> QED BY <1>0, <2>1, <2>2, <2>3 DEF MapsType
<1>2. \A k \in Keys, s \in Slots : n.resSlot[k] = s <=> n.resKey[s] = k
  BY <1>0, NoneIsNothing DEF SetResidents, Indexes
<1>3. \A k \in Keys, s \in Slots : n.slotOf[k] = s <=> n.keyAt[s] = k
  BY SMTT(30), NoneIsNothing DEF Good, MapsType, Agree, SetResidents, Indexes, SlotOrNone, KeyOrNone
<1>4. \A s \in Slots : n.keyAt[s] # None => n.resKey[s] = None
  BY SMT, NoneIsNothing DEF Good, MapsType, Agree, SetResidents, Indexes, SlotOrNone, KeyOrNone
<1>5. \A k \in Keys, s \in Slots : n.slotOf[k] = s => m.slotOf[k] = s
  BY NoneIsNothing DEF SetResidents, Indexes
<1>6. n.resKey[Last] = None
  BY NoneIsNothing DEF SetResidents, Indexes
<1> QED BY <1>0, <1>1, <1>2, <1>3, <1>4, <1>5, <1>6 DEF Good, Agree, Claims

\* A plan of plan_channel_send_slot: a slot of the radio, maps in agreement that
\* claim no more than before, and no load skipped unless the channel is known to
\* be in that slot.
GoodPlan(p, m, k) ==
  /\ p.slot \in Slots
  /\ p.configure \in BOOLEAN
  /\ p.evicted \in KeyOrNone
  /\ Good(p.maps)
  /\ Fewer(p.maps, m) /\ p.maps.slotOf = m.slotOf
  /\ ~p.configure => Reuse /\ Claims(p.maps, k, p.slot)

LEMMA FreeSlotType ==
  ASSUME NEW m
  PROVE  FirstFreeChannelSlot(m) \subseteq Slots
BY SMT, CapacityAssumption DEF FirstFreeChannelSlot, Lowest, Slots

\* first_free_resident_slot never answers the last slot: when every other slot is
\* pinned it answers none.
LEMMA LastNeverOffered ==
  ASSUME NEW m
  PROVE  FirstFreeResidentSlot(m) \subseteq Slots \ {Last}
<1> DEFINE taken == {s \in Slots : m.resKey[s] # None}
<1>0. FirstFreeResidentSlot(m) \subseteq Slots
  BY DEF FirstFreeResidentSlot, Lowest
<1> SUFFICES ASSUME Last \in FirstFreeResidentSlot(m)
             PROVE  FALSE
  BY <1>0
<1>1. IsFiniteSet(taken)
  <2>1. IsFiniteSet(Slots)
    BY SMT, CapacityAssumption, FS_Interval DEF Slots
  <2> QED BY <2>1, FS_Subset
<1>2. 0..(Capacity - 2) \subseteq taken
  BY SMT, CapacityAssumption DEF FirstFreeResidentSlot, Lowest, Slots, Last
<1>3. Cardinality(0..(Capacity - 2)) = Capacity - 1
  BY SMT, CapacityAssumption, FS_Interval
<1>4. Cardinality(taken) >= Capacity - 1
  BY <1>1, <1>2, <1>3, FS_Subset
<1> QED BY <1>4 DEF FirstFreeResidentSlot

LEMMA PlansGood ==
  ASSUME NEW m, Good(m), NEW k \in Keys, NEW p \in Plans(m, k)
  PROVE  GoodPlan(p, m, k)
<1>0. Fewer(m, m) /\ 0 \in Slots
  BY SMT, CapacityAssumption DEF Fewer, Slots
<1>1. CASE m.resSlot[k] # None
  <2>1. p = Plan(m.resSlot[k], ~Reuse, None, m)
    BY <1>1 DEF Plans, ResidentPlan
  <2>2. p.slot = m.resSlot[k] /\ p.configure = ~Reuse /\ p.evicted = None /\ p.maps = m
    BY <2>1 DEF Plan
  <2> QED BY <1>0, <1>1, <2>2, ConfigAssumption
          DEF GoodPlan, Good, MapsType, Claims, SlotOrNone, KeyOrNone
<1>2. CASE m.resSlot[k] = None /\ ~Reuse
  <2>1. PICK s \in Slots : p = Plan(s, TRUE, None, m)
    BY <1>0, <1>2, FreeSlotType DEF Plans
  <2> QED BY <1>0, <2>1 DEF GoodPlan, Plan, KeyOrNone
<1>3. CASE m.resSlot[k] = None /\ Reuse /\ m.slotOf[k] # None
  <2>1. p = Plan(m.slotOf[k], FALSE, None, m)
    BY <1>3 DEF Plans
  <2> QED BY <1>0, <1>3, <2>1
          DEF GoodPlan, Plan, Good, MapsType, Claims, SlotOrNone, KeyOrNone
<1>4. CASE m.resSlot[k] = None /\ Reuse /\ m.slotOf[k] = None
  <2>1. CASE \E e \in Residents(m) : p = Plan(m.resSlot[e], TRUE, e, RemoveResident(m, e))
    <3>1. PICK e \in Residents(m) : p = Plan(m.resSlot[e], TRUE, e, RemoveResident(m, e))
      BY <2>1
    <3>2. e \in Keys /\ m.resSlot[e] \in Slots
      BY DEF Residents, Good, MapsType, SlotOrNone
    <3>3. Good(RemoveResident(m, e)) /\ Fewer(RemoveResident(m, e), m)
      BY <3>2, RemoveResidentGood
    <3>4. RemoveResident(m, e).slotOf = m.slotOf
      BY DEF RemoveResident, Indexes
    <3> QED BY <3>1, <3>2, <3>3, <3>4 DEF GoodPlan, Plan, KeyOrNone
  <2>2. CASE \E s \in FirstFreeChannelSlot(m) : p = Plan(s, TRUE, None, m)
    BY SMTT(30), <1>0, <2>2, FreeSlotType DEF GoodPlan, Plan, KeyOrNone
  <2>3. CASE \E e \in Cached(m) : p = Plan(m.slotOf[e], TRUE, e, m)
    BY SMT, <1>0, <2>3 DEF GoodPlan, Plan, Cached, Good, MapsType, SlotOrNone, KeyOrNone
  <2> QED BY <1>4, <2>1, <2>2, <2>3 DEF Plans
<1> QED BY <1>1, <1>2, <1>3, <1>4, ConfigAssumption

\* Dropping from the resident maps every channel that has no row any more.
Swept(m) ==
  Indexes(m.lru, m.slotOf, m.keyAt,
          [k \in Keys |-> IF k \in joined THEN m.resSlot[k] ELSE None],
          [s \in Slots |-> IF m.resKey[s] # None /\ m.resKey[s] \notin joined
                           THEN None ELSE m.resKey[s]])

LEMMA SweptGood ==
  ASSUME NEW m, Good(m)
  PROVE  Good(Swept(m)) /\ Fewer(Swept(m), m)
<1>1. MapsType(Swept(m))
  BY SMTT(30) DEF Good, MapsType, Swept, Indexes, SlotOrNone, KeyOrNone
<1>2. Agree(Swept(m))
  BY SMT, NoneIsNothing DEF Good, MapsType, Agree, Swept, Indexes, SlotOrNone, KeyOrNone
<1>3. Fewer(Swept(m), m)
  BY NoneIsNothing DEF Fewer, Claims, Swept, Indexes
<1>4. Swept(m).resKey[Last] = None
  BY NoneIsNothing DEF Good, Swept, Indexes
<1> QED BY <1>1, <1>2, <1>3, <1>4 DEF Good

-----------------------------------------------------------------------------
(* The inductive invariant.                                                *)

\* Every queued operation knows its channel and its slot, only the holder of the
\* lock is half way through a send or a sync, and only a deletion clears a slot.
Queued(t, first) ==
  /\ t.kind \notin {"select", "write"} => t.key \in Keys
  /\ t.kind \in {"load", "blobs", "transmit", "clear"} => t.slot \in Slots
  /\ ~first => t.kind \notin {"transmit", "select", "write"}
  /\ t.kind = "clear" => "delete" \in Hazards

QueueOK == \A i \in 1..Len(tasks) : Queued(tasks[i], i = 1)

\* A running sync has reset the send cache, and nothing is cached before it ends.
SyncResets == Holds("select") \/ Holds("write") => maps.slotOf = NoSlots

\* Neither the resident maps nor the layout of a running sync use the last slot.
LastFree == maps.resKey[Last] = None /\ layout[Last] = None

Inv == TypeOK /\ MapsAgree /\ QueueOK /\ SyncResets /\ LastFree

LEMMA InvGood ==
  ASSUME Inv
  PROVE  Good(maps)
BY DEF Inv, TypeOK, LastFree, MapsAgree, Good, MapsType, Agree, LastFree

\* Conversely, good maps are typed and agree.
LEMMA GoodInv ==
  ASSUME Good(maps')
  PROVE  /\ MapsAgree'
         /\ maps'.slotOf \in [Keys -> SlotOrNone] /\ maps'.keyAt \in [Slots -> KeyOrNone]
         /\ maps'.resSlot \in [Keys -> SlotOrNone] /\ maps'.resKey \in [Slots -> KeyOrNone]
         /\ layout'[Last] = None => LastFree'
BY DEF LastFree, MapsAgree, Good, MapsType, Agree

\* The holder of the lock is a well-formed operation.
LEMMA HeadQueued ==
  ASSUME tasks \in Seq(Tasks), QueueOK, tasks # << >>
  PROVE  Head(tasks) \in Tasks /\ Queued(Head(tasks), TRUE)
<1>1. Head(tasks) = tasks[1] /\ 1 \in 1..Len(tasks)
  BY SMT
<1> QED BY SMT, <1>1 DEF QueueOK, Queued

LEMMA Waiting ==
  ASSUME tasks \in Seq(Tasks), tasks # << >>
  PROVE  /\ Tail(tasks) \in Seq(Tasks)
         /\ Len(Tail(tasks)) = Len(tasks) - 1
         /\ Len(tasks) \in Nat
         /\ \A i \in 1..Len(Tail(tasks)) : Tail(tasks)[i] = tasks[i + 1]
BY SMT

\* The holder leaves: the next one has not begun a send or a sync.
LEMMA HolderLeaves ==
  ASSUME tasks \in Seq(Tasks), QueueOK, tasks # << >>, tasks' = Tail(tasks)
  PROVE  tasks' \in Seq(Tasks) /\ QueueOK' /\ SyncResets' /\ ~Holds("transmit")'
<1>1. ASSUME NEW i \in 1..Len(tasks')
      PROVE  tasks'[i] = tasks[i + 1] /\ Queued(tasks'[i], FALSE)
  <2>1. tasks'[i] = tasks[i + 1] /\ i + 1 \in 1..Len(tasks) /\ (i + 1 = 1) = FALSE
    BY SMT, Waiting
  <2> QED BY <2>1 DEF QueueOK
<1>2. QueueOK'
  BY <1>1 DEF QueueOK, Queued
<1>3. tasks' # << >> => Queued(Head(tasks'), FALSE)
  <2> SUFFICES ASSUME tasks' # << >> PROVE Queued(Head(tasks'), FALSE)
    BY ZenonT(30)
  <2>1. tasks' \in Seq(Tasks)
    BY Waiting
  <2>2. Head(tasks') = tasks'[1] /\ 1 \in 1..Len(tasks')
    BY SMT, <2>1
  <2> QED BY <1>1, <2>2
<1>4. SyncResets' /\ ~Holds("transmit")'
  BY <1>3 DEF SyncResets, Holds, Queued
<1> QED BY <1>2, <1>4, Waiting

\* The holder goes on to its next step.
LEMMA HolderSteps ==
  ASSUME tasks \in Seq(Tasks), QueueOK, tasks # << >>, NEW t \in Tasks, Queued(t, TRUE),
         tasks' = << t >> \o Tail(tasks)
  PROVE  tasks' \in Seq(Tasks) /\ QueueOK' /\ tasks' # << >> /\ Head(tasks') = t
<1>1. tasks' \in Seq(Tasks) /\ Len(tasks') = Len(tasks) /\ tasks'[1] = t
  BY SMT, Waiting
<1>2. ASSUME NEW i \in 1..Len(tasks')
      PROVE  Queued(tasks'[i], i = 1)
  <2>1. CASE i = 1
    BY <1>1, <2>1 DEF Queued
  <2>2. CASE i # 1
    <3>1. tasks'[i] = tasks[i]
      BY SMT, <1>1, <2>2
    <3> QED BY <1>1, <2>2, <3>1 DEF QueueOK
  <2> QED BY <2>1, <2>2
<1> QED BY SMT, <1>1, <1>2 DEF QueueOK

\* Another operation arrives behind the holder, or finds the lock free.
LEMMA OperationArrives ==
  ASSUME tasks \in Seq(Tasks), QueueOK, NEW t \in Tasks, Queued(t, FALSE),
         tasks' = Append(tasks, t)
  PROVE  /\ tasks' \in Seq(Tasks)
         /\ QueueOK'
         /\ \A kind \in {"select", "write", "transmit"} : Holds(kind)' => Holds(kind) /\ Head(tasks') = Head(tasks)
<1>1. QueueOK'
  BY SMT DEF QueueOK, Queued
<1>2. CASE tasks = << >>
  BY SMT, <1>1, <1>2 DEF Holds, Queued
<1>3. CASE tasks # << >>
  <2>1. Head(tasks') = Head(tasks)
    BY SMTT(30), <1>3
  <2> QED BY SMT, <1>1, <1>3, <2>1 DEF Holds
<1> QED BY <1>2, <1>3

\* The holder leaves and queues again.
LEMMA HolderReturns ==
  ASSUME tasks \in Seq(Tasks), QueueOK, tasks # << >>, NEW t \in Tasks, Queued(t, FALSE),
         tasks' = Append(Tail(tasks), t)
  PROVE  tasks' \in Seq(Tasks) /\ QueueOK' /\ SyncResets' /\ ~Holds("transmit")'
<1>1. tasks' \in Seq(Tasks) /\ Len(tasks') = Len(tasks)
  BY SMT, Waiting
<1>2. ASSUME NEW i \in 1..Len(tasks')
      PROVE  Queued(tasks'[i], FALSE)
  <2>1. CASE i = Len(tasks)
    <3>1. tasks'[i] = t
      BY SMT, <1>1, <2>1, Waiting
    <3> QED BY <3>1
  <2>2. CASE i # Len(tasks)
    <3> DEFINE rest == Tail(tasks)
    <3>0. /\ rest \in Seq(Tasks) /\ Len(rest) = Len(tasks) - 1 /\ Len(tasks) \in Nat
          /\ tasks' = Append(rest, t)
      BY Waiting
    <3>1. i \in 1..Len(rest) /\ tasks'[i] = rest[i]
      <4> HIDE DEF rest
      <4>0. i \in 1..Len(tasks)
        BY <1>1
      <4>1. i \in 1..Len(rest)
        <5> DEFINE n == Len(tasks)
        <5> HIDE DEF n
        <5> SUFFICES i \in 1..(n - 1)
          BY <3>0 DEF n
        <5>1. n \in Nat /\ i \in 1..n /\ i # n
          BY <2>2, <3>0, <4>0 DEF n
        <5> QED BY SMT, <5>1
      <4> QED BY SMTT(30), <3>0, <4>1
    <3>2. tasks'[i] = tasks[i + 1] /\ i + 1 \in 1..Len(tasks) /\ (i + 1 = 1) = FALSE
      BY SMT, <3>1, Waiting
    <3> QED BY <3>2 DEF QueueOK
  <2> QED BY <2>1, <2>2
<1>3. tasks' # << >> /\ Head(tasks') = tasks'[1] /\ 1 \in 1..Len(tasks')
  BY SMT, <1>1, Waiting
<1>4. Queued(Head(tasks'), FALSE)
  BY <1>2, <1>3
<1> QED BY <1>1, <1>2, <1>4 DEF QueueOK, Queued, SyncResets, Holds

-----------------------------------------------------------------------------
(* The invariant, one lemma per group of actions.                          *)

\* A step that leaves the maps, the queue and the layout alone.
LEMMA Untouched ==
  ASSUME Inv, maps' = maps, tasks' = tasks, layout' = layout
  PROVE  MapsAgree' /\ QueueOK' /\ SyncResets' /\ LastFree'
BY SMT DEF Inv, MapsAgree, QueueOK, SyncResets, Holds, LastFree

LEMMA InitInv == Init => Inv
<1> SUFFICES ASSUME Init PROVE Inv
  OBVIOUS
<1>1. TypeOK
  BY SMT, KeysAssumption, ConfigAssumption
  DEF Init, TypeOK, Indexes, NoSlots, NoKeys, SlotOrNone, KeyOrNone
<1>2. MapsAgree
  BY NoneIsNothing DEF Init, MapsAgree, Indexes, NoSlots, NoKeys
<1>3. QueueOK /\ SyncResets /\ LastFree
  BY SMT, NoneIsNothing DEF Init, QueueOK, SyncResets, Holds, LastFree, Indexes, NoKeys
<1> QED BY <1>1, <1>2, <1>3 DEF Inv

\* The number of failed replies is a natural number, so a bounded budget stays one.
LEMMA SpendType ==
  ASSUME upsets \in 0..MaxUpsets, NEW n \in Nat, Spend(n)
  PROVE  upsets' \in 0..MaxUpsets
BY SMT, ConfigAssumption DEF Spend

LEMMA CostType ==
  ASSUME NEW replies \in [Slots -> Replies]
  PROVE  Cost(replies) \in Nat
<1>1. IsFiniteSet(Slots)
  BY SMT, CapacityAssumption, FS_Interval DEF Slots
<1> QED BY <1>1, FS_Subset, FS_CardinalityType DEF Cost

LEMMA WrittenType ==
  ASSUME radio \in [Slots -> KeyOrNone], NEW s \in Slots, NEW k \in KeyOrNone, NEW reply
  PROVE  Written(s, k, reply) \in [Slots -> KeyOrNone]
BY DEF Written

\* Text sends preserve the invariant.
LEMMA TextInv ==
  ASSUME Inv,
         \/ \E k \in Keys : TextSend(k)
         \/ \E reply \in Replies : TextConfigure(reply)
         \/ TextTransmit
  PROVE  Inv'
<1>0. /\ Good(maps) /\ TypeOK /\ tasks \in Seq(Tasks) /\ QueueOK /\ SyncResets
      /\ LastFree
  BY InvGood DEF Inv, TypeOK
<1>1. ASSUME NEW k \in Keys, TextSend(k)
      PROVE  Inv'
  <2> DEFINE t == Task("text", k, None, None, FALSE)
  <2>1. t \in Tasks /\ Queued(t, FALSE)
    BY DEF Task, Tasks, Kinds, SlotOrNone, KeyOrNone, Queued
  <2>2. tasks' \in Seq(Tasks) /\ QueueOK'
    BY <1>0, <1>1, <2>1, OperationArrives DEF TextSend, Enqueue
  <2>3. SyncResets'
    BY <1>0, <1>1, <2>1, OperationArrives DEF TextSend, Enqueue, SyncResets
  <2> QED BY SMT, <1>1, <2>2, <2>3 DEF Inv, TypeOK, LastFree, MapsAgree, TextSend
<1>2. ASSUME NEW reply \in Replies, TextConfigure(reply)
      PROVE  Inv'
  <2> DEFINE k == Head(tasks).key
  <2>1. tasks # << >> /\ k \in Keys
    BY <1>0, <1>2, HeadQueued DEF TextConfigure, Holds, Queued
  <2>2. PICK p \in Plans(maps, k) : TextLoaded(k, p, reply) \/ TextRefused(k, p, reply)
    BY <1>2 DEF TextConfigure
  <2>3. GoodPlan(p, maps, k)
    BY <1>0, <2>1, PlansGood
  <2>4. upsets' \in 0..MaxUpsets
    BY SMT, <1>0, <1>2, SpendType DEF TextConfigure, Priced, TypeOK
  <2>5. Good(maps') /\ radio' \in [Slots -> KeyOrNone]
    <3>1. CASE TextLoaded(k, p, reply)
      BY <1>0, <2>1, <2>3, <3>1, NoteLoadedGood DEF TextLoaded, GoodPlan, TypeOK, KeyOrNone
    <3>2. CASE TextRefused(k, p, reply)
      BY SMT, <1>0, <2>1, <2>3, <3>2, InvalidateGood, WrittenType
      DEF TextRefused, GoodPlan, TypeOK, KeyOrNone
    <3> QED BY <2>2, <3>1, <3>2
  <2>6. tasks' \in Seq(Tasks) /\ QueueOK'
    <3>1. CASE TextLoaded(k, p, reply)
      <4> DEFINE t == Task("transmit", k, p.slot, None, FALSE)
      <4>1. t \in Tasks /\ Queued(t, TRUE)
        BY <2>1, <2>3 DEF Task, Tasks, Kinds, SlotOrNone, KeyOrNone, Queued, GoodPlan
      <4> QED BY <1>0, <2>1, <3>1, <4>1, HolderSteps DEF TextLoaded, Becomes
    <3>2. CASE TextRefused(k, p, reply)
      BY <1>0, <2>1, <3>2, HolderLeaves DEF TextRefused
    <3> QED BY <2>2, <3>1, <3>2
  <2>7. SyncResets'
    <3>1. CASE TextLoaded(k, p, reply)
      BY SMT, <2>1, <3>1, <1>0 DEF TextLoaded, Becomes, Task, SyncResets, Holds, TypeOK
    <3>2. CASE TextRefused(k, p, reply)
      BY <1>0, <2>1, <3>2, HolderLeaves DEF TextRefused
    <3> QED BY SMT, <2>2, <3>1, <3>2
  <2> QED BY SMTT(30), <1>0, <1>2, <2>4, <2>5, <2>6, <2>7, GoodInv DEF Inv, TypeOK, LastFree, TextConfigure
<1>3. ASSUME TextTransmit
      PROVE  Inv'
  <2> DEFINE t == Head(tasks)
  <2>1. tasks # << >> /\ t.key \in Keys /\ t.slot \in Slots
    BY <1>0, <1>3, HeadQueued DEF TextTransmit, Holds, Queued
  <2>2. Good(maps')
    BY <1>0, <1>3, <2>1, NoteUsedGood, InvalidateGood DEF TextTransmit, TextSent, TextUnsent
  <2>3. aired' \in [key: KeyOrNone, under: KeyOrNone, via: {"text", "image"}]
    BY SMT, <1>0, <1>3, <2>1 DEF TextTransmit, TextSent, TextUnsent, OnAir, TypeOK, KeyOrNone
  <2>4. tasks' \in Seq(Tasks) /\ QueueOK' /\ SyncResets'
    BY <1>0, <1>3, <2>1, HolderLeaves DEF TextTransmit
  <2> QED BY <1>0, <1>3, <2>2, <2>3, <2>4, GoodInv DEF Inv, TypeOK, LastFree, TextTransmit
<1> QED BY <1>1, <1>2, <1>3

\* Image sends preserve the invariant.
LEMMA ImageInv ==
  ASSUME Inv,
         \/ \E k \in Keys : ImageSend(k) \/ AppSend(k)
         \/ \E reply \in Replies : ImageLoad(reply)
         \/ ImageBlobs
  PROVE  Inv'
<1>0. /\ Good(maps) /\ TypeOK /\ tasks \in Seq(Tasks) /\ QueueOK /\ SyncResets
      /\ LastFree
  BY InvGood DEF Inv, TypeOK
<1>1. ASSUME NEW k \in Keys, ImageSend(k)
      PROVE  Inv'
  <2>1. PICK p \in Plans(maps, k) :
          Enqueue(Task("load", k, p.slot, p.evicted, p.configure)) /\ maps' = p.maps
    BY <1>1 DEF ImageSend
  <2>2. GoodPlan(p, maps, k)
    BY <1>0, PlansGood
  <2> DEFINE t == Task("load", k, p.slot, p.evicted, p.configure)
  <2>3. t \in Tasks /\ Queued(t, FALSE)
    BY <2>2 DEF Task, Tasks, Kinds, SlotOrNone, KeyOrNone, Queued, GoodPlan
  <2>4. tasks' \in Seq(Tasks) /\ QueueOK'
    BY <1>0, <2>1, <2>3, OperationArrives DEF Enqueue
  <2>5. SyncResets'
    BY <1>0, <2>1, <2>2, <2>3, OperationArrives DEF Enqueue, SyncResets, GoodPlan
  <2> QED BY <1>0, <1>1, <2>1, <2>2, <2>4, <2>5, GoodInv DEF Inv, TypeOK, LastFree, ImageSend, GoodPlan
<1>2. ASSUME NEW k \in Keys, AppSend(k)
      PROVE  Inv'
  <2> DEFINE t == Task("blobs", k, KnownSlot(maps, k), None, FALSE)
  <2>1. t \in Tasks /\ Queued(t, FALSE)
    BY <1>0, <1>2
    DEF AppSend, KnownSlot, Good, MapsType, Task, Tasks, Kinds, SlotOrNone, KeyOrNone, Queued
  <2>2. tasks' \in Seq(Tasks) /\ QueueOK' /\ SyncResets'
    BY <1>0, <1>2, <2>1, OperationArrives DEF AppSend, Enqueue, SyncResets
  <2> QED BY SMT, <1>2, <2>2 DEF Inv, TypeOK, LastFree, MapsAgree, AppSend
<1>3. ASSUME NEW reply \in Replies, ImageLoad(reply)
      PROVE  Inv'
  <2> DEFINE h == Head(tasks)
             t == Task("blobs", h.key, h.slot, None, FALSE)
  <2>1. tasks # << >> /\ h.key \in Keys /\ h.slot \in Slots /\ h.evicted \in KeyOrNone
    BY <1>0, <1>3, HeadQueued DEF ImageLoad, Holds, Queued, Tasks
  <2>2. t \in Tasks /\ Queued(t, FALSE)
    BY <2>1 DEF Task, Tasks, Kinds, SlotOrNone, KeyOrNone, Queued
  <2>3. upsets' \in 0..MaxUpsets
    BY <1>0, <1>3, SpendType DEF ImageLoad, Priced, TypeOK
  <2>4. radio' \in [Slots -> KeyOrNone]
    <3>1. radio' \in {radio, [radio EXCEPT ![h.slot] = h.key]}
      BY <1>3 DEF ImageLoad, Written
    <3> QED BY <1>0, <2>1, <3>1 DEF TypeOK, KeyOrNone
  <2>5. Good(maps')
    <3>1. \/ maps' = maps \/ maps' = NoteLoaded(maps, h.key, h.slot)
          \/ h.evicted # None /\ maps' = Invalidate(maps, h.evicted)
      BY <1>3 DEF ImageLoad
    <3> QED BY <1>0, <2>1, <3>1, NoteLoadedGood, InvalidateGood DEF KeyOrNone
  <2>6. tasks' \in Seq(Tasks) /\ QueueOK' /\ SyncResets'
    BY <1>0, <1>3, <2>1, <2>2, HolderLeaves, HolderReturns DEF ImageLoad
  <2> QED BY <1>0, <1>3, <2>3, <2>4, <2>5, <2>6, GoodInv DEF Inv, TypeOK, LastFree, ImageLoad
<1>4. ASSUME ImageBlobs
      PROVE  Inv'
  <2> DEFINE h == Head(tasks)
  <2>1. tasks # << >> /\ h.key \in Keys /\ h.slot \in Slots
    BY <1>0, <1>4, HeadQueued DEF ImageBlobs, Holds, Queued
  <2>2. Good(maps')
    BY <1>0, <1>4, <2>1, NoteUsedGood DEF ImageBlobs
  <2>3. aired' \in [key: KeyOrNone, under: KeyOrNone, via: {"text", "image"}]
    BY SMTT(30), <1>0, <1>4, <2>1 DEF ImageBlobs, OnAir, TypeOK, KeyOrNone
  <2>4. tasks' \in Seq(Tasks) /\ QueueOK' /\ SyncResets'
    BY <1>0, <1>4, <2>1, HolderLeaves DEF ImageBlobs
  <2> QED BY SMTT(30), <1>0, <1>4, <2>2, <2>3, <2>4, GoodInv DEF Inv, TypeOK, LastFree, ImageBlobs
<1> QED BY <1>1, <1>2, <1>3, <1>4

\* Joining and deleting channels preserves the invariant.
LEMMA ChannelInv ==
  ASSUME Inv,
         \/ \E k \in Keys : Create(k) \/ Delete(k)
         \/ \E reply \in Replies : Pin(reply) \/ Clear(reply)
  PROVE  Inv'
<1>0. /\ Good(maps) /\ TypeOK /\ tasks \in Seq(Tasks) /\ QueueOK /\ SyncResets
      /\ LastFree
  BY InvGood DEF Inv, TypeOK
<1>1. ASSUME NEW k \in Keys, Create(k)
      PROVE  Inv'
  <2> DEFINE t == Task("pin", k, None, None, FALSE)
  <2>1. t \in Tasks /\ Queued(t, FALSE)
    BY DEF Task, Tasks, Kinds, SlotOrNone, KeyOrNone, Queued
  <2>2. tasks' \in Seq(Tasks) /\ QueueOK' /\ SyncResets'
    <3>1. CASE tasks' = tasks
      BY <1>0, <1>1, <3>1 DEF Create, QueueOK, SyncResets, Holds
    <3>2. CASE tasks' = Append(tasks, t)
      BY <1>0, <1>1, <2>1, <3>2, OperationArrives DEF Create, SyncResets
    <3> QED BY <1>1, <3>1, <3>2 DEF Create, Enqueue
  <2> QED BY SMT, <1>0, <1>1, <2>2 DEF Inv, TypeOK, LastFree, MapsAgree, Create
<1>2. ASSUME NEW k \in Keys, Delete(k)
      PROVE  Inv'
  <2>1. CASE ResidentsOn /\ maps.resSlot[k] # None
    <3> DEFINE t == Task("clear", k, maps.resSlot[k], None, FALSE)
    <3>1. t \in Tasks /\ Queued(t, FALSE)
      BY <1>0, <1>2, <2>1
      DEF Delete, Task, Tasks, Kinds, SlotOrNone, KeyOrNone, Queued, Good, MapsType
    <3>2. maps' = RemoveResident(maps, k) /\ tasks' = Append(tasks, t)
      BY <1>2, <2>1 DEF Delete, Enqueue
    <3>3. maps'.slotOf = maps.slotOf
      BY <3>2 DEF RemoveResident, Indexes
    <3>4. tasks' \in Seq(Tasks) /\ QueueOK' /\ SyncResets'
      BY <1>0, <3>1, <3>2, <3>3, OperationArrives DEF SyncResets
    <3>5. Good(maps')
      BY <1>0, <3>2, RemoveResidentGood
    <3> QED BY SMTT(30), <1>0, <1>2, <3>4, <3>5, GoodInv, SpendType DEF Inv, TypeOK, LastFree, Delete
  <2>2. CASE ~(ResidentsOn /\ maps.resSlot[k] # None)
    <3>1. maps' = maps /\ tasks' = tasks
      BY <1>2, <2>2 DEF Delete
    <3>2. MapsAgree' /\ QueueOK' /\ SyncResets' /\ LastFree'
      BY <1>2, <3>1, Untouched DEF Delete
    <3> QED BY <1>0, <1>2, <3>1, <3>2, SpendType DEF Inv, TypeOK, Delete
  <2> QED BY <2>1, <2>2
<1>3. ASSUME NEW reply \in Replies, Pin(reply)
      PROVE  Inv'
  <2> DEFINE k == Head(tasks).key
  <2>1. tasks # << >> /\ k \in Keys
    BY <1>0, <1>3, HeadQueued DEF Pin, Holds, Queued
  <2>2. Good(maps') /\ radio' \in [Slots -> KeyOrNone]
    <3>1. radio \in [Slots -> KeyOrNone] /\ k \in KeyOrNone
      BY <1>0, <2>1 DEF TypeOK, KeyOrNone
    <3> HIDE DEF k
    <3>2. CASE maps' = maps /\ radio' = radio
      BY <1>0, <3>1, <3>2
    <3>3. CASE \E s \in FirstFreeResidentSlot(maps) :
                 /\ radio' = Written(s, k, reply)
                 /\ maps' = IF reply = "ok" THEN AddResident(maps, k, s) ELSE maps
      <4>1. PICK s \in Slots \ {Last} :
                   /\ radio' = Written(s, k, reply)
                   /\ maps' = IF reply = "ok" THEN AddResident(maps, k, s) ELSE maps
        BY <3>3, LastNeverOffered
      <4>2. Good(AddResident(maps, k, s))
        BY <1>0, <2>1, AddResidentGood
      <4> QED BY <1>0, <3>1, <4>1, <4>2, WrittenType
    <3> QED BY <1>3, <3>2, <3>3 DEF Pin, k
  <2>3. tasks' \in Seq(Tasks) /\ QueueOK' /\ SyncResets'
    BY <1>0, <1>3, <2>1, HolderLeaves DEF Pin
  <2>4. upsets' \in 0..MaxUpsets
    BY <1>0, <1>3, SpendType DEF Pin, Priced, TypeOK
  <2> QED BY <1>0, <1>3, <2>2, <2>3, <2>4, GoodInv DEF Inv, TypeOK, LastFree, Pin
<1>4. ASSUME NEW reply \in Replies, Clear(reply)
      PROVE  Inv'
  <2>1. tasks # << >> /\ Head(tasks).slot \in Slots
    BY <1>0, <1>4, HeadQueued DEF Clear, Holds, Queued
  <2>2. radio' \in [Slots -> KeyOrNone]
    BY <1>0, <1>4, <2>1, WrittenType DEF Clear, TypeOK, KeyOrNone
  <2>3. tasks' \in Seq(Tasks) /\ QueueOK' /\ SyncResets'
    BY <1>0, <1>4, <2>1, HolderLeaves DEF Clear
  <2>4. upsets' \in 0..MaxUpsets
    BY <1>0, <1>4, SpendType DEF Clear, Priced, TypeOK
  <2> QED BY SMTT(30), <1>0, <1>4, <2>2, <2>3, <2>4 DEF Inv, TypeOK, LastFree, MapsAgree, Clear
<1> QED BY <1>1, <1>2, <1>3, <1>4

\* The full sync: where each channel ends up pinned.
SyncSlots(k, replies) ==
  {s \in Slots : layout[s] = k /\ (radio[s] = layout[s] \/ replies[s] = "ok")}

SyncResidents(replies) ==
  [k \in Keys |-> IF SyncSlots(k, replies) = {} THEN None
                  ELSE CHOOSE s \in SyncSlots(k, replies) : TRUE]

LEMMA SyncResidentsType ==
  ASSUME NEW replies, layout[Last] = None
  PROVE  /\ SyncResidents(replies) \in [Keys -> SlotOrNone]
         /\ \A k \in Keys : SyncResidents(replies)[k] # None =>
              SyncResidents(replies)[k] \in SyncSlots(k, replies)
         /\ \A j, k \in Keys : SyncResidents(replies)[j] = SyncResidents(replies)[k]
                               /\ SyncResidents(replies)[j] # None => j = k
         /\ \A k \in Keys : SyncResidents(replies)[k] # Last
<1> DEFINE f == SyncResidents(replies)
<1>1. ASSUME NEW k \in Keys, f[k] # None
      PROVE  f[k] \in SyncSlots(k, replies)
  BY <1>1 DEF SyncResidents
<1>2. ASSUME NEW k \in Keys
      PROVE  f[k] \in SlotOrNone
  BY <1>1 DEF SyncSlots, SlotOrNone
<1>3. f \in [Keys -> SlotOrNone]
  BY <1>2 DEF SyncResidents
<1>4. ASSUME NEW j \in Keys, NEW k \in Keys, f[j] = f[k], f[j] # None
      PROVE  j = k
  BY SMT, <1>1, <1>4 DEF SyncSlots
<1>5. ASSUME NEW k \in Keys, f[k] = Last
      PROVE  FALSE
  BY <1>1, <1>5, NoneIsNothing DEF SyncSlots
<1> QED BY <1>1, <1>3, <1>4, <1>5

\* select_resident_channels leaves the last slot free.
LEMMA LayoutsLeaveLast ==
  ASSUME TypeOK
  PROVE  \A f \in Layouts : f \in [Slots -> KeyOrNone] /\ f[Last] = None
<1>1. Cardinality(joined) \in Nat
  BY KeysAssumption, FS_Subset, FS_CardinalityType DEF TypeOK
<1> QED BY SMTT(30), <1>1, CapacityAssumption DEF Layouts, Slots, Last

\* The full sync preserves the invariant.
LEMMA SyncInv ==
  ASSUME Inv,
         \/ SyncScan \/ SyncSelect
         \/ \E replies \in [Slots -> Replies] : SyncWrite(replies)
  PROVE  Inv'
<1>0. /\ Good(maps) /\ TypeOK /\ tasks \in Seq(Tasks) /\ QueueOK /\ SyncResets
      /\ LastFree
  BY InvGood DEF Inv, TypeOK
<1>1. ASSUME SyncScan
      PROVE  Inv'
  <2> DEFINE t == Task("select", None, None, None, FALSE)
  <2>1. t \in Tasks /\ Queued(t, TRUE)
    BY DEF Task, Tasks, Kinds, SlotOrNone, KeyOrNone, Queued
  <2>2. tasks' = << t >>
    BY <1>1 DEF SyncScan
  <2> HIDE DEF t
  <2>3. tasks' \in Seq(Tasks) /\ QueueOK'
    BY SMT, <2>1, <2>2 DEF QueueOK, Queued
  <2>4. Good(maps') /\ maps'.slotOf = NoSlots
    BY <1>0, <1>1, ResetGood DEF SyncScan, ResetCache, Indexes
  <2>5. joined' \subseteq Keys
    BY SMTT(30), <1>0, <1>1 DEF SyncScan, TypeOK, KeyOrNone
  <2> QED BY <1>0, <1>1, <2>3, <2>4, <2>5, GoodInv DEF Inv, TypeOK, LastFree, SyncScan, SyncResets
<1>2. ASSUME SyncSelect
      PROVE  Inv'
  <2> DEFINE t == Task("write", None, None, None, FALSE)
  <2>1. t \in Tasks /\ Queued(t, TRUE)
    BY DEF Task, Tasks, Kinds, SlotOrNone, KeyOrNone, Queued
  <2>2. tasks # << >> /\ maps.slotOf = NoSlots /\ maps' = maps
    BY <1>0, <1>2 DEF SyncSelect, Holds, SyncResets
  <2>3. tasks' \in Seq(Tasks) /\ QueueOK'
    BY <1>0, <1>2, <2>1, <2>2, HolderSteps DEF SyncSelect, Becomes
  <2>4. SyncResets'
    BY <2>2 DEF SyncResets, NoSlots
  <2>5. layout' \in [Slots -> KeyOrNone] /\ layout'[Last] = None
    BY <1>0, <1>2, LayoutsLeaveLast, NoneIsNothing DEF SyncSelect, NoKeys, KeyOrNone
  <2> QED BY SMTT(30), <1>0, <1>2, <2>3, <2>4, <2>5 DEF Inv, TypeOK, LastFree, MapsAgree, SyncSelect
<1>3. ASSUME NEW replies \in [Slots -> Replies], SyncWrite(replies)
      PROVE  Inv'
  <2>1. tasks # << >> /\ tasks' = Tail(tasks)
    BY <1>3 DEF SyncWrite, Holds
  <2>2. maps' = SetResidents(maps, SyncResidents(replies))
    BY <1>3 DEF SyncWrite, SyncResidents, SyncSlots
  <2>3. Good(maps')
    BY <1>0, <2>2, SyncResidentsType, SetResidentsGood DEF LastFree
  <2>4. /\ radio' \in [Slots -> KeyOrNone] /\ layout' \in [Slots -> KeyOrNone]
        /\ layout'[Last] = None
    BY <1>0, <1>3, NoneIsNothing DEF SyncWrite, TypeOK, NoKeys, KeyOrNone
  <2>5. upsets' \in 0..MaxUpsets
    BY <1>0, <1>3, SpendType, CostType DEF SyncWrite, TypeOK
  <2>6. tasks' \in Seq(Tasks) /\ QueueOK' /\ SyncResets'
    BY <1>0, <2>1, HolderLeaves
  <2> QED BY <1>0, <1>3, <2>3, <2>4, <2>5, <2>6, GoodInv DEF Inv, TypeOK, LastFree, SyncWrite
<1> QED BY <1>1, <1>2, <1>3

\* The audit, and another client of the radio, preserve the invariant.
LEMMA OutsideInv ==
  ASSUME Inv,
         \/ \E replies \in [Slots -> Replies], unread \in BOOLEAN : Audit(replies, unread)
         \/ \E s \in Slots, k \in KeyOrNone : ForeignWrite(s, k)
         \/ UNCHANGED vars
  PROVE  Inv'
<1>0. /\ Good(maps) /\ TypeOK /\ tasks \in Seq(Tasks) /\ QueueOK /\ SyncResets
      /\ LastFree
  BY InvGood DEF Inv, TypeOK
<1>1. ASSUME NEW replies \in [Slots -> Replies], NEW unread \in BOOLEAN,
             Audit(replies, unread)
      PROVE  Inv'
  <2> DEFINE m == AuditedCache(maps, unread)
  <2>1. Good(m)
    BY <1>0, ResetGood DEF AuditedCache
  <2>2. maps' = Swept(m)
    BY <1>1 DEF Audit, Swept
  <2>3. Good(maps')
    BY <2>1, <2>2, SweptGood
  <2>4. radio' \in [Slots -> KeyOrNone]
    <3> HIDE DEF m
    <3>1. \A s \in Slots : radio[s] \in KeyOrNone /\ m.resKey[s] \in KeyOrNone
      BY <1>0, <2>1 DEF TypeOK, Good, MapsType
    <3> QED BY <1>1, <3>1 DEF Audit, m, KeyOrNone
  <2>5. upsets' \in 0..MaxUpsets
    BY <1>0, <1>1, SpendType, CostType DEF Audit, TypeOK
  <2>6. QueueOK' /\ SyncResets'
    <3>1. tasks = << >> /\ tasks' = << >>
      BY <1>1 DEF Audit
    <3> QED BY SMTT(30), <3>1 DEF QueueOK, SyncResets, Holds
  <2> QED BY <1>0, <1>1, <2>3, <2>4, <2>5, <2>6, GoodInv DEF Inv, TypeOK, LastFree, Audit
<1>2. ASSUME NEW s \in Slots, NEW k \in KeyOrNone, ForeignWrite(s, k)
      PROVE  Inv'
  <2>1. upsets' \in 0..MaxUpsets
    BY <1>0, <1>2, SpendType DEF ForeignWrite, TypeOK
  <2>2. MapsAgree' /\ QueueOK' /\ SyncResets' /\ LastFree'
    BY <1>2, Untouched DEF ForeignWrite
  <2> QED BY <1>0, <1>2, <2>1, <2>2 DEF Inv, TypeOK, ForeignWrite
<1>3. ASSUME UNCHANGED vars
      PROVE  Inv'
  BY <1>3, Untouched DEF Inv, TypeOK, vars
<1> QED BY <1>1, <1>2, <1>3

LEMMA NextInv == Inv /\ [Next]_vars => Inv'
BY SMT, TextInv, ImageInv, ChannelInv, SyncInv, OutsideInv DEF Next, Work, Audits, Ask

LEMMA Invariant == Spec => []Inv
BY InitInv, NextInv, PTL DEF Spec

\* The slot bookkeeping and the lock queue are well typed through any number of
\* sends, pins, syncs and audits.
THEOREM SlotsTypeCorrect == Spec => []TypeOK
<1>1. Inv => TypeOK
  BY DEF Inv
<1> QED BY <1>1, Invariant, PTL

\* RadioManager's by-key and by-slot dictionaries never disagree, and no slot is
\* both pinned and scratch, on any transport and whatever fails.
THEOREM SlotMapsAgree == Spec => []MapsAgree
<1>1. Inv => MapsAgree
  BY DEF Inv
<1> QED BY <1>1, Invariant, PTL

\* However many channels are pinned, by syncs and one by one, a scratch slot is
\* left: plan_channel_send_slot never has to borrow a pinned slot.
THEOREM ScratchSlotKept == Spec => []ScratchKept
<1>1. Inv => ScratchKept
  <2> DEFINE taken == {s \in Slots : maps.resKey[s] # None}
  <2> SUFFICES ASSUME LastFree PROVE ScratchKept
    BY DEF Inv
  <2>1. taken \subseteq 0..(Capacity - 2)
    BY SMT, CapacityAssumption DEF LastFree, Slots, Last
  <2>2. IsFiniteSet(0..(Capacity - 2)) /\ Cardinality(0..(Capacity - 2)) = Capacity - 1
    BY SMT, CapacityAssumption, FS_Interval
  <2>3. Cardinality(taken) <= Capacity - 1 /\ Cardinality(taken) \in Nat
    BY <2>1, <2>2, FS_Subset, FS_CardinalityType
  <2> QED BY SMT, <2>3, CapacityAssumption DEF ScratchKept, ScratchSlots
<1> QED BY <1>1, Invariant, PTL

-----------------------------------------------------------------------------
(* Where slots are reused and no channel is deleted, no reply lost and no   *)
(* other client at work, the maps are never wrong.                          *)

\* Writing the slot a channel takes keeps the maps right.
LEMMA TakesCoherent ==
  ASSUME NEW m, NEW n, NEW k \in Keys, NEW s \in Slots, Takes(n, m, k, s),
         radio \in [Slots -> KeyOrNone],
         \A j \in Keys, i \in Slots : Claims(m, j, i) => radio[i] = j
  PROVE  \A j \in Keys, i \in Slots : Claims(n, j, i) => [radio EXCEPT ![s] = k][i] = j
BY DEF Takes

\* Without lost replies a write happened exactly when the radio said so.
LEMMA NoReplyLost ==
  ASSUME Hazards = {}
  PROVE  Replies = {"ok", "error"}
BY DEF Replies

LEMMA CoherentText ==
  ASSUME Reuse, Hazards = {}, Inv, Coherent,
         \/ \E k \in Keys : TextSend(k)
         \/ \E reply \in Replies : TextConfigure(reply)
         \/ TextTransmit
  PROVE  Coherent'
<1>0. /\ Good(maps) /\ TypeOK /\ tasks \in Seq(Tasks) /\ QueueOK
      /\ \A j \in Keys, i \in Slots : Claims(maps, j, i) => radio[i] = j
  BY InvGood DEF Inv, TypeOK, Coherent, Claims
<1>1. ASSUME NEW k \in Keys, TextSend(k)
      PROVE  Coherent'
  BY <1>1 DEF TextSend, Coherent
<1>2. ASSUME NEW reply \in Replies, TextConfigure(reply)
      PROVE  Coherent'
  <2> DEFINE k == Head(tasks).key
  <2>1. k \in Keys
    BY <1>0, <1>2, HeadQueued DEF TextConfigure, Holds, Queued
  <2>2. PICK p \in Plans(maps, k) : TextLoaded(k, p, reply) \/ TextRefused(k, p, reply)
    BY <1>2 DEF TextConfigure
  <2>3. GoodPlan(p, maps, k)
    BY <1>0, <2>1, PlansGood
  <2>4. \A j \in Keys, i \in Slots : Claims(p.maps, j, i) => radio[i] = j
    BY <1>0, <2>3 DEF GoodPlan, Fewer
  <2> HIDE DEF k
  <2>5. CASE TextLoaded(k, p, reply) /\ p.configure
    <3>1. maps' = NoteLoaded(p.maps, k, p.slot) /\ radio' = [radio EXCEPT ![p.slot] = k]
      BY <2>5 DEF TextLoaded
    <3>2. Takes(maps', p.maps, k, p.slot) /\ p.slot \in Slots
      BY <2>1, <2>3, <3>1, NoteLoadedGood DEF GoodPlan
    <3>3. \A j \in Keys, i \in Slots : Claims(maps', j, i) => radio'[i] = j
      BY SMTT(30), <1>0, <2>1, <2>4, <3>1, <3>2, TakesCoherent DEF TypeOK
    <3> QED BY <3>3 DEF Coherent, Claims
  <2>6. CASE TextLoaded(k, p, reply) /\ ~p.configure
    BY <2>4, <2>6 DEF TextLoaded, Coherent, Claims
  <2>7. CASE TextRefused(k, p, reply)
    <3>1. radio' = radio
      BY <2>7, NoReplyLost DEF TextRefused, Written
    <3>2. Fewer(maps', p.maps)
      BY <2>3, <2>7, InvalidateGood DEF TextRefused, GoodPlan, KeyOrNone, Fewer
    <3> QED BY <2>4, <3>1, <3>2 DEF Coherent, Fewer, Claims
  <2> QED BY <2>2, <2>5, <2>6, <2>7
<1>3. ASSUME TextTransmit
      PROVE  Coherent'
  <2>1. Head(tasks).key \in Keys /\ radio' = radio
    BY <1>0, <1>3, HeadQueued DEF TextTransmit, Holds, Queued
  <2>2. Fewer(maps', maps)
    BY SMTT(30), <1>0, <1>3, <2>1, NoteUsedGood, InvalidateGood
    DEF TextTransmit, TextSent, TextUnsent, Fewer
  <2> QED BY <1>0, <2>1, <2>2 DEF Coherent, Fewer, Claims
<1> QED BY <1>1, <1>2, <1>3

LEMMA CoherentImage ==
  ASSUME Reuse, Hazards = {}, Inv, Coherent,
         \/ \E k \in Keys : ImageSend(k) \/ AppSend(k)
         \/ \E reply \in Replies : ImageLoad(reply)
         \/ ImageBlobs
  PROVE  Coherent'
<1>0. /\ Good(maps) /\ TypeOK /\ tasks \in Seq(Tasks) /\ QueueOK
      /\ \A j \in Keys, i \in Slots : Claims(maps, j, i) => radio[i] = j
  BY InvGood DEF Inv, TypeOK, Coherent, Claims
<1>1. ASSUME NEW k \in Keys, ImageSend(k)
      PROVE  Coherent'
  <2>1. PICK p \in Plans(maps, k) : maps' = p.maps /\ radio' = radio
    BY <1>1 DEF ImageSend
  <2>2. GoodPlan(p, maps, k)
    BY <1>0, PlansGood
  <2> QED BY SMT, <1>0, <2>1, <2>2 DEF GoodPlan, Fewer, Claims, Coherent
<1>2. ASSUME NEW k \in Keys, AppSend(k)
      PROVE  Coherent'
  BY <1>2 DEF AppSend, Coherent
<1>3. ASSUME NEW reply \in Replies, ImageLoad(reply)
      PROVE  Coherent'
  <2> DEFINE h == Head(tasks)
  <2>1. h.key \in Keys /\ h.slot \in Slots /\ h.evicted \in KeyOrNone
    <3>1. h \in Tasks /\ Queued(h, TRUE) /\ h.kind = "load"
      BY <1>0, <1>3, HeadQueued DEF ImageLoad, Holds
    <3> HIDE DEF h
    <3> QED BY SMTT(30), <3>1 DEF Queued, Tasks
  <2>2. CASE reply = "ok" /\ h.configure
    <3>1. maps' = NoteLoaded(maps, h.key, h.slot) /\ radio' = [radio EXCEPT ![h.slot] = h.key]
      BY SMT, <1>3, <2>2 DEF ImageLoad
    <3> HIDE DEF h
    <3>2. Takes(maps', maps, h.key, h.slot)
      BY SMTT(30), <1>0, <2>1, <3>1, NoteLoadedGood
    <3>3. \A j \in Keys, i \in Slots : Claims(maps', j, i) => radio'[i] = j
      BY SMTT(30), <1>0, <2>1, <3>1, <3>2, TakesCoherent DEF TypeOK
    <3> QED BY <3>3 DEF Coherent, Claims
  <2>3. CASE reply = "ok" /\ ~h.configure
    <3>1. maps' = maps /\ radio' = radio
      BY <1>3, <2>3 DEF ImageLoad
    <3> QED BY <3>1 DEF Coherent
  <2>4. CASE reply # "ok"
    <3>1. radio' = radio /\ maps' \in {maps, Invalidate(maps, h.evicted)}
          /\ (maps' # maps => h.evicted # None)
      BY <1>3, <2>4, NoReplyLost DEF ImageLoad, Written
    <3>2. Fewer(maps', maps)
      BY SMT, <1>0, <2>1, <3>1, InvalidateGood DEF KeyOrNone, Fewer
    <3> QED BY <1>0, <3>1, <3>2 DEF Coherent, Fewer, Claims
  <2> QED BY SMTT(30), <2>2, <2>3, <2>4
<1>4. ASSUME ImageBlobs
      PROVE  Coherent'
  <2>1. Head(tasks).key \in Keys /\ radio' = radio
    BY <1>0, <1>4, HeadQueued DEF ImageBlobs, Holds, Queued
  <2>2. Fewer(maps', maps)
    BY SMTT(30), <1>0, <1>4, <2>1, NoteUsedGood DEF ImageBlobs, Fewer
  <2> QED BY <1>0, <2>1, <2>2 DEF Coherent, Fewer, Claims
<1> QED BY <1>1, <1>2, <1>3, <1>4

\* A channel that is not pinned is pinned into a slot the radio acknowledged; no
\* channel is deleted, so no slot is ever cleared behind the maps.
LEMMA CoherentChannel ==
  ASSUME Reuse, Hazards = {}, Inv, Coherent,
         \/ \E k \in Keys : Create(k) \/ Delete(k)
         \/ \E reply \in Replies : Pin(reply) \/ Clear(reply)
  PROVE  Coherent'
<1>0. /\ Good(maps) /\ TypeOK /\ tasks \in Seq(Tasks) /\ QueueOK
      /\ \A j \in Keys, i \in Slots : Claims(maps, j, i) => radio[i] = j
  BY InvGood DEF Inv, TypeOK, Coherent, Claims
<1>1. ASSUME NEW k \in Keys, Create(k)
      PROVE  Coherent'
  BY <1>1 DEF Create, Coherent
<1>2. ASSUME NEW reply \in Replies, Pin(reply)
      PROVE  Coherent'
  <2> DEFINE k == Head(tasks).key
  <2>1. k \in Keys
    BY <1>0, <1>2, HeadQueued DEF Pin, Holds, Queued
  <2>2. CASE UNCHANGED <<radio, maps>>
    BY <2>2 DEF Coherent
  <2>3. CASE \E s \in FirstFreeResidentSlot(maps) :
               /\ radio' = Written(s, k, reply)
               /\ maps' = IF reply = "ok" THEN AddResident(maps, k, s) ELSE maps
    <3>1. PICK s \in Slots \ {Last} :
                             /\ radio' = Written(s, k, reply)
                             /\ maps' = IF reply = "ok" THEN AddResident(maps, k, s) ELSE maps
      BY <2>3, LastNeverOffered
    <3> HIDE DEF k
    <3>2. CASE reply = "ok"
      <4>1. maps' = AddResident(maps, k, s) /\ radio' = [radio EXCEPT ![s] = k]
        BY <3>1, <3>2 DEF Written
      <4>2. Takes(maps', maps, k, s)
        BY SMTT(30), <1>0, <2>1, <4>1, AddResidentGood
      <4>3. \A j \in Keys, i \in Slots : Claims(maps', j, i) => radio'[i] = j
        BY SMTT(30), <1>0, <2>1, <4>1, <4>2, TakesCoherent DEF TypeOK
      <4> QED BY <4>3 DEF Coherent, Claims
    <3>3. CASE reply # "ok"
      BY SMT, <3>1, <3>3, NoReplyLost DEF Written, Coherent
    <3> QED BY <3>2, <3>3
  <2> QED BY <1>2, <2>2, <2>3 DEF Pin
<1>3. ~Holds("clear")
  BY <1>0, HeadQueued DEF Holds, Queued
<1> QED BY <1>1, <1>2, <1>3 DEF Delete, Clear

LEMMA CoherentSync ==
  ASSUME Reuse, Hazards = {}, Inv, Coherent,
         \/ SyncScan \/ SyncSelect
         \/ \E replies \in [Slots -> Replies] : SyncWrite(replies)
  PROVE  Coherent'
<1>0. /\ Good(maps) /\ TypeOK /\ SyncResets /\ layout[Last] = None
      /\ \A j \in Keys, i \in Slots : Claims(maps, j, i) => radio[i] = j
  BY InvGood DEF Inv, Coherent, Claims, LastFree
<1>1. CASE SyncScan
  <2>1. Fewer(maps', maps) /\ radio' = radio
    BY <1>0, <1>1, ResetGood DEF SyncScan
  <2> QED BY <1>0, <2>1 DEF Fewer, Claims, Coherent
<1>2. CASE SyncSelect
  BY <1>2 DEF SyncSelect, Coherent
<1>3. ASSUME NEW replies \in [Slots -> Replies], SyncWrite(replies)
      PROVE  Coherent'
  <2> DEFINE f == SyncResidents(replies)
  <2>1. maps' = SetResidents(maps, f)
    BY <1>3 DEF SyncWrite, SyncResidents, SyncSlots
  <2>2. maps.slotOf = NoSlots
    BY <1>0, <1>3 DEF SyncWrite, SyncResets
  <2>3. \A s \in Slots : radio'[s] = IF replies[s] = "error" THEN radio[s] ELSE layout[s]
    BY <1>3 DEF SyncWrite
  <2>4. \A k \in Keys, s \in Slots : f[k] = s => s \in SyncSlots(k, replies)
    BY SMTT(30), <1>0, SyncResidentsType, NoneIsNothing
  <2>5. \A k \in Keys, s \in Slots : f[k] = s => radio'[s] = k
    BY <2>3, <2>4 DEF SyncSlots
  <2>6. \A k \in Keys, s \in Slots : Claims(maps', k, s) => f[k] = s \/ maps.slotOf[k] = s
    BY SMTT(30), <1>0, <2>1, SyncResidentsType, SetResidentsGood
  <2> QED BY SMTT(30), <2>2, <2>5, <2>6, NoneIsNothing DEF NoSlots, Claims, Coherent
<1> QED BY <1>1, <1>2, <1>3

\* The audit rewrites only slots that are pinned, and a pinned slot is not cached.
LEMMA CoherentAudit ==
  ASSUME Inv, Coherent, NEW replies, NEW unread \in BOOLEAN, Audit(replies, unread)
  PROVE  Coherent'
<1> DEFINE m == AuditedCache(maps, unread)
<1>0. Good(maps) /\ \A j \in Keys, i \in Slots : Claims(maps, j, i) => radio[i] = j
  BY InvGood DEF Coherent, Claims
<1>1. Good(m) /\ Fewer(m, maps)
  BY <1>0, ResetGood DEF AuditedCache, Fewer
<1>2. maps' = Swept(m)
  BY DEF Audit, Swept
<1>3. Fewer(maps', m)
  BY <1>1, <1>2, SweptGood
<1>4. \A s \in Slots : radio'[s] = IF replies[s] = "error" THEN radio[s]
                                   ELSE IF m.resKey[s] # None /\ m.resKey[s] \notin joined THEN None
                                   ELSE IF m.resKey[s] \in joined /\ radio[s] # m.resKey[s]
                                   THEN m.resKey[s] ELSE radio[s]
  BY DEF Audit
<1> HIDE DEF m
<1>5. ASSUME NEW k \in Keys, NEW s \in Slots, Claims(maps', k, s)
      PROVE  radio'[s] = k
  <2>1. Claims(m, k, s) /\ radio[s] = k
    BY <1>0, <1>1, <1>3, <1>5 DEF Fewer
  <2>2. m.resKey[s] = k => k \in joined
    <3>1. CASE m.resKey[s] = k
      <4>1. m.resSlot[k] = s /\ m.keyAt[s] = None
        BY <1>1, <3>1, NoneIsNothing DEF Good, Agree
      <4>2. m.slotOf[k] # s
        BY SMTT(30), <1>1, <4>1, NoneIsNothing DEF Good, Agree
      <4> QED BY <1>2, <1>5, <4>2, NoneIsNothing DEF Swept, Indexes, Claims
    <3> QED BY <3>1
  <2>3. m.resKey[s] = k \/ m.resKey[s] = None
    BY SMTT(30), <1>1, <2>1, NoneIsNothing DEF Good, Agree, Claims, MapsType
  <2>4. CASE m.resKey[s] = k
    BY <1>4, <2>1, <2>2, <2>4, NoneIsNothing
  <2>5. CASE m.resKey[s] = None
    <3>1. radio'[s] \in {radio[s], m.resKey[s]}
      BY <1>4, <2>5
    <3>2. None \notin joined
      BY NoneIsNothing DEF Inv, TypeOK
    <3> QED BY <1>4, <2>1, <2>5, <3>2
  <2> QED BY <2>3, <2>4, <2>5
<1> QED BY <1>5 DEF Coherent, Claims

LEMMA CoherentNext ==
  ASSUME Reuse, Hazards = {}, Inv, Coherent, [Next]_vars
  PROVE  Coherent'
<1>1. CASE UNCHANGED vars
  BY <1>1 DEF vars, Coherent
<1>2. ~\E s \in Slots, k \in KeyOrNone : ForeignWrite(s, k)
  BY DEF ForeignWrite
<1>3. CASE Next
  BY SMTT(30), <1>2, <1>3, CoherentText, CoherentImage, CoherentChannel, CoherentSync, CoherentAudit
  DEF Next, Work, Audits, Ask
<1> QED BY <1>1, <1>3

\* On a transport that reuses slots, while no channel is deleted, no reply lost and
\* nobody else writes the radio, every cached or pinned channel is in its slot,
\* however sends, pins, syncs, audits and failed writes interleave.
THEOREM KnownSlotsCoherent ==
  ASSUME Reuse, Hazards = {}
  PROVE  Spec => []Coherent
<1>1. Init => Coherent
  BY SMT, NoneIsNothing DEF Init, Coherent, Indexes, NoSlots
<1>2. Inv /\ Coherent /\ [Next]_vars => Coherent'
  BY CoherentNext
<1> QED BY <1>1, <1>2, Invariant, PTL DEF Spec

-----------------------------------------------------------------------------
(* Texts.                                                                  *)

\* Between the load and the transmission of a text its slot holds its channel.
SlotReady == Holds("transmit") => radio[Head(tasks).slot] = Head(tasks).key

\* A plan that skips the load is made only where the maps can be trusted.
Trusted == Reuse => Coherent

LEMMA SlotReadyNext ==
  ASSUME "foreign" \notin Hazards, Inv, Trusted, SlotReady, [Next]_vars
  PROVE  SlotReady'
<1>0. Good(maps) /\ TypeOK /\ tasks \in Seq(Tasks) /\ QueueOK
  BY InvGood DEF Inv, TypeOK
<1>1. CASE tasks' = tasks /\ radio' = radio
  BY <1>1 DEF SlotReady, Holds
<1>2. ASSUME NEW t \in Tasks, Queued(t, FALSE), tasks' = Append(tasks, t), radio' = radio
      PROVE  SlotReady'
  BY <1>0, <1>2, OperationArrives DEF SlotReady
<1>3. ASSUME tasks # << >>, tasks' = Tail(tasks)
      PROVE  SlotReady'
  BY <1>0, <1>3, HolderLeaves DEF SlotReady
<1>4. ASSUME NEW k \in Keys, TextSend(k) \/ ImageSend(k) \/ AppSend(k) \/ Create(k) \/ Delete(k)
      PROVE  SlotReady'
  <2>1. CASE tasks' = tasks
    BY <1>1, <1>4, <2>1 DEF TextSend, ImageSend, AppSend, Create, Delete
  <2>2. CASE tasks = << >>
    <3>1. tasks' = tasks \/ \E t \in {u \in Tasks : u.kind # "transmit"} : tasks' = << t >>
      <4>1. TypeOK' /\ QueueOK'
        BY <1>4, NextInv DEF Inv, Next, Ask
      <4>2. \A t : Append(<< >>, t) = << t >>
        BY SMT
      <4>3. ASSUME NEW kind \in Kinds \ {"transmit"}, NEW slot, NEW evicted, NEW configure,
                   tasks' = << Task(kind, k, slot, evicted, configure) >>
            PROVE  \E t \in {u \in Tasks : u.kind # "transmit"} : tasks' = << t >>
        <5> DEFINE t == Task(kind, k, slot, evicted, configure)
        <5>1. t = tasks'[1] /\ 1 \in 1..Len(tasks')
          BY SMT, <4>3
        <5>2. t \in Tasks
          BY SMT, <4>1, <5>1 DEF TypeOK
        <5>3. t.kind # "transmit"
          BY <4>3 DEF Task
        <5> QED BY <4>3, <5>2, <5>3
      <4> QED BY <1>4, <2>2, <4>2, <4>3
              DEF TextSend, ImageSend, AppSend, Create, Delete, Enqueue, Kinds
    <3> QED BY SMT, <2>1, <3>1 DEF SlotReady, Holds
  <2>3. CASE tasks # << >>
    <3>1. radio' = radio /\ (tasks' = tasks \/ \E t : tasks' = Append(tasks, t))
      BY <1>4 DEF TextSend, ImageSend, AppSend, Create, Delete, Enqueue
    <3>2. tasks' # << >> /\ Head(tasks') = Head(tasks)
      BY SMT, <1>0, <2>3, <3>1
    <3> QED BY <2>3, <3>1, <3>2 DEF SlotReady, Holds
  <2> QED BY <2>2, <2>3
<1>5. ASSUME NEW reply \in Replies, TextConfigure(reply)
      PROVE  SlotReady'
  <2> DEFINE k == Head(tasks).key
  <2>1. tasks # << >> /\ k \in Keys
    BY <1>0, <1>5, HeadQueued DEF TextConfigure, Holds, Queued
  <2>2. PICK p \in Plans(maps, k) : TextLoaded(k, p, reply) \/ TextRefused(k, p, reply)
    BY <1>5 DEF TextConfigure
  <2>3. GoodPlan(p, maps, k)
    BY <1>0, <2>1, PlansGood
  <2>4. CASE TextLoaded(k, p, reply)
    <3> DEFINE t == Task("transmit", k, p.slot, None, FALSE)
    <3>1. t \in Tasks /\ Queued(t, TRUE) /\ t.key = k /\ t.slot = p.slot
      BY <2>1, <2>3 DEF Task, Tasks, Kinds, SlotOrNone, KeyOrNone, Queued, GoodPlan
    <3>2. Head(tasks') = t
      BY <1>0, <2>1, <2>4, <3>1, HolderSteps DEF TextLoaded, Becomes
    <3>3. radio'[p.slot] = k
      <4>1. CASE p.configure
        BY <1>0, <2>3, <2>4, <4>1 DEF TextLoaded, GoodPlan, TypeOK
      <4>2. CASE ~p.configure
        <5>1. radio' = radio /\ Reuse /\ Claims(maps, k, p.slot) /\ p.slot \in Slots
          BY <2>1, <2>3, <2>4, <4>2 DEF TextLoaded, GoodPlan, Fewer
        <5> QED BY <2>1, <5>1 DEF Trusted, Coherent, Claims
      <4> QED BY <4>1, <4>2
    <3> QED BY <3>1, <3>2, <3>3 DEF SlotReady
  <2>5. CASE TextRefused(k, p, reply)
    BY <1>3, <2>1, <2>5 DEF TextRefused
  <2> QED BY SMT, <2>2, <2>4, <2>5
<1>6. ASSUME NEW reply \in Replies, ImageLoad(reply)
      PROVE  SlotReady'
  <2> DEFINE h == Head(tasks)
             t == Task("blobs", h.key, h.slot, None, FALSE)
  <2>1. tasks # << >> /\ h.key \in Keys /\ h.slot \in Slots
    BY <1>0, <1>6, HeadQueued DEF ImageLoad, Holds, Queued
  <2>2. t \in Tasks /\ Queued(t, FALSE)
    BY <2>1 DEF Task, Tasks, Kinds, SlotOrNone, KeyOrNone, Queued
  <2> QED BY <1>0, <1>3, <1>6, <2>1, <2>2, HolderReturns DEF ImageLoad, SlotReady
<1>7. ASSUME NEW reply \in Replies, Pin(reply) \/ Clear(reply)
      PROVE  SlotReady'
  BY <1>3, <1>7 DEF Pin, Clear, Holds
<1>8. ASSUME NEW replies, SyncWrite(replies)
      PROVE  SlotReady'
  BY <1>3, <1>8 DEF SyncWrite, Holds
<1>9. CASE TextTransmit \/ ImageBlobs
  BY <1>3, <1>9 DEF TextTransmit, ImageBlobs, Holds
<1>10. CASE SyncScan
  BY SMT, <1>10 DEF SyncScan, SlotReady, Holds, Task
<1>11. CASE SyncSelect
  <2> DEFINE t == Task("write", None, None, None, FALSE)
  <2>1. t \in Tasks /\ Queued(t, TRUE) /\ t.kind = "write"
    BY DEF Task, Tasks, Kinds, SlotOrNone, KeyOrNone, Queued
  <2>2. Head(tasks') = t
    BY <1>0, <1>11, <2>1, HolderSteps DEF SyncSelect, Becomes, Holds
  <2> QED BY <2>1, <2>2 DEF SlotReady, Holds
<1>12. ASSUME NEW replies, NEW unread, Audit(replies, unread)
       PROVE  SlotReady'
  BY <1>12 DEF Audit, SlotReady, Holds
<1>13. ~\E s \in Slots, k \in KeyOrNone : ForeignWrite(s, k)
  BY DEF ForeignWrite
<1> QED BY <1>1, <1>4, <1>5, <1>6, <1>7, <1>8, <1>9, <1>10, <1>11, <1>12, <1>13
        DEF Next, Work, Audits, Ask, vars

\* A channel text is encrypted under the key of its channel: always on TCP, where
\* every send reloads its slot, as long as nobody else writes the radio; on other
\* transports where the maps are coherent.
THEOREM TextsUnderOwnKey ==
  ASSUME "foreign" \notin Hazards, Reuse => Hazards = {}
  PROVE  Spec => []TextUnderOwnKey
<1>1. Init => SlotReady /\ TextUnderOwnKey /\ Trusted
  BY SMT, NoneIsNothing DEF Init, SlotReady, Holds, TextUnderOwnKey, Trusted, Coherent, Indexes, NoSlots
<1>2. Inv /\ Trusted /\ SlotReady /\ [Next]_vars => SlotReady'
  BY SlotReadyNext
<1>3. Inv /\ Trusted /\ [Next]_vars => Trusted'
  BY CoherentNext DEF Trusted
<1>4. SlotReady /\ TextUnderOwnKey /\ [Next]_vars => TextUnderOwnKey'
  <2> SUFFICES ASSUME SlotReady, TextUnderOwnKey, [Next]_vars PROVE TextUnderOwnKey'
    OBVIOUS
  <2>1. CASE aired' = aired
    BY <2>1 DEF TextUnderOwnKey
  <2>2. CASE TextTransmit
    <3> DEFINE t == Head(tasks)
    <3>1. radio[t.slot] = t.key
      BY <2>2 DEF TextTransmit, SlotReady
    <3>2. TextSent(t) \/ aired' = aired
      BY <2>2 DEF TextTransmit, TextUnsent
    <3>3. ASSUME TextSent(t) PROVE TextUnderOwnKey'
      <4>1. aired' = [key |-> t.key, under |-> radio[t.slot], via |-> "text"]
        BY <3>3 DEF TextSent, OnAir
      <4> QED BY <3>1, <4>1 DEF TextUnderOwnKey
    <3> HIDE DEF t
    <3> QED BY <2>1, <3>2, <3>3
  <2>3. CASE ImageBlobs
    <3> DEFINE t == Head(tasks)
    <3>1. aired' = aired \/ OnAir(t.key, t.slot, "image")
      BY <2>3 DEF ImageBlobs
    <3>2. ASSUME OnAir(t.key, t.slot, "image") PROVE TextUnderOwnKey'
      BY <3>2 DEF OnAir, TextUnderOwnKey
    <3> HIDE DEF t
    <3> QED BY <2>1, <3>1, <3>2
  <2> QED BY <2>1, <2>2, <2>3
          DEF Next, Work, Audits, Ask, vars, TextConfigure, ImageLoad, Pin, Clear, SyncSelect,
              SyncWrite, Audit, TextSend, ImageSend, AppSend, Create, Delete, SyncScan, ForeignWrite
<1> QED BY <1>1, <1>2, <1>3, <1>4, Invariant, PTL DEF Spec

=============================================================================
