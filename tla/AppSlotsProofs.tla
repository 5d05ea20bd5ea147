---------------------------- MODULE AppSlotsProofs ---------------------------
(***************************************************************************)
(* Proofs about AppSlots for any keys, tasks and table size: a key has one *)
(* slot, a slot keeps its meaning, and the table is in the database.       *)
(***************************************************************************)
EXTENDS AppSlots, TLAPS, FiniteSetTheorems, WellFoundedInduction

Entries == Keys \cup {None}

IsTable(slots) == slots \in Seq(Entries) /\ Len(slots) <= MaxSlots

OneEach(slots) ==
  \A i, j \in DOMAIN slots : slots[i] = slots[j] /\ slots[i] # None => i = j

-----------------------------------------------------------------------------
(* Sequences and numbers, as far as they are needed.                       *)

LEMMA SeqDomain ==
  ASSUME NEW S, NEW q \in Seq(S)
  PROVE  DOMAIN q = 1..Len(q) /\ Len(q) \in Nat /\ \A k \in DOMAIN q : q[k] \in S
OBVIOUS

LEMMA SeqIsFunction ==
  ASSUME NEW S, NEW q \in Seq(S)
  PROVE  q \in [1..Len(q) -> S]
OBVIOUS

LEMMA SeqFunction ==
  ASSUME NEW S, NEW n \in Nat, NEW q \in [1..n -> S]
  PROVE  q \in Seq(S) /\ Len(q) = n
OBVIOUS

LEMMA SeqAppend ==
  ASSUME NEW S, NEW q \in Seq(S), NEW e \in S
  PROVE  /\ Append(q, e) \in Seq(S) /\ Len(Append(q, e)) = Len(q) + 1
         /\ DOMAIN Append(q, e) = 1..(Len(q) + 1)
         /\ \A k \in 1..(Len(q) + 1) : Append(q, e)[k] = IF k = Len(q) + 1 THEN e ELSE q[k]
OBVIOUS

LEMMA SeqReplace ==
  ASSUME NEW S, NEW q \in Seq(S), NEW k \in DOMAIN q, NEW e \in S
  PROVE  /\ [q EXCEPT ![k] = e] \in Seq(S) /\ Len([q EXCEPT ![k] = e]) = Len(q)
         /\ DOMAIN [q EXCEPT ![k] = e] = DOMAIN q
         /\ \A i \in DOMAIN q : [q EXCEPT ![k] = e][i] = IF i = k THEN e ELSE q[i]
OBVIOUS

LEMMA SlotsFacts ==
  /\ MaxSlots \in Nat /\ MaxSlots >= 1 /\ Slots = 1..MaxSlots
  /\ Public \in Keys /\ None \notin Keys /\ Public # None
  /\ \A x \in Slots : x \in Nat
BY SlotsAssumption DEF Slots

LEMMA TableFacts ==
  ASSUME NEW slots, IsTable(slots)
  PROVE  /\ DOMAIN slots = 1..Len(slots) /\ Len(slots) \in Nat /\ Len(slots) <= MaxSlots
         /\ DOMAIN slots \subseteq Slots /\ \A i \in DOMAIN slots : slots[i] \in Entries
<1>1. DOMAIN slots = 1..Len(slots) /\ Len(slots) \in Nat /\ Len(slots) <= MaxSlots
      /\ \A i \in DOMAIN slots : slots[i] \in Entries
  BY Zenon, SeqDomain DEF IsTable
<1>2. 1..Len(slots) \subseteq Slots
  BY <1>1, SlotsFacts
<1> QED BY Zenon, <1>1, <1>2

\* A function on 1..n is a table.
LEMMA MakesTable ==
  ASSUME NEW n \in Nat, n <= MaxSlots, NEW f \in [1..n -> Entries]
  PROVE  IsTable(f) /\ DOMAIN f = 1..n /\ Len(f) = n
BY Zenon, SeqFunction DEF IsTable

\* A key of the table is found, at its first slot.
LEMMA AtFinds ==
  ASSUME NEW slots, IsTable(slots), NEW key, NEW k \in DOMAIN slots, slots[k] = key
  PROVE  At(slots, key) \in DOMAIN slots /\ slots[At(slots, key)] = key
<1> DEFINE S == {i \in DOMAIN slots : slots[i] = key}
<1>1. S \subseteq Nat /\ S # {}
  BY TableFacts
<1>2. PICK x \in S : \A y \in S : ~(<<y, x>> \in OpToRel(<, Nat))
  BY Zenon, <1>1, NatLessThanWellFounded, WFMin
<1>3. \A y \in S : ~(y < x)
  BY Zenon, <1>1, <1>2 DEF OpToRel
<1>4. \A j \in 1..x - 1 : slots[j] # key
  BY <1>1, <1>3, TableFacts
<1>5. \E i \in DOMAIN slots : slots[i] = key /\ \A j \in 1..i - 1 : slots[j] # key
  BY Zenon, <1>4
<1> QED BY Zenon, <1>5 DEF At

-----------------------------------------------------------------------------
(* The table against the channel store.                                    *)

\* slots holds only channels, each once.
Clean(slots) ==
  /\ IsTable(slots) /\ OneEach(slots)
  /\ \A i \in DOMAIN slots : slots[i] # None => slots[i] \in channels

\* In to, every slot of from but the first still holds its channel, the public one apart.
Kept(from, to) ==
  \A i \in DOMAIN from \ {1} : from[i] \in channels \ {Public} =>
    i \in DOMAIN to /\ to[i] = from[i]

\* The public channel is in no slot but the first.
PublicApart(slots) == \A i \in DOMAIN slots \ {1} : slots[i] # Public

LEMMA BlankedClean ==
  ASSUME channels \subseteq Keys, NEW slots, IsTable(slots), OneEach(slots)
  PROVE  Clean(Blanked(slots)) /\ Kept(slots, Blanked(slots))
<1> DEFINE b == Blanked(slots)
<1>1. DOMAIN slots = 1..Len(slots) /\ Len(slots) \in Nat /\ Len(slots) <= MaxSlots
  BY Zenon, TableFacts
<1>2. b = [i \in DOMAIN slots |-> IF slots[i] \in channels THEN slots[i] ELSE None]
  BY Zenon DEF Blanked
<1> HIDE DEF b
<1>3. b \in [1..Len(slots) -> Entries]
  BY Zenon, <1>1, <1>2 DEF Entries
<1>4. IsTable(b) /\ DOMAIN b = DOMAIN slots
  BY Zenon, <1>1, <1>3, MakesTable
<1>5. \A i \in DOMAIN slots : b[i] = IF slots[i] \in channels THEN slots[i] ELSE None
  BY Zenon, <1>2
<1>6. OneEach(b)
  BY Zenon, <1>4, <1>5 DEF OneEach
<1>7. Clean(b)
  BY Zenon, <1>4, <1>5, <1>6 DEF Clean
<1>8. Kept(slots, b)
  BY Zenon, <1>4, <1>5 DEF Kept
<1> QED BY Zenon, <1>7, <1>8 DEF b

\* Two slots change hands: the first takes the public channel, slot k what was there.
LEMMA Swap ==
  ASSUME NEW slots, Clean(slots), NEW k \in DOMAIN slots, k # 1, slots[1] # Public,
         Public \in channels, channels \subseteq Keys,
         \/ slots[k] = Public
         \/ slots[k] = None /\ \A i \in DOMAIN slots : slots[i] # Public,
         NEW to, to = [[slots EXCEPT ![1] = Public] EXCEPT ![k] = slots[1]]
  PROVE  Clean(to) /\ Kept(slots, to) /\ to # <<>> /\ to[1] = Public
<1>1. /\ DOMAIN slots = 1..Len(slots) /\ Len(slots) \in Nat /\ Len(slots) <= MaxSlots
      /\ \A i \in DOMAIN slots : slots[i] \in Entries
  BY Zenon, TableFacts DEF Clean
<1>2. 1 \in DOMAIN slots
  BY <1>1
<1>3. slots \in [1..Len(slots) -> Entries] /\ Public \in Entries
  BY Zenon, SlotsFacts, SeqIsFunction DEF Clean, IsTable, Entries
<1>4. to \in [1..Len(slots) -> Entries]
  BY Zenon, <1>1, <1>2, <1>3
<1>5. IsTable(to) /\ DOMAIN to = DOMAIN slots /\ Len(to) = Len(slots)
  BY Zenon, <1>1, <1>4, MakesTable
<1>6. \A i \in DOMAIN slots : to[i] = IF i = k THEN slots[1] ELSE IF i = 1 THEN Public ELSE slots[i]
  BY Zenon, <1>1, <1>2
<1>7. to[1] = Public /\ to[k] = slots[1] /\ \A i \in DOMAIN slots \ {1, k} : to[i] = slots[i]
  BY Zenon, <1>2, <1>6
<1>8. \A i \in DOMAIN slots \ {1, k} : slots[i] # Public
  BY Zenon, SlotsFacts DEF Clean, OneEach
<1>9. OneEach(to)
  <2> SUFFICES ASSUME NEW i \in DOMAIN slots, NEW j \in DOMAIN slots, to[i] = to[j], to[i] # None
               PROVE  i = j
    BY ZenonT(30), <1>5 DEF OneEach
  <2>1. CASE i = 1 \/ j = 1
    BY Zenon, <1>2, <1>7, <1>8, <2>1
  <2>2. CASE i # 1 /\ j # 1
    <3>1. CASE i = k /\ j # k
      BY Zenon, <1>2, <1>7, <2>2, <3>1 DEF Clean, OneEach
    <3>2. CASE j = k /\ i # k
      BY Zenon, <1>2, <1>7, <2>2, <3>2 DEF Clean, OneEach
    <3>3. CASE i # k /\ j # k
      BY Zenon, <1>7, <2>2, <3>3 DEF Clean, OneEach
    <3> QED BY Zenon, <3>1, <3>2, <3>3
  <2> QED BY Zenon, <2>1, <2>2
<1>10. Clean(to)
  BY Zenon, <1>2, <1>5, <1>6, <1>9 DEF Clean
<1>11. Kept(slots, to)
  BY Zenon, <1>5, <1>7, SlotsAssumption DEF Kept
<1>12. to # <<>>
  BY <1>2, <1>5
<1> QED BY Zenon, <1>7, <1>10, <1>11, <1>12

\* The public channel takes the place of what was first, which is dropped.
LEMMA Seat ==
  ASSUME NEW slots, Clean(slots), slots # <<>>, \A i \in DOMAIN slots : slots[i] # Public,
         Public \in channels, NEW to, to = [slots EXCEPT ![1] = Public]
  PROVE  /\ Clean(to) /\ Kept(slots, to) /\ to # <<>> /\ to[1] = Public
         /\ Len(to) = Len(slots) /\ \A i \in DOMAIN to \ {1} : to[i] = slots[i]
<1>1. /\ DOMAIN slots = 1..Len(slots) /\ Len(slots) \in Nat /\ Len(slots) <= MaxSlots
  BY Zenon, TableFacts DEF Clean
<1>2. slots \in Seq(Entries) /\ Public \in Entries
  BY Zenon, SlotsFacts DEF Clean, IsTable, Entries
<1>3. Len(slots) # 0
  BY <1>2
<1>4. 1 \in DOMAIN slots
  BY <1>1, <1>3
<1>5. /\ to \in Seq(Entries) /\ Len(to) = Len(slots) /\ DOMAIN to = DOMAIN slots
      /\ \A i \in DOMAIN slots : to[i] = IF i = 1 THEN Public ELSE slots[i]
  <2> DEFINE new == [slots EXCEPT ![1] = Public]
  <2>1. /\ new \in Seq(Entries) /\ Len(new) = Len(slots) /\ DOMAIN new = DOMAIN slots
        /\ \A i \in DOMAIN slots : new[i] = IF i = 1 THEN Public ELSE slots[i]
    BY SMT, <1>2, <1>4
  <2>2. to = new
    BY Zenon
  <2> QED BY Zenon, <2>1, <2>2
<1>6. OneEach(to)
  BY Zenon, <1>5 DEF Clean, OneEach
<1>7. Clean(to)
  BY Zenon, <1>1, <1>5, <1>6 DEF Clean, IsTable
<1>8. Kept(slots, to)
  BY Zenon, <1>5 DEF Kept
<1>9. to # <<>>
  BY <1>4, <1>5
<1> QED BY Zenon, <1>4, <1>5, <1>7, <1>8, <1>9

Longer(slots, to) ==
  /\ Clean(to) /\ to # <<>> /\ to[1] = slots[1]
  /\ \A i \in DOMAIN slots : i \in DOMAIN to /\ to[i] = slots[i]

\* A channel that is in no slot is appended.
LEMMA Grow ==
  ASSUME NEW slots, Clean(slots), Len(slots) < MaxSlots, slots # <<>>, NEW key \in channels,
         channels \subseteq Keys, \A i \in DOMAIN slots : slots[i] # key,
         NEW to, to = Append(slots, key)
  PROVE  Longer(slots, to)
<1>1. /\ DOMAIN slots = 1..Len(slots) /\ Len(slots) \in Nat
      /\ slots \in Seq(Entries) /\ key \in Entries
  BY Zenon, TableFacts DEF Clean, IsTable, Entries
<1>2. /\ to \in Seq(Entries) /\ Len(to) = Len(slots) + 1 /\ DOMAIN to = 1..(Len(slots) + 1)
      /\ \A k \in 1..(Len(slots) + 1) : to[k] = IF k = Len(slots) + 1 THEN key ELSE slots[k]
  <2>1. /\ Append(slots, key) \in Seq(Entries) /\ Len(Append(slots, key)) = Len(slots) + 1
        /\ DOMAIN Append(slots, key) = 1..(Len(slots) + 1)
        /\ \A k \in 1..(Len(slots) + 1) :
             Append(slots, key)[k] = IF k = Len(slots) + 1 THEN key ELSE slots[k]
    BY SMT, <1>1
  <2> QED BY Zenon, <2>1
<1>3. Len(slots) # 0
  BY <1>1
<1>4. /\ 1 \in DOMAIN slots /\ DOMAIN to = DOMAIN slots \cup {Len(slots) + 1}
      /\ Len(slots) + 1 \notin DOMAIN slots /\ Len(to) <= MaxSlots
  BY <1>1, <1>2, <1>3, SlotsFacts
<1>5. to[Len(slots) + 1] = key /\ \A i \in DOMAIN slots : to[i] = slots[i]
  BY Zenon, <1>2, <1>4
<1>6. OneEach(to)
  <2> SUFFICES ASSUME NEW i \in DOMAIN to, NEW j \in DOMAIN to, to[i] = to[j], to[i] # None
               PROVE  i = j
    BY Zenon DEF OneEach
  <2>1. CASE i \in DOMAIN slots /\ j \in DOMAIN slots
    BY Zenon, <1>5, <2>1 DEF Clean, OneEach
  <2>2. CASE i \notin DOMAIN slots /\ j \in DOMAIN slots
    BY Zenon, <1>4, <1>5, <2>2
  <2>3. CASE i \in DOMAIN slots /\ j \notin DOMAIN slots
    BY Zenon, <1>4, <1>5, <2>3
  <2>4. CASE i \notin DOMAIN slots /\ j \notin DOMAIN slots
    BY Zenon, <1>4, <2>4
  <2> QED BY Zenon, <2>1, <2>2, <2>3, <2>4
<1>7. Clean(to)
  BY Zenon, <1>2, <1>4, <1>5, <1>6 DEF Clean, IsTable
<1>8. to # <<>>
  BY <1>1, <1>2
<1> QED BY Zenon, <1>4, <1>5, <1>7, <1>8 DEF Longer

\* _pin_public_channel_slot keeps every channel but the displaced one where it is.
LEMMA PinnedClean ==
  ASSUME channels \subseteq Keys, NEW slots, Clean(slots)
  PROVE  /\ Clean(Pinned(slots)) /\ Kept(slots, Pinned(slots))
         /\ Public \in channels => Pinned(slots) # <<>> /\ Pinned(slots)[1] = Public
<1>1. CASE Public \notin channels \/ (slots # <<>> /\ slots[1] = Public)
  <2>1. Pinned(slots) = slots
    BY Zenon, <1>1 DEF Pinned
  <2> QED BY Zenon, <1>1, <2>1 DEF Kept
<1>2. CASE Public \in channels /\ slots = <<>>
  <2>1. Pinned(slots) = <<Public>>
    BY Zenon, <1>2 DEF Pinned
  <2>2. IsTable(<<Public>>) /\ DOMAIN <<Public>> = {1} /\ <<Public>>[1] = Public
        /\ DOMAIN slots = {} /\ <<Public>> # <<>>
    BY <1>2, SlotsFacts DEF IsTable, Entries
  <2>3. OneEach(<<Public>>)
    BY Zenon, <2>2 DEF OneEach
  <2>4. Clean(<<Public>>)
    BY Zenon, <1>2, <2>2, <2>3 DEF Clean
  <2>5. Kept(slots, <<Public>>)
    BY Zenon, <2>2 DEF Kept
  <2> QED BY Zenon, <2>1, <2>2, <2>4, <2>5
<1>3. CASE Public \in channels /\ slots # <<>> /\ slots[1] # Public
  <2> DEFINE seated == [slots EXCEPT ![1] = Public]
  <2>1. /\ DOMAIN slots = 1..Len(slots) /\ Len(slots) \in Nat /\ slots[1] \in Entries
        /\ 1 \in DOMAIN slots
    <3>1. DOMAIN slots = 1..Len(slots) /\ Len(slots) \in Nat /\ slots \in Seq(Entries)
      BY Zenon, TableFacts DEF Clean, IsTable
    <3>2. Len(slots) # 0
      BY <1>3, <3>1
    <3>3. 1 \in DOMAIN slots
      BY <3>1, <3>2
    <3> QED BY Zenon, <3>1, <3>3, SeqDomain
  <2>2. CASE Public \in Held(slots)
    <3>1. At(slots, Public) \in DOMAIN slots /\ slots[At(slots, Public)] = Public
      BY Zenon, <2>2, AtFinds DEF Held, Clean
    <3>2. Pinned(slots) = [seated EXCEPT ![At(slots, Public)] = slots[1]]
      BY Zenon, <1>3, <2>2 DEF Pinned
    <3>3. At(slots, Public) # 1
      BY Zenon, <1>3, <3>1
    <3> QED BY Zenon, <1>3, <3>1, <3>2, <3>3, Swap
  <2>3. CASE Public \notin Held(slots)
    <3>1. \A i \in DOMAIN slots : slots[i] # Public
      BY Zenon, <2>3, SlotsFacts DEF Held
    <3>2. /\ Clean(seated) /\ Kept(slots, seated) /\ seated # <<>> /\ seated[1] = Public
          /\ Len(seated) = Len(slots) /\ \A i \in DOMAIN seated \ {1} : seated[i] = slots[i]
      BY Zenon, <1>3, <3>1, Seat
    <3>3. DOMAIN seated = DOMAIN slots
      BY Zenon
    <3> HIDE DEF seated
    <3>4. CASE slots[1] # None /\ Blank(seated)
      <4>1. At(seated, None) \in DOMAIN seated /\ seated[At(seated, None)] = None
        BY Zenon, <3>2, <3>4, AtFinds DEF Blank, Clean
      <4>2. At(seated, None) # 1
        BY Zenon, <3>2, <4>1, SlotsFacts
      <4>3. Pinned(slots) = [seated EXCEPT ![At(seated, None)] = slots[1]]
        BY Zenon, <1>3, <2>3, <3>4 DEF Pinned, seated
      <4>4. slots[At(seated, None)] = None
        BY Zenon, <3>2, <4>1, <4>2
      <4> QED BY ZenonT(30), <1>3, <3>1, <3>3, <4>1, <4>2, <4>3, <4>4, Swap DEF seated
    <3>5. CASE slots[1] # None /\ ~Blank(seated) /\ Len(slots) < MaxSlots
      <4>1. Pinned(slots) = Append(seated, slots[1])
        BY Zenon, <1>3, <2>3, <3>5 DEF Pinned, seated
      <4>2. slots[1] \in channels /\ \A i \in DOMAIN seated : seated[i] # slots[1]
        BY Zenon, <1>3, <2>1, <3>2, <3>3, <3>5 DEF Clean, OneEach
      <4>3. /\ Clean(Pinned(slots)) /\ Pinned(slots) # <<>> /\ Pinned(slots)[1] = seated[1]
            /\ \A i \in DOMAIN seated : i \in DOMAIN Pinned(slots) /\ Pinned(slots)[i] = seated[i]
        <5>1. Len(seated) < MaxSlots
          BY Zenon, <3>2, <3>5
        <5>2. Longer(seated, Pinned(slots))
          BY Zenon, <3>2, <4>1, <4>2, <5>1, Grow
        <5> QED BY Zenon, <5>2 DEF Longer
      <4>4. Kept(slots, Pinned(slots))
        BY Zenon, <3>2, <4>3 DEF Kept
      <4> QED BY Zenon, <3>2, <4>3, <4>4
    <3>6. CASE slots[1] = None \/ (~Blank(seated) /\ ~(Len(slots) < MaxSlots))
      <4>1. Pinned(slots) = seated
        BY Zenon, <1>3, <2>3, <3>6 DEF Pinned, seated
      <4> QED BY Zenon, <3>2, <4>1
    <3> QED BY Zenon, <3>4, <3>5, <3>6
  <2> QED BY Zenon, <2>2, <2>3
<1> QED BY Zenon, <1>1, <1>2, <1>3

\* Two slots that are new or blank never have their turn at the same time.
LEMMA TurnsDiffer ==
  ASSUME NEW slots, IsTable(slots), NEW i \in Slots, NEW j \in Slots, i < j,
         i \in DOMAIN slots => slots[i] = None
  PROVE  Turn(slots, i) # Turn(slots, j)
<1> DEFINE n == Len(slots)
          before(k) == {m \in 1..k - 1 : slots[m] = None}
<1>1. n \in Nat /\ n <= MaxSlots /\ MaxSlots \in Nat /\ DOMAIN slots = 1..n
  BY Zenon, TableFacts, SlotsFacts
<1>2. i \in Nat /\ j \in Nat /\ 1 <= i /\ j <= MaxSlots
  BY SlotsFacts
<1>3. ASSUME NEW k \in Nat PROVE IsFiniteSet(before(k)) /\ Cardinality(before(k)) \in Nat
  <2>1. IsFiniteSet(1..k - 1)
    BY FS_Interval
  <2>2. before(k) \subseteq 1..k - 1
    BY Zenon
  <2>3. IsFiniteSet(before(k))
    BY Zenon, <2>1, <2>2, FS_Subset
  <2> QED BY Zenon, <2>3, FS_CardinalityType
<1>4. CASE i > n
  <2>1. Turn(slots, i) = i - n - 1 /\ Turn(slots, j) = j - n - 1
    BY <1>1, <1>2, <1>4 DEF Turn
  <2> QED BY <1>1, <1>2, <2>1
<1>5. CASE i <= n /\ j > n
  <2>1. Turn(slots, i) = (MaxSlots - n) + Cardinality(before(i)) /\ Turn(slots, j) = j - n - 1
    BY <1>1, <1>2, <1>5 DEF Turn
  <2>2. Cardinality(before(i)) \in Nat
    BY Zenon, <1>2, <1>3
  <2> HIDE DEF before
  <2> QED BY <1>1, <1>2, <2>1, <2>2
<1>6. CASE i <= n /\ j <= n
  <2>1. /\ Turn(slots, i) = (MaxSlots - n) + Cardinality(before(i))
        /\ Turn(slots, j) = (MaxSlots - n) + Cardinality(before(j))
    BY <1>1, <1>2, <1>6 DEF Turn
  <2>2. before(i) \subseteq before(j)
    BY <1>2
  <2>3. i \in before(j) /\ i \notin before(i)
    BY <1>1, <1>2, <1>6
  <2>4. IsFiniteSet(before(j)) /\ Cardinality(before(j)) \in Nat /\ Cardinality(before(i)) \in Nat
    BY Zenon, <1>2, <1>3
  <2> HIDE DEF before
  <2>5. Cardinality(before(i)) # Cardinality(before(j))
    BY Zenon, <2>2, <2>3, <2>4, FS_Subset
  <2> QED BY <1>1, <2>1, <2>4, <2>5
<1> QED BY <1>1, <1>2, <1>4, <1>5, <1>6

\* The loop over the new keys gives each a slot of its own and moves nothing.
LEMMA SeatedClean ==
  ASSUME channels \subseteq Keys, NEW slots, Clean(slots), NEW keys, keys = channels \ Held(slots)
  PROVE  /\ Clean(Seated(slots, keys))
         /\ \A i \in DOMAIN slots : slots[i] # None =>
              i \in DOMAIN Seated(slots, keys) /\ Seated(slots, keys)[i] = slots[i]
         /\ \A i \in DOMAIN Seated(slots, keys) :
              \/ i \in DOMAIN slots /\ Seated(slots, keys)[i] = slots[i]
              \/ Seated(slots, keys)[i] \in keys \cup {None}
<1>1. /\ Len(slots) \in Nat /\ Len(slots) <= MaxSlots /\ MaxSlots \in Nat
      /\ DOMAIN slots = 1..Len(slots) /\ IsTable(slots)
  BY Zenon, TableFacts, SlotsFacts DEF Clean
<1>2. Cardinality(keys) \in Nat
  <2>1. IsFiniteSet(keys)
    BY Zenon, SlotsAssumption, FS_Subset
  <2> QED BY Zenon, <2>1, FS_CardinalityType
<1> DEFINE grown == Len(slots) + Cardinality(keys)
          size == IF grown < MaxSlots THEN grown ELSE MaxSlots
          pick(i) == IF Seating(slots, keys, i) = {} THEN None
                     ELSE CHOOSE key \in Seating(slots, keys, i) : TRUE
          to == Seated(slots, keys)
<1>3. size \in Nat /\ size <= MaxSlots /\ DOMAIN slots \subseteq 1..size /\ 1..size \subseteq Slots
  <2>1. size \in Nat /\ size <= MaxSlots /\ Len(slots) <= size
    BY <1>1, <1>2
  <2> HIDE DEF size
  <2>2. 1..Len(slots) \subseteq 1..size /\ 1..size \subseteq 1..MaxSlots
    BY <1>1, <2>1
  <2> QED BY Zenon, <1>1, <2>1, <2>2 DEF Slots
<1>4. to = [i \in 1..size |-> IF i \in DOMAIN slots /\ slots[i] # None THEN slots[i] ELSE pick(i)]
  BY Zenon DEF Seated
<1>5. ASSUME NEW i, pick(i) # None
      PROVE  pick(i) \in keys /\ Rank(pick(i), keys) = Turn(slots, i)
  <2>1. Seating(slots, keys, i) # {}
    BY Zenon, <1>5
  <2>2. pick(i) \in Seating(slots, keys, i)
    BY Zenon, <2>1
  <2> QED BY Zenon, <2>2 DEF Seating
<1> HIDE DEF size, pick, to
<1>6. \A i \in 1..size : to[i] = IF i \in DOMAIN slots /\ slots[i] # None THEN slots[i] ELSE pick(i)
  BY Zenon, <1>4
<1>7. to \in [1..size -> Entries]
  <2>1. \A i : pick(i) \in Entries
    BY Zenon, <1>5 DEF Entries
  <2>2. \A i \in DOMAIN slots : slots[i] \in Entries
    BY Zenon, <1>1, TableFacts
  <2> QED BY Zenon, <1>4, <2>1, <2>2
<1>8. IsTable(to) /\ DOMAIN to = 1..size
  BY Zenon, <1>3, <1>7, MakesTable
<1>9. \A k \in keys : k \in channels /\ \A i \in DOMAIN slots : slots[i] # k
  BY Zenon, SlotsFacts DEF Held
<1>10. OneEach(to)
  <2> SUFFICES ASSUME NEW i \in 1..size, NEW j \in 1..size, to[i] = to[j], to[i] # None, i # j
               PROVE  FALSE
    BY Zenon, <1>8 DEF OneEach
  <2>1. CASE /\ i \in DOMAIN slots /\ slots[i] # None
             /\ j \in DOMAIN slots /\ slots[j] # None
    BY Zenon, <1>6, <2>1 DEF Clean, OneEach
  <2>2. CASE /\ i \in DOMAIN slots /\ slots[i] # None
             /\ ~(j \in DOMAIN slots /\ slots[j] # None)
    <3>1. to[i] = slots[i] /\ to[j] = pick(j)
      BY Zenon, <1>6, <2>2
    <3>2. pick(j) \in keys
      BY Zenon, <1>5, <3>1
    <3> QED BY Zenon, <1>9, <2>2, <3>1, <3>2
  <2>3. CASE /\ j \in DOMAIN slots /\ slots[j] # None
             /\ ~(i \in DOMAIN slots /\ slots[i] # None)
    <3>1. to[j] = slots[j] /\ to[i] = pick(i)
      BY Zenon, <1>6, <2>3
    <3>2. pick(i) \in keys
      BY Zenon, <1>5, <3>1
    <3> QED BY Zenon, <1>9, <2>3, <3>1, <3>2
  <2>4. CASE /\ ~(i \in DOMAIN slots /\ slots[i] # None)
             /\ ~(j \in DOMAIN slots /\ slots[j] # None)
    <3>1. to[i] = pick(i) /\ to[j] = pick(j)
      BY Zenon, <1>6, <2>4
    <3>2. Turn(slots, i) = Turn(slots, j)
      BY Zenon, <1>5, <3>1
    <3>3. i \in Slots /\ j \in Slots /\ (i < j \/ j < i)
      BY <1>3, SlotsFacts
    <3> QED BY Zenon, <1>1, <2>4, <3>2, <3>3, TurnsDiffer
  <2> QED BY Zenon, <2>1, <2>2, <2>3, <2>4
<1>11. \A i \in DOMAIN to : \/ i \in DOMAIN slots /\ to[i] = slots[i]
                            \/ to[i] \in keys \cup {None}
  BY Zenon, <1>5, <1>6, <1>8
<1>12. Clean(to)
  BY Zenon, <1>8, <1>9, <1>10, <1>11 DEF Clean
<1>13. \A i \in DOMAIN slots : slots[i] # None => i \in DOMAIN to /\ to[i] = slots[i]
  BY Zenon, <1>3, <1>6, <1>8
<1> QED BY Zenon, <1>11, <1>12, <1>13 DEF to

\* _ensure_channel_slots: what the loop and the pinning leave.
LEMMA ReconciledClean ==
  ASSUME channels \subseteq Keys, IsTable(table), OneEach(table)
  PROVE  Clean(Reconciled) /\ Kept(table, Reconciled) /\ PublicApart(Reconciled)
<1> DEFINE b == Blanked(table)
          p == Pinned(b)
          keys == channels \ Held(p)
          to == Seated(p, keys)
<1>1. Clean(b) /\ Kept(table, b)
  BY Zenon, BlankedClean
<1> HIDE DEF b
<1>2. /\ Clean(p) /\ Kept(b, p)
      /\ Public \in channels => p # <<>> /\ p[1] = Public
  BY Zenon, <1>1, PinnedClean
<1> HIDE DEF p
<1>3. /\ Clean(to)
      /\ \A i \in DOMAIN p : p[i] # None => i \in DOMAIN to /\ to[i] = p[i]
      /\ \A i \in DOMAIN to : \/ i \in DOMAIN p /\ to[i] = p[i]
                              \/ to[i] \in keys \cup {None}
  BY Zenon, <1>2, SeatedClean
<1> HIDE DEF to
<1>4. Reconciled = to
  BY Zenon DEF Reconciled, to, keys, p, b
<1>5. Kept(table, to)
  <2> SUFFICES ASSUME NEW i \in DOMAIN table \ {1}, table[i] \in channels \ {Public}
               PROVE  i \in DOMAIN to /\ to[i] = table[i]
    BY Zenon DEF Kept
  <2>1. i \in DOMAIN b /\ b[i] = table[i]
    BY Zenon, <1>1 DEF Kept
  <2>2. i \in DOMAIN p /\ p[i] = table[i]
    BY Zenon, <1>2, <2>1 DEF Kept
  <2>3. table[i] # None
    BY Zenon, SlotsFacts
  <2> QED BY Zenon, <1>3, <2>2, <2>3
<1>6. PublicApart(to)
  <2> SUFFICES ASSUME NEW i \in DOMAIN to \ {1}, to[i] = Public PROVE FALSE
    BY Zenon DEF PublicApart
  <2>1. Public \in channels
    BY Zenon, <1>3, SlotsFacts DEF Clean
  <2>2. p[1] = Public /\ 1 \in DOMAIN p
    <3>1. p # <<>> /\ p[1] = Public /\ p \in Seq(Entries)
      BY Zenon, <1>2, <2>1 DEF Clean, IsTable
    <3>2. 1 \in DOMAIN p
      BY <3>1
    <3> QED BY Zenon, <3>1, <3>2
  <2>3. Public \notin keys
    BY Zenon, <2>2, SlotsFacts DEF Held
  <2>4. i \in DOMAIN p /\ p[i] = Public
    BY Zenon, <1>3, <2>3, SlotsFacts
  <2> QED BY Zenon, <1>2, <2>2, <2>4, SlotsFacts DEF Clean, OneEach
<1> QED BY Zenon, <1>3, <1>4, <1>5, <1>6

\* What a restart reads back.
LEMMA RestoredTable ==
  ASSUME stored \in [Slots -> Entries],
         \A i, j \in Slots : stored[i] = stored[j] /\ stored[i] # None => i = j
  PROVE  /\ IsTable(Restored) /\ OneEach(Restored)
         /\ \A i \in Slots : IF i \in DOMAIN Restored THEN Restored[i] = stored[i]
                             ELSE stored[i] = None
<1> DEFINE used == {i \in Slots : stored[i] # None}
          last == CHOOSE i \in used : \A j \in used : j <= i
<1>1. CASE used = {}
  <2>1. Restored = <<>>
    BY Zenon, <1>1 DEF Restored
  <2>2. IsTable(<<>>) /\ DOMAIN <<>> = {}
    BY SlotsFacts DEF IsTable
  <2> QED BY Zenon, <1>1, <2>1, <2>2 DEF OneEach
<1>2. CASE used # {}
  <2> DEFINE spare == {MaxSlots - i : i \in used}
  <2>1. spare \subseteq Nat /\ spare # {}
    BY <1>2, SlotsFacts
  <2>2. PICK x \in spare : \A y \in spare : ~(<<y, x>> \in OpToRel(<, Nat))
    BY Zenon, <2>1, NatLessThanWellFounded, WFMin
  <2>3. \A y \in spare : ~(y < x)
    BY Zenon, <2>1, <2>2 DEF OpToRel
  <2>4. PICK k \in used : x = MaxSlots - k
    BY Zenon, <2>2
  <2>5. \A j \in used : j <= k
    <3> SUFFICES ASSUME NEW j \in used PROVE j <= k
      BY Zenon
    <3>1. ~(MaxSlots - j < MaxSlots - k)
      BY Zenon, <2>3, <2>4
    <3>2. j \in Nat /\ k \in Nat /\ MaxSlots \in Nat
      BY Zenon, <2>4, SlotsFacts
    <3> QED BY <3>1, <3>2
  <2>6. last \in used /\ \A j \in used : j <= last
    BY Zenon, <2>5
  <2>7. Restored = [i \in 1..last |-> stored[i]]
    BY Zenon, <1>2 DEF Restored
  <2> HIDE DEF last
  <2>8. last \in Nat /\ last <= MaxSlots /\ 1..last \subseteq Slots
    BY <2>6, SlotsFacts
  <2>9. IsTable(Restored) /\ DOMAIN Restored = 1..last
    <3>1. Restored \in [1..last -> Entries]
      BY Zenon, <2>7, <2>8
    <3> QED BY Zenon, <2>8, <3>1, MakesTable
  <2>10. \A i \in 1..last : Restored[i] = stored[i]
    BY Zenon, <2>7
  <2>11. \A i \in Slots : i \notin 1..last => stored[i] = None
    BY <2>6, <2>8, SlotsFacts
  <2>12. OneEach(Restored)
    BY Zenon, <2>8, <2>9, <2>10 DEF OneEach
  <2> QED BY Zenon, <2>9, <2>10, <2>11, <2>12
<1> QED BY Zenon, <1>1, <1>2

LEMMA SavedFacts ==
  ASSUME IsTable(table), OneEach(table)
  PROVE  /\ Saved \in [Slots -> Entries]
         /\ \A i \in Slots : Saved[i] = IF i \in DOMAIN table THEN table[i] ELSE None
         /\ \A i, j \in Slots : Saved[i] = Saved[j] /\ Saved[i] # None => i = j
<1>1. \A i \in DOMAIN table : table[i] \in Entries
  BY Zenon, TableFacts
<1>2. Saved \in [Slots -> Entries]
  BY Zenon, <1>1 DEF Saved, Entries
<1>3. \A i \in Slots : Saved[i] = IF i \in DOMAIN table THEN table[i] ELSE None
  BY Zenon DEF Saved
<1> QED BY Zenon, <1>2, <1>3 DEF OneEach

LEMMA PaddedFacts ==
  ASSUME NEW slots, IsTable(slots), NEW i \in Slots
  PROVE  /\ IsTable(Padded(slots, i)) /\ i \in DOMAIN Padded(slots, i)
         /\ DOMAIN slots \subseteq DOMAIN Padded(slots, i)
         /\ \A j \in DOMAIN Padded(slots, i) :
              Padded(slots, i)[j] = IF j \in DOMAIN slots THEN slots[j] ELSE None
<1> DEFINE n == IF i < Len(slots) THEN Len(slots) ELSE i
          to == Padded(slots, i)
<1>1. /\ Len(slots) \in Nat /\ Len(slots) <= MaxSlots /\ DOMAIN slots = 1..Len(slots)
      /\ \A k \in DOMAIN slots : slots[k] \in Entries
  BY Zenon, TableFacts
<1>2. n \in Nat /\ n <= MaxSlots /\ i \in 1..n /\ 1..Len(slots) \subseteq 1..n
  BY <1>1, SlotsFacts
<1>3. to = [j \in 1..n |-> IF j \in DOMAIN slots THEN slots[j] ELSE None]
  BY Zenon DEF Padded
<1> HIDE DEF n, to
<1>4. to \in [1..n -> Entries]
  BY Zenon, <1>1, <1>3 DEF Entries
<1>5. IsTable(to) /\ DOMAIN to = 1..n
  BY Zenon, <1>2, <1>4, MakesTable
<1> QED BY Zenon, <1>1, <1>2, <1>3, <1>5 DEF to

-----------------------------------------------------------------------------
(* The invariant.                                                          *)

\* A task that writes the table to the database holds the lock.
LockOK == \A t \in Tasks : act[t].pc \in {"save", "saveSet"} => Holds(t)

\* What a task at a step knows: the table was loaded, a bind has a key, and a table that
\* is being saved after it was reconciled has the public channel in its place.
JobOK(t) ==
  /\ act[t].pc \in {"save", "set", "saveSet"} => loaded
  /\ act[t].job = "bind" => act[t].key \in Keys
  /\ act[t].pc = "upsert" => act[t].job = "bind"
  /\ act[t].pc = "save" => PublicApart(table)
JobsOK == \A t \in Tasks : JobOK(t)

FreshOK == ~loaded => ~unsaved /\ table = <<>>

\* A slot that apps know still holds its channel, which exists, in memory and, unless a
\* write failed, in the database.
Remembered ==
  \A i \in Slots \ {1} : told[i] # None =>
    /\ told[i] \in channels \ {Public}
    /\ loaded => i \in DOMAIN table /\ table[i] = told[i]
    /\ ~unsaved => stored[i] = told[i]

Inv ==
  TypeOK /\ LockOK /\ JobsOK /\ FreshOK /\ OneSlotEach /\ Remembered /\ TableDurable

\* The invariant of the state after a step, part by part.
LEMMA InvParts ==
  Inv => /\ channels \subseteq Keys /\ IsTable(table) /\ OneEach(table) /\ loaded \in BOOLEAN
         /\ stored \in [Slots -> Entries] /\ lock \in Seq(Tasks) /\ act \in [Tasks -> ActType]
         /\ unsaved \in BOOLEAN /\ told \in [Slots -> Entries]
         /\ spent \in [asks : 0..MaxAsks, mishaps : 0..MaxMishaps]
         /\ \A i, j \in Slots : stored[i] = stored[j] /\ stored[i] # None => i = j
BY Zenon DEF Inv, TypeOK, IsTable, OneEach, Entries, OneSlotEach

\* The counters are bounds of the model.
LEMMA SpentType ==
  ASSUME spent \in [asks : 0..MaxAsks, mishaps : 0..MaxMishaps], Asks \/ Mishap
  PROVE  spent' \in [asks : 0..MaxAsks, mishaps : 0..MaxMishaps]
BY SlotsAssumption DEF Asks, Mishap

LEMMA IdleType == Idle \in ActType /\ Idle.pc = "idle" /\ Idle.job = "reconcile" /\ Idle.key = None
<1>1. 1 \in Slots
  BY SlotsFacts
<1> QED BY SMT, <1>1 DEF Idle, ActType, Jobs

\* Whoever is first stays first while others queue up.
LEMMA Queues ==
  ASSUME lock \in Seq(Tasks), NEW t \in Tasks, lock' = Append(lock, t)
  PROVE  lock' \in Seq(Tasks) /\ \A s \in Tasks : Holds(s) => Holds(s)'
BY SMT DEF Holds

LEMMA Leaves ==
  ASSUME lock \in Seq(Tasks), lock # <<>>
  PROVE  Tail(lock) \in Seq(Tasks) /\ \A t \in Tasks : Append(Tail(lock), t) \in Seq(Tasks)
BY SMT

\* Only one holds the lock, so nobody else is saving.
LEMMA Alone ==
  ASSUME Inv, NEW t \in Tasks, Holds(t)
  PROVE  \A s \in Tasks \ {t} : act[s].pc \notin {"save", "saveSet"}
BY Zenon DEF Inv, LockOK, Holds

LEMMA ActSet ==
  ASSUME act \in [Tasks -> ActType], NEW t \in Tasks, NEW x \in ActType,
         act' = [act EXCEPT ![t] = x]
  PROVE  act' \in [Tasks -> ActType] /\ act'[t] = x /\ \A s \in Tasks \ {t} : act'[s] = act[s]
BY Zenon

\* A task asks for the lock; channels may come and go, and what apps know may shrink.
LEMMA EnqueueInv ==
  ASSUME Inv, NEW t \in Tasks, act[t].pc \in {"idle", "upsert"}, NEW x \in ActType,
         x.pc = "reconcile", x.job = "bind" => x.key \in Keys, act' = [act EXCEPT ![t] = x],
         lock' = Append(lock, t), UNCHANGED <<table, loaded, stored, unsaved>>,
         channels' \subseteq Keys, told' \in [Slots -> Entries],
         \A i \in Slots : told'[i] # None => told'[i] = told[i] /\ (told[i] \in channels => told[i] \in channels'),
         spent' \in [asks : 0..MaxAsks, mishaps : 0..MaxMishaps]
  PROVE  Inv'
<1>1. /\ lock \in Seq(Tasks) /\ act \in [Tasks -> ActType] /\ IsTable(table) /\ OneEach(table)
      /\ loaded \in BOOLEAN /\ unsaved \in BOOLEAN /\ stored \in [Slots -> Entries]
  BY Zenon, InvParts
<1>2. act' \in [Tasks -> ActType] /\ act'[t] = x /\ \A s \in Tasks \ {t} : act'[s] = act[s]
  BY Zenon, <1>1, ActSet
<1>3. lock' \in Seq(Tasks) /\ \A s \in Tasks : Holds(s) => Holds(s)'
  BY Zenon, <1>1, Queues
<1>4. TypeOK'
  BY Zenon, <1>1, <1>2, <1>3 DEF TypeOK, IsTable, Entries
<1>5. LockOK'
  BY Zenon, <1>2, <1>3 DEF Inv, LockOK
<1>6. JobsOK'
  BY Zenon, <1>2 DEF Inv, JobsOK, JobOK, PublicApart
<1>7. FreshOK' /\ OneSlotEach'
  BY Zenon DEF Inv, FreshOK, OneSlotEach
<1>8. Remembered'
  BY Zenon DEF Inv, Remembered
<1>9. TableDurable'
  BY Zenon, <1>2 DEF Inv, TableDurable, Saved
<1> QED BY Zenon, <1>4, <1>5, <1>6, <1>7, <1>8, <1>9 DEF Inv

\* The holder of the lock is done with the table, which is saved, or was before, or could
\* not be: the apps are told, and the lock is left.
LEMMA DoneInv ==
  ASSUME Inv, NEW t \in Tasks, Holds(t), act[t].pc \in {"reconcile", "save"}, loaded,
         PublicApart(table), Done(t, table), UNCHANGED <<channels, table, loaded>>,
         stored' \in {stored, Saved}, unsaved' \in BOOLEAN, ~unsaved' => stored' = Saved,
         spent' \in [asks : 0..MaxAsks, mishaps : 0..MaxMishaps]
  PROVE  Inv'
<1>1. /\ lock \in Seq(Tasks) /\ act \in [Tasks -> ActType] /\ IsTable(table) /\ OneEach(table)
      /\ channels \subseteq Keys /\ stored \in [Slots -> Entries] /\ told \in [Slots -> Entries]
      /\ \A i, j \in Slots : stored[i] = stored[j] /\ stored[i] # None => i = j
  BY Zenon, InvParts
<1>2. /\ Saved \in [Slots -> Entries]
      /\ \A i \in Slots : Saved[i] = IF i \in DOMAIN table THEN table[i] ELSE None
      /\ \A i, j \in Slots : Saved[i] = Saved[j] /\ Saved[i] # None => i = j
  BY Zenon, <1>1, SavedFacts
<1>3. PICK x \in ActType :
        /\ act' = [act EXCEPT ![t] = x] /\ x.pc \in {"send", "set", "idle"}
        /\ x.job = "bind" => x.key \in Keys
        /\ lock' = Append(Tail(lock), t) \/ lock' = Tail(lock)
  <2>1. act[t] \in ActType /\ \A i \in DOMAIN table : table[i] \in Entries
    BY Zenon, <1>1, TableFacts
  <2>2. act[t].job = "bind" => act[t].key \in Keys
    BY Zenon DEF Inv, JobsOK, JobOK
  <2>3. lock' = Append(Tail(lock), t) \/ lock' = Tail(lock)
    BY Zenon DEF Done
  <2> DEFINE key == IF act[t].slot \in DOMAIN table THEN table[act[t].slot] ELSE None
  <2>4. key \in Entries
    BY Zenon, <2>1 DEF Entries
  <2>5. \/ act' = [act EXCEPT ![t] = [act[t] EXCEPT !.pc = "send", !.key = key]] /\ act[t].job = "send"
        \/ act' = [act EXCEPT ![t] = [act[t] EXCEPT !.pc = "set"]]
        \/ act' = [act EXCEPT ![t] = Idle]
    BY Zenon DEF Done
  <2> HIDE DEF key
  <2>6. CASE act' = [act EXCEPT ![t] = [act[t] EXCEPT !.pc = "send", !.key = key]] /\ act[t].job = "send"
    <3> DEFINE x == [act[t] EXCEPT !.pc = "send", !.key = key]
    <3>1. x \in ActType /\ x.pc = "send" /\ x.job = "send"
      BY Zenon, <2>1, <2>4, <2>6 DEF ActType, Entries
    <3> QED BY Zenon, <2>3, <2>6, <3>1
  <2>7. CASE act' = [act EXCEPT ![t] = [act[t] EXCEPT !.pc = "set"]]
    <3> DEFINE x == [act[t] EXCEPT !.pc = "set"]
    <3>1. x \in ActType /\ x.pc = "set" /\ x.job = act[t].job /\ x.key = act[t].key
      BY Zenon, <2>1 DEF ActType
    <3> QED BY Zenon, <2>2, <2>3, <2>7, <3>1
  <2>8. CASE act' = [act EXCEPT ![t] = Idle]
    BY Zenon, <2>3, <2>8, IdleType
  <2> QED BY Zenon, <2>5, <2>6, <2>7, <2>8
<1>4. act' \in [Tasks -> ActType] /\ act'[t] = x /\ \A s \in Tasks \ {t} : act'[s] = act[s]
  BY Zenon, <1>1, <1>3, ActSet
<1>5. lock' \in Seq(Tasks)
  BY Zenon, <1>1, <1>3, Leaves DEF Holds
<1>6. \A s \in Tasks : act'[s].pc \notin {"save", "saveSet"}
  BY Zenon, <1>3, <1>4, Alone
<1>7. told' \in [Slots -> Entries] /\ stored' \in [Slots -> Entries]
  <2>1. told' = Retold(table)
    BY Zenon DEF Done
  <2>2. Retold(table) \in [Slots -> Entries]
    BY Zenon, <1>1 DEF Retold, Entries
  <2> QED BY Zenon, <1>1, <1>2, <2>1, <2>2
<1>8. TypeOK'
  BY Zenon, <1>1, <1>4, <1>5, <1>7 DEF Inv, TypeOK, IsTable, Entries
<1>9. LockOK'
  BY Zenon, <1>6 DEF LockOK
<1>10. JobsOK'
  BY Zenon, <1>3, <1>4 DEF Inv, JobsOK, JobOK, PublicApart
<1>11. FreshOK'
  BY Zenon DEF FreshOK
<1>12. OneSlotEach'
  <2>1. \A i, j \in DOMAIN table' : table'[i] = table'[j] /\ table'[i] # None => i = j
    BY Zenon, <1>1 DEF OneEach
  <2>2. \A i, j \in Slots : stored'[i] = stored'[j] /\ stored'[i] # None => i = j
    BY Zenon, <1>1, <1>2
  <2> QED BY Zenon, <2>1, <2>2 DEF OneSlotEach
<1>13. Remembered'
  <2> SUFFICES ASSUME NEW i \in Slots \ {1}, told'[i] # None
               PROVE  /\ told'[i] \in channels \ {Public} /\ i \in DOMAIN table /\ table[i] = told'[i]
                      /\ ~unsaved' => stored'[i] = told'[i]
    BY Zenon DEF Remembered
  <2>1. told'[i] = IF i \in DOMAIN table /\ table[i] \in channels THEN table[i] ELSE told[i]
    BY Zenon DEF Done, Retold
  <2>2. told'[i] \in channels \ {Public} /\ i \in DOMAIN table /\ table[i] = told'[i]
    <3>1. CASE i \in DOMAIN table /\ table[i] \in channels
      BY Zenon, <2>1, <3>1 DEF PublicApart
    <3>2. CASE ~(i \in DOMAIN table /\ table[i] \in channels)
      BY Zenon, <2>1, <3>2 DEF Inv, Remembered
    <3> QED BY Zenon, <3>1, <3>2
  <2>3. ~unsaved' => stored'[i] = told'[i]
    BY Zenon, <1>2, <2>2
  <2> QED BY Zenon, <2>2, <2>3
<1>14. TableDurable'
  BY Zenon DEF TableDurable, Saved
<1> QED BY ZenonT(30), <1>8, <1>9, <1>10, <1>11, <1>12, <1>13, <1>14 DEF Inv

\* The holder of the lock changes the table and goes on to save it, or what it changed is
\* nothing that is stored and it leaves; apps have forgotten the slots that change.
LEMMA WriteInv ==
  ASSUME Inv, NEW t \in Tasks, Holds(t), loaded, UNCHANGED <<channels, loaded, stored, unsaved, spent>>,
         IsTable(table'), OneEach(table'), told' \in [Slots -> Entries],
         \A i \in Slots \ {1} : told'[i] # None =>
           told'[i] = told[i] /\ i \in DOMAIN table' /\ table'[i] = told[i],
         NEW x \in ActType, act' = [act EXCEPT ![t] = x], x.job = "bind" => x.key \in Keys,
         x.pc # "upsert", x.pc = "save" => PublicApart(table'),
         \/ x.pc \in {"save", "saveSet"} /\ UNCHANGED lock
         \/ /\ x.pc = "idle" /\ act[t].pc = "set" /\ lock' = Tail(lock)
            /\ \A i \in Slots : (IF i \in DOMAIN table THEN table[i] ELSE None) =
                                (IF i \in DOMAIN table' THEN table'[i] ELSE None)
  PROVE  Inv'
<1>1. /\ lock \in Seq(Tasks) /\ act \in [Tasks -> ActType] /\ channels \subseteq Keys
      /\ stored \in [Slots -> Entries]
      /\ \A i, j \in Slots : stored[i] = stored[j] /\ stored[i] # None => i = j
  BY Zenon, InvParts
<1>2. act' \in [Tasks -> ActType] /\ act'[t] = x /\ \A s \in Tasks \ {t} : act'[s] = act[s]
  BY Zenon, <1>1, ActSet
<1>3. \A s \in Tasks \ {t} : act'[s].pc \notin {"save", "saveSet"}
  BY Zenon, <1>2, Alone
<1>4. lock' \in Seq(Tasks)
  BY Zenon, <1>1, Leaves DEF Holds
<1>5. TypeOK'
  BY Zenon, <1>1, <1>2, <1>4 DEF Inv, TypeOK, IsTable, Entries
<1>6. LockOK'
  BY Zenon, <1>2, <1>3 DEF LockOK, Holds
<1>7. JobsOK'
  <2> SUFFICES ASSUME NEW s \in Tasks PROVE JobOK(s)'
    BY Zenon DEF JobsOK
  <2>1. CASE s = t
    BY Zenon, <1>2, <2>1 DEF JobOK, PublicApart
  <2>2. CASE s # t
    BY Zenon, <1>2, <1>3, <2>2 DEF Inv, JobsOK, JobOK
  <2> QED BY Zenon, <2>1, <2>2
<1>8. FreshOK' /\ OneSlotEach'
  BY Zenon, <1>1 DEF FreshOK, OneSlotEach, OneEach
<1>9. Remembered'
  BY Zenon DEF Inv, Remembered
<1>10. TableDurable'
  <2>1. CASE x.pc \in {"save", "saveSet"}
    BY Zenon, <1>2, <2>1 DEF TableDurable
  <2>2. CASE /\ act[t].pc = "set"
             /\ \A i \in Slots : (IF i \in DOMAIN table THEN table[i] ELSE None) =
                                 (IF i \in DOMAIN table' THEN table'[i] ELSE None)
    <3>1. Saved' = Saved
      BY Zenon, <2>2 DEF Saved, Slots
    <3>2. \A s \in Tasks : act[s].pc \notin {"save", "saveSet"}
      BY Zenon, <2>2, Alone
    <3> QED BY Zenon, <3>1, <3>2 DEF Inv, TableDurable
  <2> QED BY Zenon, <2>1, <2>2
<1> QED BY Zenon, <1>5, <1>6, <1>7, <1>8, <1>9, <1>10 DEF Inv

\* What an app has set is saved, or could not be: the lock is left.
LEMMA ReleaseInv ==
  ASSUME Inv, NEW t \in Tasks, act[t].pc = "saveSet", SetEnds(t),
         UNCHANGED <<channels, table, loaded, told>>,
         stored' \in {stored, Saved}, unsaved' \in BOOLEAN, ~unsaved' => stored' = Saved,
         spent' \in [asks : 0..MaxAsks, mishaps : 0..MaxMishaps]
  PROVE  Inv'
<1>1. /\ lock \in Seq(Tasks) /\ act \in [Tasks -> ActType] /\ IsTable(table) /\ OneEach(table)
      /\ channels \subseteq Keys /\ stored \in [Slots -> Entries] /\ told \in [Slots -> Entries]
      /\ \A i, j \in Slots : stored[i] = stored[j] /\ stored[i] # None => i = j
  BY Zenon, InvParts
<1>2. /\ Saved \in [Slots -> Entries]
      /\ \A i \in Slots : Saved[i] = IF i \in DOMAIN table THEN table[i] ELSE None
      /\ \A i, j \in Slots : Saved[i] = Saved[j] /\ Saved[i] # None => i = j
  BY Zenon, <1>1, SavedFacts
<1>3. Holds(t) /\ loaded /\ JobOK(t)
  BY Zenon DEF Inv, LockOK, JobsOK, JobOK
<1>4. PICK x \in ActType :
        /\ act' = [act EXCEPT ![t] = x] /\ x.pc \in {"upsert", "idle"}
        /\ x.job = "bind" => x.key \in Keys
        /\ x.pc = "upsert" => x.job = "bind"
  <2>1. CASE act[t].job = "bind"
    <3> DEFINE x == [act[t] EXCEPT !.pc = "upsert"]
    <3>1. x \in ActType /\ x.pc = "upsert" /\ x.job = act[t].job /\ x.key = act[t].key
      BY ZenonT(30), <1>1 DEF ActType
    <3>2. act' = [act EXCEPT ![t] = x]
      BY Zenon, <2>1 DEF SetEnds
    <3> HIDE DEF x
    <3> QED BY Zenon, <1>3, <2>1, <3>1, <3>2 DEF JobOK
  <2>2. CASE act[t].job # "bind"
    <3>1. act' = [act EXCEPT ![t] = Idle]
      BY Zenon, <2>2 DEF SetEnds
    <3>2. Idle.pc # "upsert" /\ Idle.job # "bind"
      BY IdleType
    <3> QED BY Zenon, <3>1, <3>2, IdleType
  <2> QED BY Zenon, <2>1, <2>2
<1>5. act' \in [Tasks -> ActType] /\ act'[t] = x /\ \A s \in Tasks \ {t} : act'[s] = act[s]
  BY Zenon, <1>1, <1>4, ActSet
<1>6. lock' \in Seq(Tasks)
  BY Zenon, <1>1, <1>3, Leaves DEF Holds, SetEnds
<1>7. \A s \in Tasks : act'[s].pc \notin {"save", "saveSet"}
  BY Zenon, <1>3, <1>4, <1>5, Alone
<1>8. TypeOK'
  BY Zenon, <1>1, <1>2, <1>5, <1>6 DEF Inv, TypeOK, IsTable, Entries
<1>9. LockOK'
  BY Zenon, <1>7 DEF LockOK
<1>10. JobsOK'
  BY Zenon, <1>3, <1>4, <1>5 DEF Inv, JobsOK, JobOK, PublicApart
<1>11. FreshOK'
  BY Zenon, <1>3 DEF FreshOK
<1>12. OneSlotEach'
  <2>1. \A i, j \in DOMAIN table' : table'[i] = table'[j] /\ table'[i] # None => i = j
    BY Zenon, <1>1 DEF OneEach
  <2>2. \A i, j \in Slots : stored'[i] = stored'[j] /\ stored'[i] # None => i = j
    BY ZenonT(30), <1>1, <1>2
  <2> QED BY Zenon, <2>1, <2>2 DEF OneSlotEach
<1>13. Remembered'
  BY Zenon, <1>2, <1>3 DEF Inv, Remembered
<1>14. TableDurable'
  BY Zenon DEF TableDurable, Saved
<1> QED BY Zenon, <1>8, <1>9, <1>10, <1>11, <1>12, <1>13, <1>14 DEF Inv

\* A slot is given a key, or none, and the slot that had the key becomes blank.
Rebinds(to, i, key) ==
  \/ to = [j \in DOMAIN Padded(table, i) |->
             IF j = i THEN key
             ELSE IF Padded(table, i)[j] = key THEN None ELSE Padded(table, i)[j]]
  \/ to = [Padded(table, i) EXCEPT ![i] = None] /\ key = None

LEMMA Rebound ==
  ASSUME IsTable(table), OneEach(table), NEW i \in Slots, NEW key \in Entries, NEW to,
         Rebinds(to, i, key)
  PROVE  /\ IsTable(to) /\ OneEach(to) /\ i \in DOMAIN to /\ to[i] = key
         /\ \A j \in DOMAIN to \ {i} :
              to[j] = IF j \in DOMAIN table /\ table[j] # key THEN table[j] ELSE None
         /\ \A j \in DOMAIN table : j \in DOMAIN to
<1> DEFINE p == Padded(table, i)
<1>1. /\ IsTable(p) /\ i \in DOMAIN p /\ DOMAIN table \subseteq DOMAIN p
      /\ \A j \in DOMAIN p : p[j] = IF j \in DOMAIN table THEN table[j] ELSE None
  BY Zenon, PaddedFacts
<1>2. \/ to = [j \in DOMAIN p |-> IF j = i THEN key ELSE IF p[j] = key THEN None ELSE p[j]]
      \/ to = [p EXCEPT ![i] = None] /\ key = None
  BY Zenon DEF Rebinds
<1> HIDE DEF p
<1>3. /\ DOMAIN p = 1..Len(p) /\ Len(p) \in Nat /\ Len(p) <= MaxSlots
      /\ \A j \in DOMAIN p : p[j] \in Entries
  BY Zenon, <1>1, TableFacts
<1>4. to = [j \in DOMAIN p |-> IF j = i THEN key ELSE IF p[j] = key THEN None ELSE p[j]]
  <2>1. CASE to = [p EXCEPT ![i] = None] /\ key = None
    <3>1. p = [j \in DOMAIN p |-> p[j]]
      BY <1>1, <1>3 DEF IsTable
    <3>2. to = [j \in DOMAIN p |-> IF j = i THEN None ELSE p[j]]
      BY Zenon, <2>1, <3>1
    <3> QED BY Zenon, <2>1, <3>2
  <2> QED BY Zenon, <1>2, <2>1
<1>5. to \in [1..Len(p) -> Entries]
  BY Zenon, <1>3, <1>4 DEF Entries
<1>6. IsTable(to) /\ DOMAIN to = DOMAIN p
  BY Zenon, <1>3, <1>5, MakesTable
<1>7. \A j \in DOMAIN p : to[j] = IF j = i THEN key ELSE IF p[j] = key THEN None ELSE p[j]
  BY Zenon, <1>4
<1>8. to[i] = key
  BY Zenon, <1>1, <1>7
<1>9. \A j \in DOMAIN to \ {i} : to[j] = IF j \in DOMAIN table /\ table[j] # key THEN table[j] ELSE None
  <2> SUFFICES ASSUME NEW j \in DOMAIN p, j # i
               PROVE  to[j] = IF j \in DOMAIN table /\ table[j] # key THEN table[j] ELSE None
    BY Zenon, <1>6
  <2>1. to[j] = IF p[j] = key THEN None ELSE p[j]
    BY Zenon, <1>7
  <2>2. p[j] = IF j \in DOMAIN table THEN table[j] ELSE None
    BY Zenon, <1>1
  <2> QED BY Zenon, <2>1, <2>2
<1>10. OneEach(to)
  <2> SUFFICES ASSUME NEW j \in DOMAIN to, NEW k \in DOMAIN to, to[j] = to[k], to[j] # None
               PROVE  j = k
    BY Zenon DEF OneEach
  <2>1. CASE j # i /\ k # i
    BY Zenon, <1>9, <2>1 DEF OneEach
  <2>2. CASE (j = i /\ k # i) \/ (j # i /\ k = i)
    BY Zenon, <1>8, <1>9, <2>2
  <2> QED BY Zenon, <2>1, <2>2
<1> QED BY Zenon, <1>1, <1>6, <1>8, <1>9, <1>10

-----------------------------------------------------------------------------
(* The actions.                                                            *)

\* A task moves to another step of the same job.
LEMMA Steps ==
  ASSUME act \in [Tasks -> ActType], NEW t \in Tasks, NEW pc \in {"save", "saveSet"},
         act' = [act EXCEPT ![t].pc = pc]
  PROVE  \E x \in ActType : /\ act' = [act EXCEPT ![t] = x]
                            /\ x.pc = pc /\ x.job = act[t].job /\ x.key = act[t].key
<1> DEFINE x == [act[t] EXCEPT !.pc = pc]
<1>1. x \in ActType /\ x.pc = pc /\ x.job = act[t].job /\ x.key = act[t].key
  BY Zenon DEF ActType
<1>2. act' = [act EXCEPT ![t] = x]
  BY Zenon
<1> QED BY Zenon, <1>1, <1>2

LEMMA AsksInv ==
  ASSUME Inv, NEW t \in Tasks,
         \/ Ask(t, "reconcile", 1, None)
         \/ \E i \in Slots : Ask(t, "send", i, None) \/ Ask(t, "clear", i, None)
         \/ \E i \in Slots, key \in Keys : Ask(t, "bind", i, key)
  PROVE  Inv'
<1>1. PICK job \in Jobs, i \in Slots, key \in Entries : Ask(t, job, i, key) /\ (job = "bind" => key \in Keys)
  <2>1. 1 \in Slots
    BY SlotsFacts
  <2>2. "reconcile" # "bind" /\ "send" # "bind" /\ "clear" # "bind"
    OBVIOUS
  <2> QED BY Zenon, <2>1, <2>2 DEF Jobs, Entries
<1> DEFINE x == [pc |-> "reconcile", job |-> job, slot |-> i, key |-> key]
<1>2. x \in ActType /\ x.pc = "reconcile" /\ x.job = job /\ x.key = key
  BY Zenon, <1>1 DEF ActType, Entries
<1>3. /\ act[t].pc = "idle" /\ Asks /\ act' = [act EXCEPT ![t] = x] /\ lock' = Append(lock, t)
      /\ UNCHANGED <<channels, table, loaded, stored, unsaved, told>>
  BY Zenon, <1>1 DEF Ask
<1> HIDE DEF x
<1>4. /\ channels \subseteq Keys /\ told \in [Slots -> Entries]
      /\ spent \in [asks : 0..MaxAsks, mishaps : 0..MaxMishaps]
  BY Zenon, InvParts
<1>5. spent' \in [asks : 0..MaxAsks, mishaps : 0..MaxMishaps]
  BY Zenon, <1>3, <1>4, SpentType
<1> QED BY ZenonT(30), <1>1, <1>2, <1>3, <1>4, <1>5, EnqueueInv

\* The server adds or deletes a channel, or a bound key becomes one.
LEMMA ChannelsInv ==
  ASSUME Inv, NEW t \in Tasks,
         Upsert(t) \/ \E key \in Keys : AddChannel(t, key) \/ DeleteChannel(t, key)
  PROVE  Inv'
<1> DEFINE x == [Idle EXCEPT !.pc = "reconcile"]
<1>1. x \in ActType /\ x.pc = "reconcile" /\ x.job # "bind"
  BY SMT, IdleType DEF ActType, Jobs, Idle
<1>2. /\ act[t].pc \in {"idle", "upsert"} /\ act' = [act EXCEPT ![t] = x]
      /\ lock' = Append(lock, t) /\ UNCHANGED <<table, loaded, stored, unsaved>>
  BY Zenon DEF Upsert, AddChannel, DeleteChannel
<1> HIDE DEF x
<1>3. /\ channels \subseteq Keys /\ told \in [Slots -> Entries]
      /\ spent \in [asks : 0..MaxAsks, mishaps : 0..MaxMishaps]
  BY Zenon, InvParts
<1>4. spent' \in [asks : 0..MaxAsks, mishaps : 0..MaxMishaps]
  BY Zenon, <1>3, SpentType DEF Upsert, AddChannel, DeleteChannel
<1>5. /\ channels' \subseteq Keys /\ told' \in [Slots -> Entries]
      /\ \A i \in Slots : told'[i] # None =>
           told'[i] = told[i] /\ (told[i] \in channels => told[i] \in channels')
  <2>1. CASE Upsert(t)
    <3>1. act[t].key \in Keys
      BY Zenon, <2>1 DEF Upsert, Inv, JobsOK, JobOK
    <3> QED BY Zenon, <1>3, <2>1, <3>1 DEF Upsert
  <2>2. CASE \E key \in Keys : AddChannel(t, key)
    BY Zenon, <1>3, <2>2 DEF AddChannel
  <2>3. CASE \E key \in Keys : DeleteChannel(t, key)
    <3>1. PICK key \in Keys : DeleteChannel(t, key)
      BY Zenon, <2>3
    <3>2. /\ channels' = channels \ {key}
          /\ told' = [i \in Slots |-> IF told[i] = key THEN None ELSE told[i]]
      BY Zenon, <3>1 DEF DeleteChannel
    <3>3. \A i \in Slots : told'[i] = IF told[i] = key THEN None ELSE told[i]
      BY Zenon, <3>2
    <3>4. told' \in [Slots -> Entries]
      BY Zenon, <1>3, <3>2 DEF Entries
    <3> QED BY Zenon, <1>3, <3>2, <3>3, <3>4
  <2> QED BY Zenon, <2>1, <2>2, <2>3
<1> QED BY Zenon, <1>1, <1>2, <1>4, <1>5, EnqueueInv

LEMMA ReconcileInv ==
  ASSUME Inv, NEW t \in Tasks, Reconcile(t)
  PROVE  Inv'
<1>1. /\ channels \subseteq Keys /\ IsTable(table) /\ OneEach(table) /\ act \in [Tasks -> ActType]
      /\ told \in [Slots -> Entries] /\ unsaved \in BOOLEAN
      /\ spent \in [asks : 0..MaxAsks, mishaps : 0..MaxMishaps]
  BY Zenon, InvParts
<1>2. Clean(Reconciled) /\ Kept(table, Reconciled) /\ PublicApart(Reconciled)
  BY Zenon, <1>1, ReconciledClean
<1>3. /\ Holds(t) /\ act[t].pc = "reconcile" /\ loaded /\ table' = Reconciled
      /\ UNCHANGED <<channels, loaded, stored, unsaved, spent>>
  BY Zenon DEF Reconcile
<1>4. CASE Reconciled = table
  <2>1. Done(t, table) /\ PublicApart(table)
    BY Zenon, <1>2, <1>4 DEF Reconcile
  <2>2. \A s \in Tasks : act[s].pc \notin {"save", "saveSet"}
    BY Zenon, <1>3, Alone
  <2>3. ~unsaved => stored = Saved
    BY Zenon, <1>3, <2>2 DEF Inv, TableDurable
  <2>4. UNCHANGED <<channels, table, loaded>> /\ stored' = stored /\ unsaved' = unsaved /\ spent' = spent
    BY Zenon, <1>3, <1>4
  <2>5. stored' \in {stored, Saved} /\ unsaved' \in BOOLEAN /\ (~unsaved' => stored' = Saved)
    BY Zenon, <1>1, <2>3, <2>4
  <2>6. spent' \in [asks : 0..MaxAsks, mishaps : 0..MaxMishaps]
    BY Zenon, <1>1, <2>4
  <2>7. act[t].pc \in {"reconcile", "save"}
    BY Zenon, <1>3
  <2> QED BY Zenon, <1>3, <2>1, <2>4, <2>5, <2>6, <2>7, DoneInv
<1>5. CASE Reconciled # table
  <2>1. act' = [act EXCEPT ![t].pc = "save"] /\ UNCHANGED <<lock, told>>
    BY Zenon, <1>5 DEF Reconcile
  <2>2. PICK x \in ActType : /\ act' = [act EXCEPT ![t] = x]
                             /\ x.pc = "save" /\ x.job = act[t].job /\ x.key = act[t].key
    BY Zenon, <1>1, <2>1, Steps
  <2>3. x.job = "bind" => x.key \in Keys
    BY Zenon, <2>2 DEF Inv, JobsOK, JobOK
  <2>4. \A i \in Slots \ {1} : told'[i] # None =>
          told'[i] = told[i] /\ i \in DOMAIN table' /\ table'[i] = told[i]
    BY Zenon, <1>2, <1>3, <2>1 DEF Inv, Remembered, Kept
  <2>5. IsTable(table') /\ OneEach(table') /\ PublicApart(table') /\ told' \in [Slots -> Entries]
    BY Zenon, <1>1, <1>2, <1>3, <2>1 DEF Clean
  <2>6. x.pc # "upsert"
    BY <2>2
  <2> QED BY ZenonT(30), <1>3, <2>1, <2>2, <2>3, <2>4, <2>5, <2>6, WriteInv
<1> QED BY Zenon, <1>4, <1>5

LEMMA SaveInv ==
  ASSUME Inv, NEW t \in Tasks, Save(t) \/ SaveFails(t)
  PROVE  Inv'
<1>1. spent \in [asks : 0..MaxAsks, mishaps : 0..MaxMishaps]
  BY Zenon, InvParts
<1>2. /\ act[t].pc = "save" /\ Done(t, table) /\ UNCHANGED <<channels, table, loaded>>
      /\ stored' \in {stored, Saved} /\ unsaved' \in BOOLEAN /\ (~unsaved' => stored' = Saved)
  BY Zenon DEF Save, SaveFails
<1>3. Holds(t) /\ loaded /\ PublicApart(table)
  BY Zenon, <1>2 DEF Inv, LockOK, JobsOK, JobOK
<1>4. spent' \in [asks : 0..MaxAsks, mishaps : 0..MaxMishaps]
  BY Zenon, <1>1, SpentType DEF Save, SaveFails
<1>5. act[t].pc \in {"reconcile", "save"}
  BY Zenon, <1>2
<1> QED BY Zenon, <1>2, <1>3, <1>4, <1>5, DoneInv

LEMMA SaveSetInv ==
  ASSUME Inv, NEW t \in Tasks, SaveSet(t) \/ SaveSetFails(t)
  PROVE  Inv'
<1>1. spent \in [asks : 0..MaxAsks, mishaps : 0..MaxMishaps]
  BY Zenon, InvParts
<1>2. /\ act[t].pc = "saveSet" /\ SetEnds(t) /\ UNCHANGED <<channels, table, loaded, told>>
      /\ stored' \in {stored, Saved} /\ unsaved' \in BOOLEAN /\ (~unsaved' => stored' = Saved)
  BY Zenon DEF SaveSet, SaveSetFails
<1>3. spent' \in [asks : 0..MaxAsks, mishaps : 0..MaxMishaps]
  BY Zenon, <1>1, SpentType DEF SaveSet, SaveSetFails
<1> QED BY Zenon, <1>2, <1>3, ReleaseInv

\* Apps forget the slot that is set, and the slot that lost its key to it.
LEMMA SetBindInv ==
  ASSUME Inv, NEW t \in Tasks, SetBind(t)
  PROVE  Inv'
<1> DEFINE i == act[t].slot
          key == act[t].key
<1>1. /\ IsTable(table) /\ OneEach(table) /\ act \in [Tasks -> ActType] /\ told \in [Slots -> Entries]
  BY Zenon, InvParts
<1>2. Holds(t) /\ act[t].pc = "set" /\ act[t].job = "bind" /\ act' = [act EXCEPT ![t].pc = "saveSet"]
      /\ UNCHANGED <<channels, loaded, stored, lock, unsaved, spent>>
  BY Zenon DEF SetBind
<1>3. loaded /\ key \in Keys
  BY Zenon, <1>2 DEF Inv, JobsOK, JobOK
<1>4. i \in Slots /\ key \in Entries
  BY Zenon, <1>1, <1>3 DEF ActType, Entries
<1>5. /\ table' = [j \in DOMAIN Padded(table, i) |->
                    IF j = i THEN key
                    ELSE IF Padded(table, i)[j] = key THEN None ELSE Padded(table, i)[j]]
      /\ told' = [j \in Slots |-> IF j = i \/ told[j] = key THEN None ELSE told[j]]
  BY Zenon DEF SetBind
<1>6. PICK x \in ActType : /\ act' = [act EXCEPT ![t] = x]
                           /\ x.pc = "saveSet" /\ x.job = act[t].job /\ x.key = key
  BY Zenon, <1>1, <1>2, Steps
<1> HIDE DEF i, key
<1>7. /\ IsTable(table') /\ OneEach(table')
      /\ \A j \in DOMAIN table' \ {i} :
           table'[j] = IF j \in DOMAIN table /\ table[j] # key THEN table[j] ELSE None
      /\ \A j \in DOMAIN table : j \in DOMAIN table'
  <2>1. PICK to : to = table'
    BY Zenon
  <2>2. Rebinds(to, i, key)
    BY Zenon, <1>5, <2>1 DEF Rebinds
  <2>3. /\ IsTable(to) /\ OneEach(to) /\ i \in DOMAIN to /\ to[i] = key
        /\ \A j \in DOMAIN to \ {i} :
             to[j] = IF j \in DOMAIN table /\ table[j] # key THEN table[j] ELSE None
        /\ \A j \in DOMAIN table : j \in DOMAIN to
    BY Zenon, <1>1, <1>4, <2>2, Rebound
  <2> QED BY Zenon, <2>1, <2>3
<1>8. \A j \in Slots : told'[j] = IF j = i \/ told[j] = key THEN None ELSE told[j]
  BY Zenon, <1>5
<1>9. told' \in [Slots -> Entries]
  BY Zenon, <1>1, <1>5 DEF Entries
<1>10. \A j \in Slots \ {1} : told'[j] # None =>
         told'[j] = told[j] /\ j \in DOMAIN table' /\ table'[j] = told[j]
  <2> SUFFICES ASSUME NEW j \in Slots \ {1}, told'[j] # None
               PROVE  told'[j] = told[j] /\ j \in DOMAIN table' /\ table'[j] = told[j]
    BY Zenon
  <2>1. j # i /\ told[j] # key /\ told'[j] = told[j]
    BY Zenon, <1>8
  <2>2. j \in DOMAIN table /\ table[j] = told[j]
    BY Zenon, <1>3, <2>1 DEF Inv, Remembered
  <2> QED BY Zenon, <1>7, <2>1, <2>2
<1>11. x.pc # "upsert" /\ x.pc # "save" /\ x.pc \in {"save", "saveSet"}
  BY <1>6
<1>12. x.job = "bind" => x.key \in Keys
  BY Zenon, <1>3, <1>6
<1> QED BY ZenonT(30), <1>2, <1>3, <1>6, <1>7, <1>9, <1>10, <1>11, <1>12, WriteInv

LEMMA SetClearInv ==
  ASSUME Inv, NEW t \in Tasks, SetClear(t)
  PROVE  Inv'
<1> DEFINE i == act[t].slot
<1>1. /\ IsTable(table) /\ OneEach(table) /\ act \in [Tasks -> ActType] /\ told \in [Slots -> Entries]
  BY Zenon, InvParts
<1>2. /\ Holds(t) /\ act[t].pc = "set" /\ act[t].job = "clear"
      /\ UNCHANGED <<channels, loaded, stored, unsaved, spent>>
  BY Zenon DEF SetClear
<1>3. loaded
  BY Zenon, <1>2 DEF Inv, JobsOK, JobOK
<1>4. i \in Slots /\ None \in Entries
  BY Zenon, <1>1 DEF ActType, Entries
<1>5. /\ table' = [Padded(table, i) EXCEPT ![i] = None] /\ told' = [told EXCEPT ![i] = None]
      /\ \/ act' = [act EXCEPT ![t].pc = "saveSet"] /\ UNCHANGED lock
         \/ Padded(table, i)[i] = None /\ act' = [act EXCEPT ![t] = Idle] /\ lock' = Tail(lock)
  BY Zenon DEF SetClear
<1> HIDE DEF i
<1>6. /\ IsTable(table') /\ OneEach(table') /\ i \in DOMAIN table' /\ table'[i] = None
      /\ \A j \in DOMAIN table' \ {i} :
           table'[j] = IF j \in DOMAIN table /\ table[j] # None THEN table[j] ELSE None
      /\ \A j \in DOMAIN table : j \in DOMAIN table'
  <2>1. PICK to : to = table'
    BY Zenon
  <2>2. Rebinds(to, i, None)
    BY Zenon, <1>5, <2>1 DEF Rebinds
  <2>3. /\ IsTable(to) /\ OneEach(to) /\ i \in DOMAIN to /\ to[i] = None
        /\ \A j \in DOMAIN to \ {i} :
             to[j] = IF j \in DOMAIN table /\ table[j] # None THEN table[j] ELSE None
        /\ \A j \in DOMAIN table : j \in DOMAIN to
    BY Zenon, <1>1, <1>4, <2>2, Rebound
  <2> QED BY Zenon, <2>1, <2>3
<1>7. told' \in [Slots -> Entries] /\ told'[i] = None /\ \A j \in Slots \ {i} : told'[j] = told[j]
  BY Zenon, <1>1, <1>4, <1>5
<1>8. \A j \in Slots \ {1} : told'[j] # None =>
        told'[j] = told[j] /\ j \in DOMAIN table' /\ table'[j] = told[j]
  <2> SUFFICES ASSUME NEW j \in Slots \ {1}, told'[j] # None
               PROVE  told'[j] = told[j] /\ j \in DOMAIN table' /\ table'[j] = told[j]
    BY Zenon
  <2>1. j # i /\ told'[j] = told[j]
    BY Zenon, <1>7
  <2>2. j \in DOMAIN table /\ table[j] = told[j]
    BY Zenon, <1>3, <2>1 DEF Inv, Remembered
  <2> QED BY Zenon, <1>6, <2>1, <2>2
<1>9. CASE act' = [act EXCEPT ![t].pc = "saveSet"] /\ UNCHANGED lock
  <2>1. PICK x \in ActType : /\ act' = [act EXCEPT ![t] = x]
                             /\ x.pc = "saveSet" /\ x.job = act[t].job /\ x.key = act[t].key
    BY Zenon, <1>1, <1>9, Steps
  <2>2. x.pc # "upsert" /\ x.pc # "save" /\ x.pc \in {"save", "saveSet"} /\ x.job # "bind"
    BY <1>2, <2>1
  <2> QED BY ZenonT(30), <1>2, <1>3, <1>6, <1>7, <1>8, <1>9, <2>1, <2>2, WriteInv
<1>10. CASE Padded(table, i)[i] = None /\ act' = [act EXCEPT ![t] = Idle] /\ lock' = Tail(lock)
  <2>1. Idle.pc # "upsert" /\ Idle.pc # "save" /\ Idle.job # "bind"
    BY IdleType
  <2>2. i \in DOMAIN table => table[i] = None
    BY Zenon, <1>1, <1>4, <1>10, PaddedFacts
  <2>3. \A j \in Slots : (IF j \in DOMAIN table THEN table[j] ELSE None) =
                         (IF j \in DOMAIN table' THEN table'[j] ELSE None)
    <3> SUFFICES ASSUME NEW j \in Slots
                 PROVE  (IF j \in DOMAIN table THEN table[j] ELSE None) =
                        (IF j \in DOMAIN table' THEN table'[j] ELSE None)
      BY Zenon
    <3>1. CASE j = i
      BY Zenon, <1>6, <2>2, <3>1
    <3>2. CASE j # i
      BY Zenon, <1>6, <3>2
    <3> QED BY Zenon, <3>1, <3>2
  <2> QED BY ZenonT(30), <1>2, <1>3, <1>6, <1>7, <1>8, <1>10, <2>1, <2>3, IdleType, WriteInv
<1> QED BY Zenon, <1>5, <1>9, <1>10

\* The table is read back, or could not be and starts empty.
LEMMA LoadInv ==
  ASSUME Inv, NEW t \in Tasks, LoadSlots(t) \/ LoadFails(t)
  PROVE  Inv'
<1>1. /\ stored \in [Slots -> Entries] /\ IsTable(table) /\ OneEach(table)
      /\ \A i, j \in Slots : stored[i] = stored[j] /\ stored[i] # None => i = j
      /\ told \in [Slots -> Entries] /\ unsaved \in BOOLEAN
      /\ spent \in [asks : 0..MaxAsks, mishaps : 0..MaxMishaps]
  BY Zenon, InvParts
<1>2. /\ ~loaded /\ loaded' = TRUE /\ UNCHANGED <<channels, stored, lock, act>>
  BY Zenon DEF LoadSlots, LoadFails
<1>3. spent' \in [asks : 0..MaxAsks, mishaps : 0..MaxMishaps]
  BY Zenon, <1>1, SpentType DEF LoadSlots, LoadFails
<1>4. \A s \in Tasks : act[s].pc \notin {"save", "set", "saveSet"}
  BY Zenon, <1>2 DEF Inv, JobsOK, JobOK
<1>5. ~unsaved
  BY Zenon, <1>2 DEF Inv, FreshOK
<1>6. LockOK' /\ FreshOK'
  BY Zenon, <1>2, <1>4 DEF LockOK, FreshOK
<1>7. JobsOK'
  BY Zenon, <1>2, <1>4 DEF Inv, JobsOK, JobOK
<1>8. CASE LoadSlots(t)
  <2>1. table' = Restored /\ UNCHANGED <<unsaved, told>>
    BY Zenon, <1>8 DEF LoadSlots
  <2>2. /\ IsTable(Restored) /\ OneEach(Restored)
        /\ \A i \in Slots : IF i \in DOMAIN Restored THEN Restored[i] = stored[i]
                            ELSE stored[i] = None
    BY Zenon, <1>1, RestoredTable
  <2>3. /\ IsTable(table') /\ OneEach(table')
        /\ \A i \in Slots : IF i \in DOMAIN table' THEN table'[i] = stored[i] ELSE stored[i] = None
    BY Zenon, <2>1, <2>2
  <2>4. TypeOK'
    BY Zenon, <1>2, <1>3, <2>1, <2>3 DEF Inv, TypeOK, IsTable, Entries
  <2>5. OneSlotEach'
    BY Zenon, <1>1, <1>2, <2>3 DEF OneSlotEach, OneEach
  <2>6. Remembered'
    BY Zenon, <1>2, <1>5, <2>1, <2>3 DEF Inv, Remembered
  <2>7. TableDurable'
    <3>1. Saved' = [i \in Slots |-> IF i \in DOMAIN table' THEN table'[i] ELSE None]
      BY Zenon DEF Saved, Slots
    <3>2. Saved' = [i \in Slots |-> stored[i]]
      BY Zenon, <2>3, <3>1
    <3>3. stored = [i \in Slots |-> stored[i]]
      BY Zenon, <1>1
    <3> QED BY Zenon, <1>2, <3>2, <3>3 DEF TableDurable
  <2> QED BY Zenon, <1>6, <1>7, <2>4, <2>5, <2>6, <2>7 DEF Inv
<1>9. CASE LoadFails(t)
  <2>1. unsaved' = TRUE /\ table' = table /\ told' = [i \in Slots |-> None]
    BY Zenon, <1>9 DEF LoadFails
  <2>2. told' \in [Slots -> Entries] /\ \A i \in Slots : told'[i] = None
    BY Zenon, <2>1 DEF Entries
  <2>3. TypeOK'
    BY Zenon, <1>2, <1>3, <2>1, <2>2 DEF Inv, TypeOK, IsTable, Entries
  <2>4. OneSlotEach' /\ TableDurable'
    BY Zenon, <1>2, <2>1 DEF Inv, OneSlotEach, TableDurable
  <2>5. Remembered'
    BY Zenon, <2>2 DEF Remembered
  <2> QED BY Zenon, <1>6, <1>7, <2>3, <2>4, <2>5 DEF Inv
<1> QED BY Zenon, <1>8, <1>9

LEMMA TransmitInv ==
  ASSUME Inv, NEW t \in Tasks, Transmit(t)
  PROVE  Inv'
<1>1. act \in [Tasks -> ActType] /\ Idle \in ActType
  BY Zenon, InvParts, IdleType
<1>2. /\ act[t].pc = "send" /\ act' = [act EXCEPT ![t] = Idle]
      /\ UNCHANGED <<channels, table, loaded, stored, lock, unsaved, told, spent>>
  BY Zenon DEF Transmit
<1>3. act' \in [Tasks -> ActType] /\ act'[t] = Idle /\ \A s \in Tasks \ {t} : act'[s] = act[s]
  BY Zenon, <1>1, <1>2, ActSet
<1>4. /\ Idle.pc \notin {"save", "set", "saveSet", "upsert"} /\ Idle.job # "bind"
      /\ act[t].pc \notin {"save", "saveSet"}
  BY <1>2, IdleType
<1>5. TypeOK'
  BY Zenon, <1>2, <1>3 DEF Inv, TypeOK
<1>6. LockOK'
  BY Zenon, <1>2, <1>3, <1>4 DEF Inv, LockOK, Holds
<1>7. JobsOK'
  BY Zenon, <1>2, <1>3, <1>4 DEF Inv, JobsOK, JobOK, PublicApart
<1>8. FreshOK' /\ OneSlotEach' /\ Remembered'
  BY Zenon, <1>2 DEF Inv, FreshOK, OneSlotEach, Remembered
<1>9. TableDurable'
  BY Zenon, <1>2, <1>3, <1>4 DEF Inv, TableDurable, Saved
<1> QED BY Zenon, <1>5, <1>6, <1>7, <1>8, <1>9 DEF Inv

LEMMA EmptyTable == IsTable(<<>>) /\ DOMAIN <<>> = {} /\ <<>> \in Seq(Tasks)
BY SlotsFacts DEF IsTable

\* Tasks, lock and table are gone; what was saved is not.
LEMMA RestartInv ==
  ASSUME Inv, Restart
  PROVE  Inv'
<1>1. /\ stored \in [Slots -> Entries] /\ told \in [Slots -> Entries]
      /\ \A i, j \in Slots : stored[i] = stored[j] /\ stored[i] # None => i = j
      /\ spent \in [asks : 0..MaxAsks, mishaps : 0..MaxMishaps]
  BY Zenon, InvParts
<1>2. /\ table' = <<>> /\ loaded' = FALSE /\ lock' = <<>> /\ act' = [t \in Tasks |-> Idle]
      /\ unsaved' = FALSE /\ told' = (IF unsaved THEN [i \in Slots |-> None] ELSE told)
      /\ UNCHANGED <<channels, stored>>
  BY Zenon DEF Restart
<1>3. spent' \in [asks : 0..MaxAsks, mishaps : 0..MaxMishaps]
  BY Zenon, <1>1, SpentType DEF Restart
<1>4. /\ told' \in [Slots -> Entries]
      /\ \A i \in Slots : told'[i] # None => ~unsaved /\ told'[i] = told[i]
  <2>1. CASE unsaved
    <3>1. told' = [i \in Slots |-> None]
      BY Zenon, <1>2, <2>1
    <3> QED BY Zenon, <3>1 DEF Entries
  <2>2. CASE ~unsaved
    BY Zenon, <1>1, <1>2, <2>2
  <2> QED BY Zenon, <2>1, <2>2
<1>5. act' \in [Tasks -> ActType] /\ \A s \in Tasks : act'[s] = Idle
  BY Zenon, <1>2, IdleType
<1>6. Idle.pc \notin {"save", "set", "saveSet", "upsert"} /\ Idle.job # "bind"
  BY IdleType
<1>7. TypeOK'
  BY Zenon, <1>2, <1>3, <1>4, <1>5, EmptyTable DEF Inv, TypeOK, IsTable, Entries
<1>8. LockOK' /\ JobsOK'
  BY Zenon, <1>5, <1>6 DEF LockOK, JobsOK, JobOK
<1>9. FreshOK' /\ OneSlotEach' /\ TableDurable'
  BY Zenon, <1>1, <1>2, EmptyTable DEF FreshOK, OneSlotEach, TableDurable
<1>10. Remembered'
  BY Zenon, <1>2, <1>4 DEF Inv, Remembered
<1> QED BY Zenon, <1>7, <1>8, <1>9, <1>10 DEF Inv

LEMMA InitInv == Init => Inv
<1> SUFFICES ASSUME Init PROVE Inv
  BY Zenon
<1>1. /\ channels \in {{}, {Public}} /\ table = <<>> /\ loaded = FALSE /\ lock = <<>>
      /\ unsaved = FALSE /\ spent = [asks |-> 0, mishaps |-> 0]
      /\ stored = [i \in Slots |-> None] /\ told = [i \in Slots |-> None]
      /\ act = [t \in Tasks |-> Idle]
  BY Zenon DEF Init
<1>2. spent \in [asks : 0..MaxAsks, mishaps : 0..MaxMishaps] /\ channels \in SUBSET Keys
  BY <1>1, SlotsAssumption
<1>3. /\ stored \in [Slots -> Entries] /\ told \in [Slots -> Entries]
      /\ \A i \in Slots : stored[i] = None /\ told[i] = None
  BY Zenon, <1>1 DEF Entries
<1>4. act \in [Tasks -> ActType] /\ \A s \in Tasks : act[s] = Idle
  BY Zenon, <1>1, IdleType
<1>5. Idle.pc \notin {"save", "set", "saveSet", "upsert"} /\ Idle.job # "bind"
  BY IdleType
<1>6. TypeOK
  BY ZenonT(30), <1>1, <1>2, <1>3, <1>4, EmptyTable DEF TypeOK, IsTable, Entries
<1>7. LockOK /\ JobsOK
  BY Zenon, <1>4, <1>5 DEF LockOK, JobsOK, JobOK
<1>8. FreshOK /\ OneSlotEach /\ TableDurable /\ Remembered
  BY Zenon, <1>1, <1>3, EmptyTable DEF FreshOK, OneSlotEach, TableDurable, Remembered
<1> QED BY Zenon, <1>6, <1>7, <1>8 DEF Inv

LEMMA NextInv == Inv /\ [Next]_vars => Inv'
<1> SUFFICES ASSUME Inv, [Next]_vars PROVE Inv'
  BY Zenon
<1>1. CASE UNCHANGED vars
  BY Zenon, <1>1 DEF vars, Inv, TypeOK, LockOK, Holds, JobsOK, JobOK, PublicApart, FreshOK, OneSlotEach,
                     Remembered, TableDurable, Saved
<1>2. CASE Restart
  BY Zenon, <1>2, RestartInv
<1>3. ASSUME NEW t \in Tasks, Task(t) PROVE Inv'
  <2>1. CASE \/ Ask(t, "reconcile", 1, None)
             \/ \E i \in Slots : Ask(t, "send", i, None) \/ Ask(t, "clear", i, None)
             \/ \E i \in Slots, key \in Keys : Ask(t, "bind", i, key)
    BY Zenon, <2>1, AsksInv
  <2>2. CASE LoadSlots(t) \/ LoadFails(t)
    BY Zenon, <2>2, LoadInv
  <2>3. CASE Reconcile(t)
    BY Zenon, <2>3, ReconcileInv
  <2>4. CASE Save(t) \/ SaveFails(t)
    BY Zenon, <2>4, SaveInv
  <2>5. CASE Transmit(t)
    BY ZenonT(30), <2>5, TransmitInv
  <2>6. CASE SetClear(t)
    BY Zenon, <2>6, SetClearInv
  <2>7. CASE SetBind(t)
    BY Zenon, <2>7, SetBindInv
  <2>8. CASE SaveSet(t) \/ SaveSetFails(t)
    BY Zenon, <2>8, SaveSetInv
  <2>9. CASE Upsert(t) \/ \E key \in Keys : AddChannel(t, key) \/ DeleteChannel(t, key)
    BY Zenon, <2>9, ChannelsInv
  <2> QED BY ZenonT(30), <1>3, <2>1, <2>2, <2>3, <2>4, <2>5, <2>6, <2>7, <2>8, <2>9 DEF Task
<1> QED BY Zenon, <1>1, <1>2, <1>3 DEF Next

-----------------------------------------------------------------------------

\* The invariant holds always: from Init, and through every command, event, failed write
\* and restart of the slot table in server.py.
THEOREM SlotsInvariant == Spec => []Inv
<1>1. Init => Inv
  BY Zenon, InitInv
<1>2. Inv /\ [Next]_vars => Inv'
  BY Zenon, NextInv
<1> QED BY <1>1, <1>2, PTL DEF Spec

\* The state of the virtual node's slot table has its types, for any number of channels,
\* tasks and slots.
THEOREM SlotTypes == Spec => []TypeOK
<1>1. Inv => TypeOK
  BY Zenon DEF Inv
<1> QED BY <1>1, SlotsInvariant, PTL

\* However binds, clears, additions and the pinning of the public channel in
\* _ensure_channel_slots follow each other, no key comes to be in two slots, neither in
\* _channel_slots nor in the database.
THEOREM KeysHaveOneSlot == Spec => []OneSlotEach
<1>1. Inv => OneSlotEach
  BY Zenon DEF Inv
<1> QED BY <1>1, SlotsInvariant, PTL

\* A slot that apps know by a channel holds no other channel, whatever is reconciled,
\* restarted or not written in between.
THEOREM SlotsKeepTheirMeaning == Spec => []SlotKeepsMeaning
<1>1. Inv => SlotKeepsMeaning
  <2> SUFFICES ASSUME Inv, NEW i \in DOMAIN table \ {1}, told[i] # None, table[i] # None
               PROVE  table[i] = told[i]
    BY Zenon DEF SlotKeepsMeaning
  <2>1. DOMAIN table \subseteq Slots
    BY Zenon, InvParts, TableFacts
  <2>2. loaded
    BY ZenonT(30), EmptyTable DEF Inv, FreshOK
  <2> QED BY Zenon, <2>1, <2>2 DEF Inv, Remembered
<1> QED BY <1>1, SlotsInvariant, PTL

\* Whenever nobody is about to write it and no write has failed, the table in the database
\* is the table in memory, which a restart reads back.
THEOREM TableIsDurable == Spec => []TableDurable
<1>1. Inv => TableDurable
  BY Zenon DEF Inv
<1> QED BY <1>1, SlotsInvariant, PTL
==============================================================================
