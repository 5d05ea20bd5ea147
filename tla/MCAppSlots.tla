---- MODULE MCAppSlots ----
EXTENDS AppSlots, SequencesExt

TaskSwaps == Permutations(Tasks)

\* One round of the loop of _ensure_channel_slots over the sorted keys.
SeatedNext(slots, key) ==
  IF Len(slots) < MaxSlots THEN Append(slots, key)
  ELSE IF Blank(slots) THEN [slots EXCEPT ![At(slots, None)] = key]
  ELSE slots

\* Seated is what the loop comes to, whatever the table and the new keys.
ASSUME SeatedIsTheLoop ==
  \A slots \in BoundedSeq(Keys \cup {None}, MaxSlots), keys \in SUBSET (1..MaxSlots + 1) :
    Seated(slots, keys) = FoldLeft(SeatedNext, slots, SetToSortSeq(keys, <))
====
