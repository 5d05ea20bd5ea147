--------------------------- MODULE MCChannelSlots ---------------------------
(* Small instances of ChannelSlots. *)
EXTENDS ChannelSlots, TLC

CONSTANTS pub, a, b, c

\* Every channel but Public is treated alike.
Alike == Permutations(Keys \ {Public})
=============================================================================
