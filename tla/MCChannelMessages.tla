------------------------- MODULE MCChannelMessages -------------------------
(* Small instances of ChannelMessages. *)
EXTENDS ChannelMessages, TLC

CONSTANTS r1, r2, h1, h2, x

MCIds == 1..MaxEvents
MCContents == (1..MaxAsks) \cup Foreign

\* Requests are alike, and so are the frames being processed.
Alike == Permutations(Requests) \cup Permutations(Hearers)
=============================================================================
