--------------------------------- MODULE MCFeed ---------------------------------
(* One index and two strikes that replace one another.                       *)
EXTENDS Feed

CONSTANTS index, s1, s2

MCFeeds == 1 .. 4
MCIndices == {index}
MCBands == {{s1}, {s2}}
=============================================================================
