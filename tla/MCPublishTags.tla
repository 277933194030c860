--------------------------- MODULE MCPublishTags ---------------------------
(***************************************************************************)
(* Instances of PublishTags for TLC.                                       *)
(***************************************************************************)
EXTENDS PublishTags

CONSTANTS l1, l2

Plain == [listeners |-> {l1}, late |-> FALSE, overlaps |-> FALSE, closes |-> FALSE,
          publications |-> 2, legs |-> 3]
Long  == [Plain EXCEPT !.publications = 3]
Two   == [Plain EXCEPT !.listeners = {l1, l2}, !.legs = 2]

\* A listener over many publications, two listeners, and what else the callers may do.
MCPrograms ==
    { Long, Two, [Plain EXCEPT !.late = TRUE], [Plain EXCEPT !.overlaps = TRUE],
      [Plain EXCEPT !.closes = TRUE] }

\* Two listeners.
TwoListeners == {Two}
=============================================================================
