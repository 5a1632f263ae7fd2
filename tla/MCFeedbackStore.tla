-------------------------- MODULE MCFeedbackStore --------------------------
(***************************************************************************)
(* Two request threads over a pool of two: refused only once a slot has    *)
(* leaked, with one report, one reply and one image.                       *)
(***************************************************************************)
EXTENDS FeedbackStore

CONSTANTS r1, r2

TwoRequests == {r1, r2}

=============================================================================
