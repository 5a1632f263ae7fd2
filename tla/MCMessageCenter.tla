-------------------------- MODULE MCMessageCenter --------------------------
(***************************************************************************)
(* Small instances of the message center; event 1 is not a message.        *)
(***************************************************************************)
EXTENDS MessageCenter, TLC

CONSTANTS p1, p2, c1, c2

TwoPods == {p1, p2}
OnePod == {p1}
OneClient == {c1}
TwoClients == {c1, c2}
NotMessages == {1}
PodSymmetry == Permutations(TwoPods)

=============================================================================
