---------------------------- MODULE Publication ----------------------------
(* What a release line promises: a bundle appears at once, it is whole when  *)
(* it appears, and nothing in it changes afterwards.                         *)

CONSTANTS
  Absence,    \* nothing is published
  Whole(_)    \* what a bundle must be

VARIABLE offer

PInit == offer = Absence

Publish == offer = Absence /\ offer' # Absence /\ Whole(offer')

PSpec == PInit /\ [][Publish]_offer

=============================================================================
