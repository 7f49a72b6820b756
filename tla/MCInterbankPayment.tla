------------------------- MODULE MCInterbankPayment -------------------------
(* Small instances of InterbankPayment for TLC. *)
EXTENDS InterbankPayment, TLC

\* Workers are alike, and so are handlers.
Symmetry == Permutations(Workers) \cup Permutations(Handlers)
=============================================================================
