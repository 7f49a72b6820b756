--------------------------- MODULE MCOtcAgreement ---------------------------
(***************************************************************************)
(* Small instances of OtcAgreement for TLC.  Terms differ in both amount    *)
(* and premium, so that a contract on other terms than those paid for, or   *)
(* shares reserved for other terms, make a difference.                      *)
(***************************************************************************)
EXTENDS OtcAgreement, TLC

MCTerms == {[amount |-> 1, premium |-> 1], [amount |-> 2, premium |-> 2]}

\* Terms that are never changed, to see nothing but repeated acceptances.
MCOneTerm == {[amount |-> 1, premium |-> 1]}

\* Requests are alike until they act.
Symmetry == Permutations(Requesters)
=============================================================================
