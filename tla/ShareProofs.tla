---------------------------- MODULE ShareProofs ----------------------------
(***************************************************************************)
(* Theorems about what moves shares in trading-service: the agreements on   *)
(* offers (OtcAgreement), the exercise of listed options (OptionExercise),  *)
(* the orders (OrderExecution) and the units of funds (InvestmentFunds),    *)
(* all but the first as MCTrading composes them.                            *)
(*                                                                          *)
(* Of an agreement two accounts are kept: of the premium that each offer's  *)
(* buyer has paid, against the requests that hold it, and of the seller's   *)
(* reserved shares, against the contracts.  Whole-row saves put back any    *)
(* row that a request has once read; RowsInv says what such a row can still *)
(* say that is true.                                                        *)
(*                                                                          *)
(* Of an option OptionInv says what a request is about to write back: as    *)
(* long as no write came between, what the row holds.                       *)
(*                                                                          *)
(* Of an order OrderInv says that one actor at a time holds copies of it,   *)
(* which are the row; that a fill is counted where it has arrived and is    *)
(* with a worker until it does; and that an ownership is its opening with   *)
(* what was bought and without what was sold.                               *)
(*                                                                          *)
(* Of a fund FundInv says that one actor at a time works on a position, and *)
(* which money and which units it still owes to the fund.                   *)
(***************************************************************************)
EXTENDS MCTrading, SumLemmas

\* A row to be written has terms that were proposed, and its contract exists.
Writing  == {"insert", "check", "save", "account", "accept"}
Charging == {"pay"} \cup Holding

RowsInv ==
    /\ \A o \in Offers : /\ offer[o].status # "NONE" => offer[o].terms \in Terms
                         /\ offer[o].contract => Agreed(o)
    /\ \A r \in Requesters :
         /\ pc[r] \in Writing => wanted[r].terms \in Terms
         /\ pc[r] = "insert" => ~wanted[r].contract
         /\ pc[r] \in {"check", "save", "account"} /\ wanted[r].contract => Agreed(target[r])
         /\ pc[r] \in Charging => snapshot[r] \in Terms

\* The premium of an offer that one request holds.
HeldBy(r, o) == IF target[r] = o /\ pc[r] \in Holding THEN snapshot[r].premium ELSE 0

\* The seller's account.
SharesInv == ReservedIsContracted /\ ContractsCovered

AgreementInv == AgreementTypeOK /\ RowsInv

-----------------------------------------------------------------------------
(* Terms and totals *)

LEMMA TermsTyped ==
  ASSUME AgreementAssumption
  PROVE  /\ NoTerms \notin Terms
         /\ \A t \in Terms \cup {NoTerms} : t.amount \in Nat /\ t.premium \in Nat
         /\ \A t \in Terms : t.amount > 0 /\ t.premium > 0
BY DEF AgreementAssumption, NoTerms

\* What one request does to the premiums held of an offer.
LEMMA UndoneChanges ==
  ASSUME AgreementAssumption, AgreementTypeOK, AgreementTypeOK',
         NEW r \in Requesters, NEW o \in Offers,
         \A s \in Requesters \ {r} :
           pc'[s] = pc[s] /\ target'[s] = target[s] /\ snapshot'[s] = snapshot[s]
  PROVE  /\ Undone(o) \in Int /\ HeldBy(r, o) \in Nat /\ HeldBy(r, o)' \in Nat
         /\ Undone(o)' = Undone(o) - HeldBy(r, o) + HeldBy(r, o)'
<1> DEFINE f == [s \in Requesters |-> HeldBy(s, o)]
           g == [s \in Requesters |-> HeldBy(s, o)']
<1>1. /\ \A s \in Requesters : HeldBy(s, o) \in Nat /\ HeldBy(s, o)' \in Nat
      /\ \A s \in Requesters \ {r} : HeldBy(s, o) = HeldBy(s, o)'
  BY TermsTyped DEF HeldBy, AgreementTypeOK
<1>2. Undone(o) = SumFunctionOnSet(f, Requesters) /\ Undone(o)' = SumFunctionOnSet(g, Requesters)
  BY DEF Undone, HeldBy
<1>3. /\ f \in [Requesters -> Int] /\ g \in [Requesters -> Int]
      /\ f[r] = HeldBy(r, o) /\ g[r] = HeldBy(r, o)'
      /\ \A s \in Requesters \ {r} : f[s] = g[s]
      /\ IsFiniteSet(Requesters)
  BY <1>1 DEF AgreementAssumption
<1> HIDE DEF f, g
<1>4. SumFunctionOnSet(f, Requesters) \in Int
  BY <1>3, SumType
<1>5. SumFunctionOnSet(g, Requesters) = SumFunctionOnSet(f, Requesters) - f[r] + g[r]
  BY <1>3, SumUpdated
<1> QED BY <1>1, <1>2, <1>3, <1>4, <1>5

LEMMA ContractedTyped ==
  ASSUME AgreementAssumption, AgreementTypeOK
  PROVE  Contracted \in Int
<1> DEFINE f == [o \in Offers |-> agreement[o].amount]
<1>1. f \in [Offers -> Int] /\ IsFiniteSet(Offers)
  BY TermsTyped DEF AgreementTypeOK, AgreementAssumption
<1> HIDE DEF f
<1>2. SumFunctionOnSet(f, Offers) \in Int
  BY <1>1, SumType
<1> QED BY <1>2 DEF Contracted, f

LEMMA NegotiatedTyped ==
  ASSUME AgreementAssumption, AgreementTypeOK, NEW e
  PROVE  Negotiated(e) \in Int /\ Negotiated(e) >= 0
<1> DEFINE f == [o \in Offers |->
      IF o # e /\ offer[o].status = "ACTIVE" THEN offer[o].terms.amount ELSE 0]
<1>1. \A o \in Offers : offer[o].terms \in Terms \cup {NoTerms}
  BY DEF AgreementTypeOK, Rows
<1>2. f \in [Offers -> Int] /\ IsFiniteSet(Offers) /\ \A o \in Offers : f[o] >= 0
  BY <1>1, TermsTyped DEF AgreementAssumption
<1> HIDE DEF f
<1>3. SumFunctionOnSet(f, Offers) \in Int /\ SumFunctionOnSet(f, Offers) >= 0
  BY <1>2, SumType, SumNotNegative
<1> QED BY <1>3 DEF Negotiated, f

\* A contract adds its shares to the contracted ones.
LEMMA ContractedAdds ==
  ASSUME AgreementAssumption, AgreementTypeOK, NEW o \in Offers, NEW t \in Terms, ~Agreed(o),
         agreement' = [agreement EXCEPT ![o] = t]
  PROVE  Contracted' = Contracted + t.amount
<1> DEFINE f == [k \in Offers |-> agreement[k].amount]
           g == [k \in Offers |-> agreement'[k].amount]
<1>1. /\ agreement \in [Offers -> Terms \cup {NoTerms}]
      /\ agreement' \in [Offers -> Terms \cup {NoTerms}]
  BY DEF AgreementTypeOK
<1>2. /\ f \in [Offers -> Int] /\ g \in [Offers -> Int] /\ IsFiniteSet(Offers)
      /\ f[o] = 0 /\ g[o] = t.amount /\ \A k \in Offers \ {o} : f[k] = g[k]
  BY <1>1, TermsTyped DEF AgreementTypeOK, AgreementAssumption, Agreed, NoTerms
<1> HIDE DEF f, g
<1>3. SumFunctionOnSet(f, Offers) \in Int
  BY <1>2, SumType
<1>4. SumFunctionOnSet(g, Offers) = SumFunctionOnSet(f, Offers) - f[o] + g[o]
  BY <1>2, SumUpdated
<1>5. t.amount \in Nat
  BY TermsTyped
<1>6. SumFunctionOnSet(g, Offers) = SumFunctionOnSet(f, Offers) + t.amount
  BY <1>2, <1>3, <1>4, <1>5
<1> QED BY <1>6 DEF Contracted, f, g
-----------------------------------------------------------------------------
(* What one request leaves alone *)

\* No contract is made, and what each buyer has paid still answers to the
\* premiums that are held.
BalancesKept ==
    /\ agreement' = agreement
    /\ \A o \in Offers : paid'[o] - Undone(o)' = paid[o] - Undone(o)

OthersKept(r) == \A s \in Requesters \ {r} :
    pc'[s] = pc[s] /\ target'[s] = target[s] /\ snapshot'[s] = snapshot[s]

LEMMA NothingHeld ==
  ASSUME AgreementAssumption, AgreementTypeOK, AgreementTypeOK', NEW r \in Requesters,
         OthersKept(r), pc[r] \notin Holding, pc'[r] \notin Holding,
         agreement' = agreement, paid' = paid
  PROVE  BalancesKept
<1> SUFFICES ASSUME NEW o \in Offers PROVE paid'[o] - Undone(o)' = paid[o] - Undone(o)
  BY DEF BalancesKept
<1>1. /\ Undone(o) \in Int /\ HeldBy(r, o) \in Nat /\ HeldBy(r, o)' \in Nat
      /\ Undone(o)' = Undone(o) - HeldBy(r, o) + HeldBy(r, o)'
  BY UndoneChanges DEF OthersKept
<1>2. HeldBy(r, o) = 0 /\ HeldBy(r, o)' = 0
  BY DEF HeldBy
<1> QED BY <1>1, <1>2

\* A premium is paid or given back by the request that holds it from then on,
\* or no longer does.
LEMMA PremiumMoves ==
  ASSUME AgreementAssumption, AgreementTypeOK, AgreementTypeOK', NEW r \in Requesters,
         OthersKept(r), target'[r] = target[r], agreement' = agreement,
         NEW n \in Int, Transfer(r, n),
         HeldBy(r, target[r])' = HeldBy(r, target[r]) + n
  PROVE  BalancesKept
<1> SUFFICES ASSUME NEW o \in Offers PROVE paid'[o] - Undone(o)' = paid[o] - Undone(o)
  BY DEF BalancesKept
<1>1. /\ Undone(o) \in Int /\ HeldBy(r, o) \in Nat /\ HeldBy(r, o)' \in Nat
      /\ Undone(o)' = Undone(o) - HeldBy(r, o) + HeldBy(r, o)'
  BY UndoneChanges DEF OthersKept
<1>2. paid[o] \in Int /\ target[r] \in Offers /\ paid \in [Offers -> Int]
  BY DEF AgreementTypeOK
<1>3. CASE o = target[r]
  <2>1. paid'[o] = paid[o] + n
    BY <1>2, <1>3 DEF Transfer
  <2>2. HeldBy(r, o)' = HeldBy(r, o) + n
    BY <1>3 DEF HeldBy
  <2> QED BY <1>1, <1>2, <2>1, <2>2
<1>4. CASE o # target[r]
  <2>1. paid'[o] = paid[o] /\ HeldBy(r, o) = 0 /\ HeldBy(r, o)' = 0
    BY <1>2, <1>4 DEF Transfer, HeldBy
  <2> QED BY <1>1, <1>2, <2>1
<1> QED BY <1>3, <1>4

-----------------------------------------------------------------------------
(* Negotiation *)

LEMMA NoOfferTyped ==
  ASSUME AgreementAssumption
  PROVE  NoOffer \in Rows
BY DEF NoOffer, Rows, Parties

LEMMA CheckNewOfferStep ==
  ASSUME AgreementAssumption, AgreementInv, NEW r \in Requesters, NEW t \in Terms,
         CheckNewOffer(r, t)
  PROVE  AgreementInv' /\ BalancesKept /\ UNCHANGED ownershipVars
<1> DEFINE w == [NoOffer EXCEPT !.status = "ACTIVE", !.terms = t]
<1>1. /\ pc[r] = "new" /\ pc' = [pc EXCEPT ![r] = "insert"]
      /\ wanted' = [wanted EXCEPT ![r] = w]
      /\ UNCHANGED <<offer, agreement, public, reserved, paid, target, seen, snapshot,
                     publisher, read>>
  BY DEF CheckNewOffer, Go, rowVars, ownershipVars, publishVars
<1>2. w \in Rows /\ w.terms = t /\ ~w.contract
  BY NoOfferTyped DEF NoOffer, Rows
<1> HIDE DEF w
<1>3. AgreementTypeOK'
  BY <1>1, <1>2 DEF AgreementInv, AgreementTypeOK, Places
<1>4. RowsInv'
  BY <1>1, <1>2 DEF AgreementInv, AgreementTypeOK, RowsInv, Agreed, Writing, Charging, Holding
<1>5. BalancesKept
  <2>1. OthersKept(r) /\ pc[r] \notin Holding /\ pc'[r] \notin Holding
    BY <1>1 DEF OthersKept, Holding, AgreementInv, AgreementTypeOK
  <2> QED BY <1>1, <1>3, <2>1, NothingHeld DEF AgreementInv
<1> QED BY <1>1, <1>3, <1>4, <1>5 DEF AgreementInv, ownershipVars

LEMMA InsertOfferStep ==
  ASSUME AgreementAssumption, AgreementInv, NEW r \in Requesters, NEW o \in Offers,
         InsertOffer(r, o)
  PROVE  AgreementInv' /\ BalancesKept /\ UNCHANGED ownershipVars
<1>1. /\ pc[r] = "insert" /\ pc' = [pc EXCEPT ![r] = "done"]
      /\ offer' = [offer EXCEPT ![o] = wanted[r]] /\ target' = [target EXCEPT ![r] = o]
      /\ UNCHANGED <<agreement, public, reserved, paid, wanted, seen, snapshot, publisher, read>>
  BY DEF InsertOffer, SaveRow, Go, ownershipVars, publishVars
<1>2. wanted[r] \in Rows /\ wanted[r].terms \in Terms /\ ~wanted[r].contract
  BY <1>1 DEF AgreementInv, AgreementTypeOK, RowsInv, Writing
<1>3. AgreementTypeOK'
  BY <1>1, <1>2 DEF AgreementInv, AgreementTypeOK, Places
<1>4. RowsInv'
  BY <1>1, <1>2 DEF AgreementInv, AgreementTypeOK, RowsInv, Agreed, Writing, Charging, Holding
<1>5. BalancesKept
  <2>1. OthersKept(r) /\ pc[r] \notin Holding /\ pc'[r] \notin Holding
    BY <1>1 DEF OthersKept, Holding, AgreementInv, AgreementTypeOK
  <2> QED BY <1>1, <1>3, <2>1, NothingHeld DEF AgreementInv
<1> QED BY <1>1, <1>3, <1>4, <1>5 DEF AgreementInv, ownershipVars

\* Counter, Reject and Accept: a request reads an active offer, and the row it
\* is going to write differs from it in nothing that RowsInv speaks of.
LEMMA LoadStep ==
  ASSUME AgreementAssumption, AgreementInv, NEW r \in Requesters, NEW o \in Offers,
         NEW place \in {"check", "save", "account", "accept"}, Load(r, o, place),
         NEW w \in Rows, w.terms \in Terms, w.contract = offer[o].contract,
         wanted' = [wanted EXCEPT ![r] = w]
  PROVE  AgreementInv' /\ BalancesKept /\ UNCHANGED ownershipVars
<1>1. /\ pc[r] = "new" /\ pc' = [pc EXCEPT ![r] = place]
      /\ target' = [target EXCEPT ![r] = o] /\ seen' = [seen EXCEPT ![r] = offer[o]]
      /\ UNCHANGED <<offer, agreement, public, reserved, paid, snapshot, publisher, read>>
  BY DEF Load, Go, rowVars, ownershipVars, publishVars
<1>2. offer[o] \in Rows /\ (offer[o].contract => Agreed(o))
  BY DEF AgreementInv, AgreementTypeOK, RowsInv
<1>3. AgreementTypeOK'
  BY <1>1, <1>2 DEF AgreementInv, AgreementTypeOK, Places
<1>4. RowsInv'
  BY <1>1, <1>2 DEF AgreementInv, AgreementTypeOK, RowsInv, Agreed, Writing, Charging, Holding
<1>5. BalancesKept
  <2>1. OthersKept(r) /\ pc[r] \notin Holding /\ pc'[r] \notin Holding
    BY <1>1 DEF OthersKept, Holding, AgreementInv, AgreementTypeOK
  <2> QED BY <1>1, <1>3, <2>1, NothingHeld DEF AgreementInv
<1> QED BY <1>1, <1>3, <1>4, <1>5 DEF AgreementInv, ownershipVars

LEMMA CounterStep ==
  ASSUME AgreementAssumption, AgreementInv, NEW r \in Requesters, NEW o \in Offers,
         NEW party \in Parties, NEW t \in Terms, Counter(r, o, party, t)
  PROVE  AgreementInv' /\ BalancesKept /\ UNCHANGED ownershipVars
<1> DEFINE w == Countered(offer[o], party, t)
<1>1. offer[o] \in Rows
  BY DEF AgreementInv, AgreementTypeOK
<1>2. w \in Rows /\ w.terms = t /\ w.contract = offer[o].contract
  BY <1>1 DEF Countered, Rows
<1>3. PICK place \in {"check", "save"} : Load(r, o, place) /\ wanted' = [wanted EXCEPT ![r] = w]
  BY DEF Counter
<1> HIDE DEF w
<1> QED BY <1>2, <1>3, LoadStep

LEMMA RejectStep ==
  ASSUME AgreementAssumption, AgreementInv, NEW r \in Requesters, NEW o \in Offers,
         NEW party \in Parties, Reject(r, o, party)
  PROVE  AgreementInv' /\ BalancesKept /\ UNCHANGED ownershipVars
<1> DEFINE w == [offer[o] EXCEPT !.status = "REJECTED", !.modifiedBy = party]
<1>1. Load(r, o, "save") /\ wanted' = [wanted EXCEPT ![r] = w]
  BY DEF Reject
<1>2. offer[o] \in Rows /\ offer[o].terms \in Terms
  BY <1>1 DEF AgreementInv, AgreementTypeOK, RowsInv, Load
<1>3. w \in Rows /\ w.terms \in Terms /\ w.contract = offer[o].contract
  BY <1>2 DEF Rows
<1> HIDE DEF w
<1> QED BY <1>1, <1>3, LoadStep

LEMMA AcceptStep ==
  ASSUME AgreementAssumption, AgreementInv, NEW r \in Requesters, NEW o \in Offers,
         NEW party \in Parties, Accept(r, o, party)
  PROVE  AgreementInv' /\ BalancesKept /\ UNCHANGED ownershipVars
<1> DEFINE w == [offer[o] EXCEPT !.account = TRUE]
<1>1. PICK place \in {"account", "accept"} :
        Load(r, o, place) /\ wanted' = [wanted EXCEPT ![r] = w]
  BY DEF Accept
<1>2. offer[o] \in Rows /\ offer[o].terms \in Terms
  BY <1>1 DEF AgreementInv, AgreementTypeOK, RowsInv, Load
<1>3. w \in Rows /\ w.terms \in Terms /\ w.contract = offer[o].contract
  BY <1>2 DEF Rows
<1> HIDE DEF w
<1> QED BY <1>1, <1>3, LoadStep

\* CheckCounter, CheckAccepted and the crash of a request that holds nothing.
LEMMA MoveStep ==
  ASSUME AgreementAssumption, AgreementInv, NEW r \in Requesters, NEW place \in Places,
         \/ pc[r] = "check" /\ place \in {"save", "done"}
         \/ pc[r] = "accept" /\ place \in {"tx1", "done"}
         \/ pc[r] \notin Holding /\ place = "done",
         Go(r, place),
         UNCHANGED <<rowVars, ownershipVars, paid, target, wanted, seen, snapshot, publishVars>>
  PROVE  AgreementInv' /\ BalancesKept /\ UNCHANGED ownershipVars
<1>1. /\ pc' = [pc EXCEPT ![r] = place]
      /\ UNCHANGED <<offer, agreement, public, reserved, paid, target, wanted, seen, snapshot,
                     publisher, read>>
  BY DEF Go, rowVars, ownershipVars, publishVars
<1>2. AgreementTypeOK'
  BY <1>1 DEF AgreementInv, AgreementTypeOK
<1>3. RowsInv'
  BY <1>1 DEF AgreementInv, AgreementTypeOK, RowsInv, Agreed, Writing, Charging, Holding
<1>4. BalancesKept
  <2>1. OthersKept(r) /\ pc[r] \notin Holding /\ pc'[r] \notin Holding
    BY <1>1 DEF OthersKept, Holding, AgreementInv, AgreementTypeOK
  <2> QED BY <1>1, <1>2, <2>1, NothingHeld DEF AgreementInv
<1> QED BY <1>1, <1>2, <1>3, <1>4 DEF AgreementInv, ownershipVars

\* Save and SaveAccount: the whole row is written back.
LEMMA WriteStep ==
  ASSUME AgreementAssumption, AgreementInv, NEW r \in Requesters,
         NEW place \in {"done", "accept"},
         \/ pc[r] = "save" /\ place = "done"
         \/ pc[r] = "account" /\ place = "accept",
         SaveRow(target[r], wanted[r]), Go(r, place),
         UNCHANGED <<agreement, ownershipVars, paid, target, wanted, seen, snapshot, publishVars>>
  PROVE  AgreementInv' /\ BalancesKept /\ UNCHANGED ownershipVars
<1> DEFINE o == target[r]
<1>1. /\ pc' = [pc EXCEPT ![r] = place] /\ offer' = [offer EXCEPT ![o] = wanted[r]]
      /\ UNCHANGED <<agreement, public, reserved, paid, target, wanted, seen, snapshot,
                     publisher, read>>
  BY DEF Go, SaveRow, ownershipVars, publishVars
<1>2. /\ o \in Offers /\ wanted[r] \in Rows /\ wanted[r].terms \in Terms
      /\ wanted[r].contract => Agreed(o)
  BY DEF AgreementInv, AgreementTypeOK, RowsInv, Writing
<1> HIDE DEF o
<1>3. AgreementTypeOK'
  BY <1>1, <1>2 DEF AgreementInv, AgreementTypeOK, Places
<1>4. RowsInv'
  BY <1>1, <1>2 DEF AgreementInv, AgreementTypeOK, RowsInv, Agreed, Writing, Charging, Holding
<1>5. BalancesKept
  <2>1. OthersKept(r) /\ pc[r] \notin Holding /\ pc'[r] \notin Holding
    BY <1>1 DEF OthersKept, Holding, AgreementInv, AgreementTypeOK
  <2> QED BY <1>1, <1>3, <2>1, NothingHeld DEF AgreementInv
<1> QED BY <1>1, <1>3, <1>4, <1>5 DEF AgreementInv, ownershipVars
-----------------------------------------------------------------------------
(* FinalizeAgreement *)

LEMMA ValidateStep ==
  ASSUME AgreementAssumption, AgreementInv, NEW r \in Requesters, Validate(r)
  PROVE  AgreementInv' /\ BalancesKept /\ UNCHANGED ownershipVars
<1> DEFINE o == target[r]
           t == offer[o].terms
<1>1. /\ pc[r] = "tx1" /\ snapshot' = [snapshot EXCEPT ![r] = t]
      /\ UNCHANGED <<offer, agreement, public, reserved, paid, target, wanted, seen,
                     publisher, read>>
  BY DEF Validate, rowVars, ownershipVars, publishVars
<1>2. PICK place \in {"pay", "done"} :
        pc' = [pc EXCEPT ![r] = place] /\ (place = "pay" => MayActivate(o))
  BY DEF Validate, Go
<1>3. o \in Offers /\ offer[o] \in Rows /\ t \in Terms \cup {NoTerms}
  BY DEF AgreementInv, AgreementTypeOK, Rows
<1>4. place = "pay" => t \in Terms
  BY <1>2, <1>3 DEF MayActivate, AgreementInv, RowsInv
<1> HIDE DEF o, t
<1>5. AgreementTypeOK'
  BY <1>1, <1>2, <1>3 DEF AgreementInv, AgreementTypeOK, Places
<1>6. RowsInv'
  BY <1>1, <1>2, <1>3, <1>4
     DEF AgreementInv, AgreementTypeOK, RowsInv, Agreed, Writing, Charging, Holding
<1>7. BalancesKept
  <2>1. OthersKept(r) /\ pc[r] \notin Holding /\ pc'[r] \notin Holding
    BY <1>1, <1>2 DEF OthersKept, Holding, AgreementInv, AgreementTypeOK
  <2> QED BY <1>1, <1>5, <2>1, NothingHeld DEF AgreementInv
<1> QED BY <1>1, <1>5, <1>6, <1>7 DEF AgreementInv, ownershipVars

\* PayPremium, Compensate and the crash of a request that holds a premium: what
\* is paid or given back is the premium of the snapshot.
LEMMA HoldingStep ==
  ASSUME AgreementAssumption, AgreementInv, NEW r \in Requesters, NEW place \in Places,
         pc[r] \in Charging, place \in Holding \cup {"done"}, Go(r, place), NEW n \in Int,
         n = (IF place \in Holding THEN snapshot[r].premium ELSE 0)
               - (IF pc[r] \in Holding THEN snapshot[r].premium ELSE 0),
         Transfer(r, n),
         UNCHANGED <<rowVars, ownershipVars, target, wanted, seen, snapshot, publishVars>>
  PROVE  AgreementInv' /\ BalancesKept /\ UNCHANGED ownershipVars
<1>1. /\ pc' = [pc EXCEPT ![r] = place] /\ paid' = [paid EXCEPT ![target[r]] = @ + n]
      /\ UNCHANGED <<offer, agreement, public, reserved, target, wanted, seen, snapshot,
                     publisher, read>>
  BY DEF Go, Transfer, rowVars, ownershipVars, publishVars
<1>2. target[r] \in Offers /\ snapshot[r] \in Terms /\ snapshot[r].premium \in Nat
  BY TermsTyped DEF AgreementInv, AgreementTypeOK, RowsInv
<1>3. AgreementTypeOK'
  <2>1. paid' \in [Offers -> Int]
    BY <1>1, <1>2 DEF AgreementInv, AgreementTypeOK
  <2> QED BY <1>1, <2>1 DEF AgreementInv, AgreementTypeOK
<1>4. RowsInv'
  <2>1. place \notin Writing \cup {"pay"}
    BY DEF Writing, Holding
  <2> QED BY <1>1, <1>2, <2>1
          DEF AgreementInv, AgreementTypeOK, RowsInv, Agreed, Writing, Charging, Holding
<1>5. OthersKept(r) /\ pc'[r] = place
  BY <1>1 DEF OthersKept, AgreementInv, AgreementTypeOK
<1>6. HeldBy(r, target[r])' = HeldBy(r, target[r]) + n
  BY <1>1, <1>2, <1>5 DEF HeldBy
<1>7. BalancesKept
  BY <1>1, <1>3, <1>5, <1>6, PremiumMoves DEF AgreementInv
<1> QED BY <1>1, <1>3, <1>4, <1>7 DEF AgreementInv, ownershipVars

LEMMA NothingMoves ==
  ASSUME AgreementTypeOK, NEW r \in Requesters, paid' = paid
  PROVE  Transfer(r, 0)
BY DEF AgreementTypeOK, Transfer

LEMMA PayPremiumStep ==
  ASSUME AgreementAssumption, AgreementInv, NEW r \in Requesters, PayPremium(r)
  PROVE  AgreementInv' /\ BalancesKept /\ UNCHANGED ownershipVars
<1> DEFINE n == snapshot[r].premium
<1>1. /\ pc[r] = "pay" /\ pc[r] \in Charging /\ pc[r] \notin Holding
      /\ UNCHANGED <<rowVars, ownershipVars, target, wanted, seen, snapshot, publishVars>>
  BY DEF PayPremium, Charging, Holding
<1>2. n \in Nat
  BY <1>1, TermsTyped DEF AgreementInv, AgreementTypeOK
<1> HIDE DEF n
<1>3. CASE \E place \in {"tx2", "abandoned"} : Transfer(r, n) /\ Go(r, place)
  <2>1. PICK place \in {"tx2", "abandoned"} : Transfer(r, n) /\ Go(r, place)
    BY <1>3
  <2>2. place \in Holding /\ place \in Places
    BY DEF Holding, Places
  <2>3. n = snapshot[r].premium - 0
    BY <1>2 DEF n
  <2> QED BY <1>1, <1>2, <2>1, <2>2, <2>3, HoldingStep
<1>4. CASE UNCHANGED paid /\ Go(r, "done")
  <2>1. "done" \notin Holding /\ "done" \in Places
    BY DEF Holding, Places
  <2>2. Transfer(r, 0) /\ 0 = 0 - 0
    BY <1>4, NothingMoves DEF AgreementInv
  <2> QED BY <1>1, <1>4, <2>1, <2>2, HoldingStep
<1> QED BY <1>3, <1>4 DEF PayPremium, n

LEMMA CompensateStep ==
  ASSUME AgreementAssumption, AgreementInv, NEW r \in Requesters, Compensate(r)
  PROVE  AgreementInv' /\ BalancesKept /\ UNCHANGED ownershipVars
<1> DEFINE n == snapshot[r].premium
<1>1. /\ pc[r] \in Charging /\ pc[r] \in Holding
      /\ UNCHANGED <<rowVars, ownershipVars, target, wanted, seen, snapshot, publishVars>>
  BY DEF Compensate, Charging, Holding
<1>2. n \in Nat
  BY TermsTyped DEF AgreementInv, AgreementTypeOK
<1>3. CASE Transfer(r, -n) /\ Go(r, "done")
  <2>1. "done" \notin Holding /\ "done" \in Places
    BY DEF Holding, Places
  <2>2. -n \in Int /\ -n = 0 - snapshot[r].premium
    BY <1>2
  <2> HIDE DEF n
  <2> QED BY <1>1, <1>3, <2>1, <2>2, HoldingStep
<1>4. CASE UNCHANGED paid /\ Go(r, "abandoned")
  <2>1. "abandoned" \in Holding /\ "abandoned" \in Places
    BY DEF Holding, Places
  <2>2. Transfer(r, 0) /\ 0 = snapshot[r].premium - snapshot[r].premium
    BY <1>2, <1>4, NothingMoves DEF AgreementInv
  <2> QED BY <1>1, <1>4, <2>1, <2>2, HoldingStep
<1> QED BY <1>3, <1>4 DEF Compensate

LEMMA CrashStep ==
  ASSUME AgreementAssumption, AgreementInv, NEW r \in Requesters, Crash(r)
  PROVE  AgreementInv' /\ BalancesKept /\ UNCHANGED ownershipVars
<1>1. UNCHANGED <<rowVars, ownershipVars, paid, target, wanted, seen, snapshot, publishVars>>
  BY DEF Crash
<1>2. CASE pc[r] \in Holding
  <2>1. /\ Go(r, "abandoned") /\ pc[r] \in Charging
        /\ "abandoned" \in Holding /\ "abandoned" \in Places
    BY <1>2 DEF Crash, Charging, Holding, Places
  <2>2. snapshot[r].premium \in Nat
    BY TermsTyped DEF AgreementInv, AgreementTypeOK
  <2>3. Transfer(r, 0) /\ 0 = snapshot[r].premium - snapshot[r].premium
    BY <1>1, <2>2, NothingMoves DEF AgreementInv
  <2> QED BY <1>1, <1>2, <2>1, <2>3, HoldingStep
<1>3. CASE pc[r] \notin Holding
  <2>1. Go(r, "done") /\ "done" \in Places
    BY <1>3 DEF Crash, Places
  <2> QED BY <1>1, <1>3, <2>1, MoveStep
<1> QED BY <1>2, <1>3

\* The second transaction makes the contract, or nothing.
MakesContract(r) ==
    /\ ~Agreed(target[r]) /\ MayActivate(target[r])
    /\ agreement' = [agreement EXCEPT ![target[r]] = offer[target[r]].terms]
    /\ offer[target[r]].terms \in Terms
    /\ reserved' = reserved + offer[target[r]].terms.amount /\ public' = public

\* A contract exists already, or the premium is to be given back.
MakesNothing(r) ==
    /\ UNCHANGED <<agreement, reserved, public>>
    /\ Agreed(target[r]) \/ pc'[r] = "compensate"

LEMMA ActivateStep ==
  ASSUME AgreementAssumption, AgreementInv, NEW r \in Requesters, Activate(r)
  PROVE  /\ AgreementInv' /\ OthersKept(r) /\ UNCHANGED <<paid, target, snapshot>>
         /\ pc[r] = "tx2" /\ pc'[r] \in {"done", "compensate"}
         /\ MakesContract(r) \/ MakesNothing(r)
         /\ MakesContract(r) /\ "lost_ack" \notin Faults => pc'[r] = "done"
<1>1. /\ pc[r] = "tx2"
      /\ UNCHANGED <<public, paid, target, wanted, seen, snapshot, publisher, read>>
  BY DEF Activate, publishVars
<1>2. PICK o \in Offers, t \in Terms \cup {NoTerms} :
        /\ o = target[r] /\ t = offer[o].terms
        /\ offer[o].contract => Agreed(o)
        /\ offer[o].status # "NONE" => t \in Terms
  BY DEF AgreementInv, AgreementTypeOK, RowsInv, Rows
<1>3. PICK new \in Rows :
        /\ new = [offer[o] EXCEPT !.status = "ACCEPTED", !.contract = TRUE,
                                  !.modifiedBy = Other(seen[r].modifiedBy)]
        /\ new.terms = t /\ new.status = "ACCEPTED"
  <2>1. offer[o] \in Rows
    BY DEF AgreementInv, AgreementTypeOK
  <2>2. Other(seen[r].modifiedBy) \in Parties
    BY DEF Other, Parties
  <2> DEFINE new == [offer[o] EXCEPT !.status = "ACCEPTED", !.contract = TRUE,
                                    !.modifiedBy = Other(seen[r].modifiedBy)]
  <2>3. new \in Rows /\ new.terms = t /\ new.status = "ACCEPTED"
    BY <1>2, <2>1, <2>2 DEF Rows
  <2> QED BY <2>3
<1>4. CASE /\ ~AlreadyAccepted(o) /\ MayMakeContract(o)
           /\ MakeContract(o, Other(seen[r].modifiedBy))
           /\ \E place \in AfterCommit : Go(r, place)
  <2>1. PICK place \in {"done", "compensate"} :
          /\ pc' = [pc EXCEPT ![r] = place]
          /\ "lost_ack" \notin Faults => place = "done"
    BY <1>4 DEF AfterCommit, Go
  <2>2. /\ ~Agreed(o) /\ MayActivate(o) /\ reserved' = reserved + t.amount
        /\ agreement' = [agreement EXCEPT ![o] = t] /\ offer' = [offer EXCEPT ![o] = new]
    BY <1>2, <1>3, <1>4 DEF MakeContract, MayMakeContract, SaveRow
  <2>3. t \in Terms /\ t # NoTerms /\ t.amount \in Nat
    BY <1>2, <2>2, TermsTyped DEF MayActivate
  <2>4. MakesContract(r)
    BY <1>1, <1>2, <2>2, <2>3 DEF MakesContract
  <2>5. AgreementTypeOK'
    <3>1. reserved' \in Nat
      BY <2>2, <2>3 DEF AgreementInv, AgreementTypeOK
    <3> QED BY <1>1, <1>2, <1>3, <2>1, <2>2, <2>3, <3>1
            DEF AgreementInv, AgreementTypeOK, Places, Holding
  <2>6. \A k \in Offers : Agreed(k) => Agreed(k)'
    BY <1>2, <2>2, <2>3 DEF Agreed, AgreementInv, AgreementTypeOK
  <2>7. Agreed(o)'
    BY <1>2, <2>2, <2>3 DEF Agreed, AgreementInv, AgreementTypeOK
  <2>8. \A k \in Offers : /\ offer'[k].status # "NONE" => offer'[k].terms \in Terms
                          /\ offer'[k].contract => Agreed(k)'
    BY <1>2, <1>3, <2>2, <2>3, <2>6, <2>7 DEF AgreementInv, AgreementTypeOK, RowsInv
  <2>9. ASSUME NEW s \in Requesters
        PROVE  /\ pc'[s] \in Writing => wanted'[s].terms \in Terms
               /\ pc'[s] = "insert" => ~wanted'[s].contract
               /\ pc'[s] \in {"check", "save", "account"} /\ wanted'[s].contract
                    => Agreed(target[s])'
               /\ pc'[s] \in Charging => snapshot'[s] \in Terms
    <3>1. pc'[s] = IF s = r THEN place ELSE pc[s]
      BY <2>1 DEF AgreementInv, AgreementTypeOK
    <3>2. target[s] \in Offers /\ target'[s] = target[s]
      BY <1>1 DEF AgreementInv, AgreementTypeOK
    <3> QED BY <1>1, <2>6, <3>1, <3>2 DEF AgreementInv, RowsInv, Writing, Charging, Holding
  <2>10. RowsInv'
    BY <1>1, <2>8, <2>9 DEF RowsInv
  <2>11. OthersKept(r) /\ pc'[r] = place
    BY <1>1, <2>1 DEF OthersKept, AgreementInv, AgreementTypeOK
  <2> QED BY <1>1, <2>1, <2>4, <2>5, <2>10, <2>11 DEF AgreementInv
<1>5. CASE /\ \/ AlreadyAccepted(o) /\ Go(r, "done")
              \/ Go(r, "compensate")
           /\ UNCHANGED <<rowVars, reserved>>
  <2>1. PICK place \in {"done", "compensate"} :
          /\ pc' = [pc EXCEPT ![r] = place]
          /\ AlreadyAccepted(o) \/ place = "compensate"
    BY <1>5 DEF Go
  <2>2. UNCHANGED <<offer, agreement, reserved>>
    BY <1>5 DEF rowVars
  <2>3. AgreementTypeOK'
    BY <1>1, <2>1, <2>2 DEF AgreementInv, AgreementTypeOK, Places, Holding
  <2>4. RowsInv'
    BY <1>1, <2>1, <2>2
       DEF AgreementInv, AgreementTypeOK, RowsInv, Agreed, Writing, Charging, Holding
  <2>5. OthersKept(r) /\ pc'[r] = place
    BY <1>1, <2>1 DEF OthersKept, AgreementInv, AgreementTypeOK
  <2>6. MakesNothing(r)
    BY <1>1, <1>2, <2>1, <2>2, <2>5 DEF MakesNothing, AlreadyAccepted
  <2>7. MakesContract(r) => pc'[r] = "done"
    <3> SUFFICES ASSUME MakesContract(r) PROVE FALSE
      OBVIOUS
    <3>1. agreement'[o] = t /\ t \in Terms /\ agreement[o] = NoTerms
      BY <1>2 DEF MakesContract, Agreed, AgreementInv, AgreementTypeOK
    <3> QED BY <2>2, <3>1, TermsTyped
  <2> QED BY <1>1, <2>1, <2>3, <2>4, <2>5, <2>6, <2>7 DEF AgreementInv
<1> QED BY <1>2, <1>4, <1>5 DEF Activate
-----------------------------------------------------------------------------
(* PublishAsset *)

LEMMA ReadOwnershipStep ==
  ASSUME AgreementAssumption, AgreementInv, NEW p \in Publishers, ReadOwnership(p)
  PROVE  AgreementInv' /\ UNCHANGED <<rowVars, ownershipVars, paid, requestVars>>
<1>1. /\ publisher' = [publisher EXCEPT ![p] = "write"]
      /\ read' = [read EXCEPT ![p] = [public |-> public, reserved |-> reserved]]
      /\ UNCHANGED <<rowVars, ownershipVars, paid, requestVars>>
  BY DEF ReadOwnership
<1>2. UNCHANGED <<offer, agreement, public, reserved, paid, pc, target, wanted, seen, snapshot>>
  BY <1>1 DEF rowVars, ownershipVars, requestVars
<1>3. AgreementTypeOK'
  BY <1>1, <1>2 DEF AgreementInv, AgreementTypeOK
<1>4. RowsInv'
  BY <1>2 DEF AgreementInv, RowsInv, Agreed
<1> QED BY <1>1, <1>3, <1>4 DEF AgreementInv

LEMMA WritePublishedStep ==
  ASSUME AgreementAssumption, AgreementInv, NEW p \in Publishers, NEW n \in Portions,
         WritePublished(p, n)
  PROVE  /\ AgreementInv' /\ UNCHANGED <<rowVars, paid, requestVars>>
         /\ ~StalePublish => public' >= public /\ reserved' = reserved
<1>1. /\ public' = read[p].public + n /\ reserved' = read[p].reserved
      /\ publisher' = [publisher EXCEPT ![p] = "done"]
      /\ ~StalePublish => read[p] = [public |-> public, reserved |-> reserved]
      /\ UNCHANGED <<rowVars, paid, requestVars, read>>
  BY DEF WritePublished
<1>2. UNCHANGED <<offer, agreement, paid, pc, target, wanted, seen, snapshot>>
  BY <1>1 DEF rowVars, requestVars
<1>3. n \in Nat /\ read[p].public \in Nat /\ read[p].reserved \in Nat /\ public \in Nat
  BY DEF AgreementAssumption, AgreementInv, AgreementTypeOK
<1>4. AgreementTypeOK'
  <2>1. public' \in Nat /\ reserved' \in Nat
    BY <1>1, <1>3
  <2> QED BY <1>1, <1>2, <2>1 DEF AgreementInv, AgreementTypeOK
<1>5. RowsInv'
  BY <1>2 DEF AgreementInv, RowsInv, Agreed
<1> QED BY <1>1, <1>3, <1>4, <1>5 DEF AgreementInv

-----------------------------------------------------------------------------
(* Every step *)

\* All steps but the making of contracts and the publishing of shares.
LEMMA RequestStep ==
  ASSUME AgreementAssumption, AgreementInv, NEW r \in Requesters,
         Negotiate(r) \/ Agree(r) \/ Crash(r), ~Activate(r)
  PROVE  AgreementInv' /\ BalancesKept /\ UNCHANGED ownershipVars
<1>1. ASSUME Negotiate(r) PROVE AgreementInv' /\ BalancesKept /\ UNCHANGED ownershipVars
  <2>1. ASSUME CheckCounter(r) PROVE AgreementInv' /\ BalancesKept /\ UNCHANGED ownershipVars
    <3>1. PICK place \in {"save", "done"} : Go(r, place)
      BY <2>1 DEF CheckCounter
    <3>2. /\ pc[r] = "check" /\ place \in Places
          /\ UNCHANGED <<rowVars, ownershipVars, paid, target, wanted, seen, snapshot, publishVars>>
      BY <2>1 DEF CheckCounter, Places
    <3> QED BY <3>1, <3>2, MoveStep
  <2>2. ASSUME Save(r) PROVE AgreementInv' /\ BalancesKept /\ UNCHANGED ownershipVars
    BY <2>2, WriteStep DEF Save
  <2> QED BY <1>1, <2>1, <2>2, CheckNewOfferStep, InsertOfferStep, CounterStep, RejectStep
          DEF Negotiate
<1>2. ASSUME Agree(r) PROVE AgreementInv' /\ BalancesKept /\ UNCHANGED ownershipVars
  <2>1. ASSUME CheckAccepted(r) PROVE AgreementInv' /\ BalancesKept /\ UNCHANGED ownershipVars
    <3>1. PICK place \in {"tx1", "done"} : Go(r, place)
      BY <2>1 DEF CheckAccepted
    <3>2. /\ pc[r] = "accept" /\ place \in Places
          /\ UNCHANGED <<rowVars, ownershipVars, paid, target, wanted, seen, snapshot, publishVars>>
      BY <2>1 DEF CheckAccepted, Places
    <3> QED BY <3>1, <3>2, MoveStep
  <2>2. ASSUME SaveAccount(r) PROVE AgreementInv' /\ BalancesKept /\ UNCHANGED ownershipVars
    BY <2>2, WriteStep DEF SaveAccount
  <2> QED BY <1>2, <2>1, <2>2, AcceptStep, ValidateStep, PayPremiumStep, CompensateStep DEF Agree
<1> QED BY <1>1, <1>2, CrashStep

LEMMA IdleStep ==
  ASSUME AgreementInv, UNCHANGED vars
  PROVE  AgreementInv'
<1>1. UNCHANGED <<offer, agreement, public, reserved, paid, pc, target, wanted, seen, snapshot,
                 publisher, read>>
  BY DEF vars, rowVars, ownershipVars, requestVars, publishVars
<1> QED BY <1>1 DEF AgreementInv, AgreementTypeOK, RowsInv, Agreed

\* The steps, as far as the two accounts are concerned.
LEMMA AgreementSteps ==
  ASSUME AgreementAssumption, AgreementInv, [Next]_vars
  PROVE  /\ AgreementInv'
         /\ \/ BalancesKept /\ UNCHANGED ownershipVars
            \/ \E r \in Requesters : Activate(r)
            \/ /\ UNCHANGED <<rowVars, paid, requestVars>>
               /\ UNCHANGED ownershipVars
                    \/ (~StalePublish => public' >= public /\ reserved' = reserved)
<1>1. ASSUME NEW r \in Requesters, Negotiate(r) \/ Agree(r) \/ Crash(r)
      PROVE  AgreementInv' /\ ((BalancesKept /\ UNCHANGED ownershipVars) \/ Activate(r))
  BY <1>1, RequestStep, ActivateStep
<1>2. ASSUME NEW p \in Publishers, Publish(p)
      PROVE  /\ AgreementInv' /\ UNCHANGED <<rowVars, paid, requestVars>>
             /\ UNCHANGED ownershipVars
                  \/ (~StalePublish => public' >= public /\ reserved' = reserved)
  BY <1>2, ReadOwnershipStep, WritePublishedStep DEF Publish
<1>3. ASSUME UNCHANGED vars
      PROVE  AgreementInv' /\ UNCHANGED <<rowVars, paid, requestVars>> /\ UNCHANGED ownershipVars
  BY <1>3, IdleStep DEF vars
<1> QED BY <1>1, <1>2, <1>3 DEF Next

LEMMA AgreementInitially ==
  ASSUME AgreementAssumption, Init
  PROVE  AgreementInv
<1>1. (CHOOSE o \in Offers : TRUE) \in Offers
  BY DEF AgreementAssumption
<1>2. AgreementTypeOK
  BY <1>1, NoOfferTyped DEF Init, AgreementTypeOK, AgreementAssumption, Places
<1>3. RowsInv
  BY DEF Init, RowsInv, NoOffer, Writing, Charging, Holding
<1> QED BY <1>2, <1>3 DEF AgreementInv

THEOREM AgreementInvariant == AgreementAssumption => (Spec => []AgreementInv)
<1> SUFFICES ASSUME AgreementAssumption PROVE Spec => []AgreementInv
  OBVIOUS
<1>1. Init => AgreementInv
  BY AgreementInitially
<1>2. AgreementInv /\ [Next]_vars => AgreementInv'
  BY AgreementSteps
<1> QED BY <1>1, <1>2, PTL DEF Spec
-----------------------------------------------------------------------------
(* The premiums *)

LEMMA UndoneTyped ==
  ASSUME AgreementAssumption, AgreementTypeOK, AgreementTypeOK', NEW o \in Offers
  PROVE  /\ Undone(o) \in Int /\ Undone(o)' \in Int
         /\ paid[o] \in Int /\ paid'[o] \in Int
<1> DEFINE f == [s \in Requesters |-> HeldBy(s, o)]
           g == [s \in Requesters |-> HeldBy(s, o)']
<1>1. f \in [Requesters -> Int] /\ g \in [Requesters -> Int] /\ IsFiniteSet(Requesters)
  BY TermsTyped DEF HeldBy, AgreementTypeOK, AgreementAssumption
<1>2. Undone(o) = SumFunctionOnSet(f, Requesters) /\ Undone(o)' = SumFunctionOnSet(g, Requesters)
  BY DEF Undone, HeldBy
<1> HIDE DEF f, g
<1>3. SumFunctionOnSet(f, Requesters) \in Int /\ SumFunctionOnSet(g, Requesters) \in Int
  BY <1>1, SumType
<1> QED BY <1>2, <1>3 DEF AgreementTypeOK

\* The request that activates holds its premium before; afterwards it holds it
\* still, or no longer.
LEMMA ActivateHolds ==
  ASSUME AgreementAssumption, AgreementInv, NEW r \in Requesters, Activate(r), NEW o \in Offers
  PROVE  /\ paid'[o] = paid[o]
         /\ o # target[r] => Undone(o)' = Undone(o)
         /\ o = target[r] /\ pc'[r] = "compensate" => Undone(o)' = Undone(o)
         /\ o = target[r] /\ pc'[r] = "done" => Undone(o)' < Undone(o)
<1>1. /\ AgreementInv' /\ OthersKept(r) /\ UNCHANGED <<paid, target, snapshot>>
      /\ pc[r] = "tx2" /\ pc'[r] \in {"done", "compensate"}
  BY ActivateStep
<1>2. /\ Undone(o) \in Int /\ HeldBy(r, o) \in Nat /\ HeldBy(r, o)' \in Nat
      /\ Undone(o)' = Undone(o) - HeldBy(r, o) + HeldBy(r, o)'
  BY <1>1, UndoneChanges DEF AgreementInv, OthersKept
<1>3. snapshot[r].premium \in Nat /\ snapshot[r].premium > 0
  BY <1>1, TermsTyped DEF AgreementInv, RowsInv, Charging, Holding
<1>4. HeldBy(r, o) = IF o = target[r] THEN snapshot[r].premium ELSE 0
  BY <1>1 DEF HeldBy, Holding
<1>5. HeldBy(r, o)' =
        IF o = target[r] /\ pc'[r] = "compensate" THEN snapshot[r].premium ELSE 0
  BY <1>1 DEF HeldBy, Holding
<1> QED BY <1>1, <1>2, <1>3, <1>4, <1>5

LEMMA RefundedStep ==
  ASSUME AgreementAssumption, AgreementInv, UnagreedIsRefunded, [Next]_vars
  PROVE  UnagreedIsRefunded'
<1>1. AgreementInv'
  BY AgreementSteps
<1>2. \A o \in Offers : /\ Undone(o) \in Int /\ Undone(o)' \in Int
                        /\ paid[o] \in Int /\ paid'[o] \in Int
  BY <1>1, UndoneTyped DEF AgreementInv
<1>3. CASE BalancesKept
  BY <1>2, <1>3 DEF BalancesKept, UnagreedIsRefunded, Agreed
<1>4. ASSUME NEW r \in Requesters, Activate(r) PROVE UnagreedIsRefunded'
  <2> SUFFICES ASSUME NEW o \in Offers, ~Agreed(o)' PROVE paid'[o] = Undone(o)'
    BY DEF UnagreedIsRefunded
  <2>1. ~Agreed(o) /\ (o = target[r] => pc'[r] = "compensate")
    <3>1. CASE MakesNothing(r)
      BY <3>1 DEF MakesNothing, Agreed
    <3>2. CASE MakesContract(r)
      BY <3>2, TermsTyped DEF MakesContract, Agreed, AgreementInv, AgreementTypeOK
    <3> QED BY <1>4, <3>1, <3>2, ActivateStep
  <2> QED BY <1>4, <2>1, ActivateHolds DEF UnagreedIsRefunded
<1>5. CASE UNCHANGED <<rowVars, paid, requestVars>>
  BY <1>5 DEF rowVars, requestVars, UnagreedIsRefunded, Agreed, Undone
<1> QED BY <1>3, <1>4, <1>5, AgreementSteps

LEMMA PaidStep ==
  ASSUME AgreementAssumption, "lost_ack" \notin Faults,
         AgreementInv, UnagreedIsRefunded, ContractIsPaid, [Next]_vars
  PROVE  ContractIsPaid'
<1>1. AgreementInv'
  BY AgreementSteps
<1>2. \A o \in Offers : /\ Undone(o) \in Int /\ Undone(o)' \in Int
                        /\ paid[o] \in Int /\ paid'[o] \in Int
  BY <1>1, UndoneTyped DEF AgreementInv
<1>3. CASE BalancesKept
  BY <1>2, <1>3 DEF BalancesKept, ContractIsPaid, Agreed
<1>4. ASSUME NEW r \in Requesters, Activate(r) PROVE ContractIsPaid'
  <2> SUFFICES ASSUME NEW o \in Offers, Agreed(o)' PROVE paid'[o] > Undone(o)'
    BY DEF ContractIsPaid
  <2>1. paid[o] >= Undone(o) /\ (Agreed(o) => paid[o] > Undone(o))
    BY <1>2 DEF ContractIsPaid, UnagreedIsRefunded
  <2>2. Agreed(o) \/ (o = target[r] /\ pc'[r] = "done")
    <3>1. CASE MakesNothing(r)
      BY <3>1 DEF MakesNothing, Agreed
    <3>2. CASE MakesContract(r)
      <4>1. pc'[r] = "done"
        BY <1>4, <3>2, ActivateStep
      <4>2. o = target[r] \/ agreement'[o] = agreement[o]
        BY <3>2 DEF MakesContract, AgreementInv, AgreementTypeOK
      <4> QED BY <4>1, <4>2 DEF Agreed
    <3> QED BY <1>4, <3>1, <3>2, ActivateStep
  <2>3. /\ paid'[o] = paid[o] /\ Undone(o)' <= Undone(o)
        /\ o = target[r] /\ pc'[r] = "done" => Undone(o)' < Undone(o)
    BY <1>2, <1>4, ActivateHolds, ActivateStep
  <2> QED BY <1>2, <2>1, <2>2, <2>3
<1>5. CASE UNCHANGED <<rowVars, paid, requestVars>>
  BY <1>5 DEF rowVars, requestVars, ContractIsPaid, Agreed, Undone
<1> QED BY <1>3, <1>4, <1>5, AgreementSteps

LEMMA PremiumsInitially ==
  ASSUME AgreementAssumption, Init
  PROVE  UnagreedIsRefunded /\ ContractIsPaid
<1>1. AgreementInv
  BY AgreementInitially
<1> SUFFICES ASSUME NEW o \in Offers PROVE ~Agreed(o) /\ paid[o] = Undone(o)
  BY DEF UnagreedIsRefunded, ContractIsPaid
<1> DEFINE f == [s \in Requesters |-> HeldBy(s, o)]
<1>2. f = [s \in Requesters |-> 0]
  BY DEF Init, HeldBy, Holding
<1>3. f \in [Requesters -> Int] /\ IsFiniteSet(Requesters) /\ \A s \in Requesters : f[s] = 0
  BY <1>2 DEF AgreementAssumption
<1>4. Undone(o) = SumFunctionOnSet(f, Requesters)
  BY DEF Undone, HeldBy
<1> HIDE DEF f
<1>5. SumFunctionOnSet(f, Requesters) = 0
  BY <1>3, SumOfZeros
<1> QED BY <1>4, <1>5 DEF Init, Agreed

\* A request that returns leaves no premium behind without a contract, for any
\* number of offers, requests and publications and whatever fails.
THEOREM AlwaysRefunded == AgreementAssumption => (Spec => []UnagreedIsRefunded)
<1> SUFFICES ASSUME AgreementAssumption PROVE Spec => []UnagreedIsRefunded
  OBVIOUS
<1>1. Init => UnagreedIsRefunded
  BY PremiumsInitially
<1>2. AgreementInv /\ UnagreedIsRefunded /\ [Next]_vars => UnagreedIsRefunded'
  BY RefundedStep
<1>3. Spec => []AgreementInv
  BY AgreementInvariant
<1> QED BY <1>1, <1>2, <1>3, PTL DEF Spec

\* Where a transaction that reports an error has not been committed, no contract
\* is without its premium.
THEOREM ContractsArePaid ==
  AgreementAssumption /\ "lost_ack" \notin Faults => (Spec => []ContractIsPaid)
<1> SUFFICES ASSUME AgreementAssumption, "lost_ack" \notin Faults PROVE Spec => []ContractIsPaid
  OBVIOUS
<1>1. Init => ContractIsPaid
  BY PremiumsInitially
<1>2. AgreementInv /\ UnagreedIsRefunded /\ ContractIsPaid /\ [Next]_vars => ContractIsPaid'
  BY PaidStep
<1>3. Spec => []AgreementInv
  BY AgreementInvariant
<1>4. Spec => []UnagreedIsRefunded
  BY AlwaysRefunded
<1> QED BY <1>1, <1>2, <1>3, <1>4, PTL DEF Spec

-----------------------------------------------------------------------------
(* The shares *)

LEMMA SharesStep ==
  ASSUME AgreementAssumption, ~StalePublish, AgreementInv, SharesInv, [Next]_vars
  PROVE  SharesInv'
<1>1. AgreementInv' /\ public \in Nat /\ reserved \in Nat /\ Contracted \in Int
  BY AgreementSteps, ContractedTyped DEF AgreementInv, AgreementTypeOK
<1>2. CASE agreement' = agreement /\ reserved' = reserved /\ public' >= public
  <2>1. Contracted' = Contracted
    BY <1>2 DEF Contracted
  <2>2. public' \in Nat
    BY <1>1 DEF AgreementInv, AgreementTypeOK
  <2> QED BY <1>1, <1>2, <2>1, <2>2 DEF SharesInv, ReservedIsContracted, ContractsCovered
<1>3. ASSUME NEW r \in Requesters, MakesContract(r) PROVE SharesInv'
  <2> DEFINE t == offer[target[r]].terms
  <2>1. /\ target[r] \in Offers /\ t \in Terms /\ ~Agreed(target[r])
        /\ agreement' = [agreement EXCEPT ![target[r]] = t]
        /\ reserved' = reserved + t.amount /\ public' = public
        /\ public >= reserved + Negotiated(target[r]) + t.amount
    BY <1>3 DEF MakesContract, MayActivate, AgreementInv, AgreementTypeOK
  <2>2. t.amount \in Nat
    BY <2>1, TermsTyped
  <2> HIDE DEF t
  <2>3. Contracted' = Contracted + t.amount
    BY <2>1, ContractedAdds DEF AgreementInv
  <2>4. Negotiated(target[r]) \in Int /\ Negotiated(target[r]) >= 0
    BY NegotiatedTyped DEF AgreementInv
  <2> QED BY <1>1, <2>1, <2>2, <2>3, <2>4 DEF SharesInv, ReservedIsContracted, ContractsCovered
<1>4. CASE BalancesKept /\ UNCHANGED ownershipVars
  BY <1>1, <1>2, <1>4 DEF BalancesKept, ownershipVars
<1>5. ASSUME NEW r \in Requesters, Activate(r) PROVE SharesInv'
  <2>1. MakesContract(r) \/ MakesNothing(r)
    BY <1>5, ActivateStep
  <2> QED BY <1>1, <1>2, <1>3, <2>1 DEF MakesNothing
<1>6. CASE UNCHANGED <<rowVars, paid, requestVars>> /\ UNCHANGED ownershipVars
  BY <1>1, <1>2, <1>6 DEF rowVars, ownershipVars
<1>7. CASE UNCHANGED <<rowVars, paid, requestVars>> /\ public' >= public /\ reserved' = reserved
  BY <1>2, <1>7 DEF rowVars
<1> QED BY <1>4, <1>5, <1>6, <1>7, AgreementSteps

LEMMA SharesInitially ==
  ASSUME AgreementAssumption, Init
  PROVE  SharesInv
<1> DEFINE f == [o \in Offers |-> agreement[o].amount]
<1>1. f \in [Offers -> Int] /\ IsFiniteSet(Offers) /\ \A o \in Offers : f[o] = 0
  BY DEF Init, NoTerms, AgreementAssumption
<1>2. Contracted = SumFunctionOnSet(f, Offers)
  BY DEF Contracted
<1> HIDE DEF f
<1>3. Contracted = 0
  BY <1>1, <1>2, SumOfZeros
<1> QED BY <1>3 DEF Init, SharesInv, ReservedIsContracted, ContractsCovered, AgreementAssumption

LEMMA SharesInvariant ==
  AgreementAssumption /\ ~StalePublish => (Spec => []SharesInv)
<1> SUFFICES ASSUME AgreementAssumption, ~StalePublish PROVE Spec => []SharesInv
  OBVIOUS
<1>1. Init => SharesInv
  BY SharesInitially
<1>2. AgreementInv /\ SharesInv /\ [Next]_vars => SharesInv'
  BY SharesStep
<1>3. Spec => []AgreementInv
  BY AgreementInvariant
<1> QED BY <1>1, <1>2, <1>3, PTL DEF Spec

\* The seller has published the shares of all contracts, although requests decide
\* on unlocked reads, for any number of offers and requests, as long as no
\* publication overwrites what changed since it read.
THEOREM ContractsAreCovered ==
  AgreementAssumption /\ ~StalePublish => (Spec => []ContractsCovered)
<1>1. SharesInv => ContractsCovered
  BY DEF SharesInv
<1> QED BY <1>1, SharesInvariant, PTL

\* Under the same condition the reserved shares are exactly those of the contracts:
\* what the exercise saga assumes to begin with.
THEOREM ReservedForContracts ==
  AgreementAssumption /\ ~StalePublish => (Spec => []ReservedIsContracted)
<1>1. SharesInv => ReservedIsContracted
  BY DEF SharesInv
<1> QED BY <1>1, SharesInvariant, PTL

-----------------------------------------------------------------------------
(* The exercise of listed options *)

At(c) == xRequest[c].at
AtStep(steps) == {c \in Pair : At(c) \in steps}

\* A request has read a position of at least one contract; and as long as no write came
\* between, what it is about to write back is what the row holds.
RequestsMatch ==
    \A c \in Pair :
      /\ At(c) # "idle" => xRequest[c].option >= Size
      /\ ~ xClash => /\ At(c) \in {"settle", "convert", "stock"} =>
                          xRequest[c].stock = xOwned["stock"]
                     /\ At(c) # "idle" => xRequest[c].option = xOwned["option"]

OptionInv == Exercise!ExerciseTypeOK /\ RequestsMatch /\ Exercise!ExerciseExact

LEMMA ExerciseConstants ==
  /\ Size \in Nat \ {0} /\ OpeningOption \in Nat /\ MaxStock \in Nat /\ MaxSettled \in Nat
  /\ IsFiniteSet(Pair)
<1>1. Exercise!ExerciseAssumption
  BY TradingAssumption
<1>2. Exercise!IsFiniteSet(Pair) => IsFiniteSet(Pair)
  BY DEF Exercise!IsFiniteSet, IsFiniteSet
<1> QED BY <1>1, <1>2 DEF Exercise!ExerciseAssumption

LEMMA AwaitedCounts == \A S : Exercise!Awaited(S) = Cardinality(AtStep(S))
BY DEF Exercise!Awaited, AtStep, At, Exercise!Cardinality, Cardinality

\* One request moves from one step to another.
LEMMA AwaitedMoves ==
  ASSUME NEW c \in Pair, NEW steps, \A d \in Pair \ {c} : At(d)' = At(d)
  PROVE  /\ Cardinality(AtStep(steps)) \in Nat
         /\ At(c)' \in steps <=> At(c) \in steps =>
              Cardinality(AtStep(steps))' = Cardinality(AtStep(steps))
         /\ At(c)' \in steps /\ At(c) \notin steps =>
              Cardinality(AtStep(steps))' = Cardinality(AtStep(steps)) + 1
         /\ At(c)' \notin steps /\ At(c) \in steps =>
              Cardinality(AtStep(steps))' = Cardinality(AtStep(steps)) - 1
<1> DEFINE A == AtStep(steps)  B == AtStep(steps)'
<1>1. IsFiniteSet(A) /\ IsFiniteSet(B) /\ Cardinality(A) \in Nat /\ Cardinality(B) \in Nat
  BY ExerciseConstants, FS_Subset, FS_CardinalityType DEF AtStep
<1>2. (At(c)' \in steps <=> At(c) \in steps) => B = A
  BY DEF AtStep
<1>3. At(c)' \in steps /\ At(c) \notin steps => B = A \cup {c} /\ c \notin A
  BY DEF AtStep
<1>4. At(c)' \notin steps /\ At(c) \in steps => B = A \ {c} /\ c \in A
  BY DEF AtStep
<1>5. c \notin A => Cardinality(A \cup {c}) = Cardinality(A) + 1
  BY <1>1, FS_AddElement
<1>6. c \in A => Cardinality(A \ {c}) = Cardinality(A) - 1
  BY <1>1, FS_RemoveElement
<1> QED BY <1>1, <1>2, <1>3, <1>4, <1>5, <1>6

LEMMA ExerciseTypes ==
  ASSUME Exercise!ExerciseTypeOK
  PROVE  /\ xOwned \in [Exercise!Assets -> Nat] /\ xBought \in [Exercise!Assets -> Nat]
         /\ exercised \in [Exercise!Assets -> Nat] /\ xSettled \in Nat
         /\ xOwned["stock"] \in Nat /\ xOwned["option"] \in Nat
         /\ xBought["stock"] \in Nat /\ xBought["option"] \in Nat
         /\ exercised["stock"] \in Nat /\ exercised["option"] \in Nat
         /\ Exercise!Assets = {"stock", "option"}
         /\ xRequest \in [Pair -> [at : {"idle", "settle", "convert", "stock", "option"},
                                   stock : Nat, option : Nat]]
         /\ \A c \in Pair :
              /\ At(c) \in {"idle", "settle", "convert", "stock", "option"}
              /\ xRequest[c].stock \in Nat /\ xRequest[c].option \in Nat
              /\ xRequest[c] = [at |-> At(c), stock |-> xRequest[c].stock,
                                option |-> xRequest[c].option]
<1>1. /\ xOwned \in [Exercise!Assets -> Nat] /\ xBought \in [Exercise!Assets -> Nat]
      /\ exercised \in [Exercise!Assets -> Nat] /\ xSettled \in Nat
      /\ xRequest \in [Pair -> [at : {"idle", "settle", "convert", "stock", "option"},
                                stock : Nat, option : Nat]]
  BY DEF Exercise!ExerciseTypeOK
<1>2. Exercise!Assets = {"stock", "option"}
  BY DEF Exercise!Assets
<1> QED BY <1>1, <1>2 DEF At

\* A request goes on, with the copies it holds or new ones.
LEMMA RequestGoes ==
  ASSUME Exercise!ExerciseTypeOK, NEW c \in Pair,
         NEW a \in {"idle", "settle", "convert", "stock", "option"}, NEW s \in Nat, NEW o \in Nat,
         xRequest' = [xRequest EXCEPT ![c] = [at |-> a, stock |-> s, option |-> o]]
  PROVE  /\ xRequest' \in [Pair -> [at : {"idle", "settle", "convert", "stock", "option"},
                                    stock : Nat, option : Nat]]
         /\ At(c)' = a /\ xRequest'[c].stock = s /\ xRequest'[c].option = o
         /\ \A d \in Pair \ {c} : At(d)' = At(d) /\ xRequest'[d] = xRequest[d]
BY ExerciseTypes DEF At

LEMMA RequestWrites ==
  ASSUME Exercise!ExerciseTypeOK, NEW c \in Pair
  PROVE  /\ \A a : Exercise!Goes(c, a) =>
              xRequest' = [xRequest EXCEPT ![c] = [at |-> a, stock |-> xRequest[c].stock,
                                                   option |-> xRequest[c].option]]
         /\ Exercise!Ends(c) =>
              xRequest' = [xRequest EXCEPT ![c] = [at |-> "idle", stock |-> 0, option |-> 0]]
<1>1. ASSUME NEW a PROVE [xRequest[c] EXCEPT !.at = a]
        = [at |-> a, stock |-> xRequest[c].stock, option |-> xRequest[c].option]
  BY ExerciseTypes
<1> QED BY <1>1 DEF Exercise!Goes, Exercise!Ends, Exercise!Idle

LEMMA OptionBooleans ==
  ASSUME OptionInv, [Exercise!Next]_optionVars
  PROVE  inMoney' \in BOOLEAN /\ expired' \in BOOLEAN /\ xDisturbed' \in BOOLEAN /\ xClash' \in BOOLEAN
<1>1. inMoney \in BOOLEAN /\ expired \in BOOLEAN /\ xDisturbed \in BOOLEAN /\ xClash \in BOOLEAN
  BY DEF OptionInv, Exercise!ExerciseTypeOK
<1>2. CASE UNCHANGED optionVars
  BY <1>1, <1>2 DEF optionVars
<1>3. CASE \E c \in Pair : \/ Exercise!ReadOwnerships(c) \/ Exercise!SettlementFails(c)
                           \/ Exercise!ExecuteTradeSettlement(c) \/ Exercise!ConvertStrikePrice(c)
  BY <1>1, <1>3 DEF Exercise!ReadOwnerships, Exercise!SettlementFails,
     Exercise!ExecuteTradeSettlement, Exercise!ConvertStrikePrice
<1>4. CASE \E c \in Pair : \/ Exercise!FailAfterSettlement(c) \/ Exercise!UpsertStock(c)
                           \/ Exercise!UpsertOption(c)
  <2>1. \A c : Exercise!ReadByOther(c) \in BOOLEAN
    BY DEF Exercise!ReadByOther
  <2> QED BY <1>1, <1>4, <2>1 DEF Exercise!FailAfterSettlement, Exercise!UpsertStock,
     Exercise!UpsertOption
<1>5. CASE \E a \in Exercise!Assets : Exercise!OrderFill(a)
  BY <1>1, <1>5 DEF Exercise!OrderFill
<1>6. CASE Exercise!MarketMoves \/ Exercise!Expire
  BY <1>1, <1>6 DEF Exercise!MarketMoves, Exercise!Expire
<1> QED BY <1>2, <1>3, <1>4, <1>5, <1>6 DEF Exercise!Next

\* What is to be shown of a step.
LEMMA OptionParts ==
  ASSUME OptionInv, [Exercise!Next]_optionVars,
         /\ xOwned' \in [Exercise!Assets -> Nat] /\ xBought' \in [Exercise!Assets -> Nat]
         /\ exercised' \in [Exercise!Assets -> Nat] /\ xSettled' \in Nat
         /\ xRequest' \in [Pair -> [at : {"idle", "settle", "convert", "stock", "option"},
                                    stock : Nat, option : Nat]],
         RequestsMatch',
         ~ xClash' => /\ xOwned'["stock"] = xBought'["stock"] + Size * exercised'["stock"]
                      /\ xOwned'["option"] + Size * exercised'["option"]
                           = OpeningOption + xBought'["option"],
         ~ xDisturbed' =>
            /\ xSettled' = exercised'["stock"] + Cardinality(AtStep({"convert", "stock"}))'
            /\ xSettled' = exercised'["option"] + Cardinality(AtStep({"convert", "stock", "option"}))'
  PROVE  OptionInv'
<1>1. {xOwned', xBought', exercised'} \subseteq [Exercise!Assets -> Nat]
  OBVIOUS
<1>2. {inMoney', expired', xDisturbed', xClash'} \subseteq BOOLEAN
  BY OptionBooleans
<1>3. Exercise!ExerciseTypeOK'
  BY <1>1, <1>2 DEF Exercise!ExerciseTypeOK
<1>4. Exercise!ExerciseExact'
  <2>1. /\ Exercise!Awaited({"convert", "stock"})' = Cardinality(AtStep({"convert", "stock"}))'
        /\ Exercise!Awaited({"convert", "stock", "option"})'
             = Cardinality(AtStep({"convert", "stock", "option"}))'
    BY DEF Exercise!Awaited, AtStep, At, Exercise!Cardinality, Cardinality
  <2> QED BY <2>1 DEF Exercise!ExerciseExact
<1> QED BY <1>3, <1>4 DEF OptionInv

LEMMA OptionExact ==
  ASSUME OptionInv
  PROVE  /\ ~ xClash => /\ xOwned["stock"] = xBought["stock"] + Size * exercised["stock"]
                        /\ xOwned["option"] + Size * exercised["option"]
                             = OpeningOption + xBought["option"]
         /\ ~ xDisturbed =>
              /\ xSettled = exercised["stock"] + Cardinality(AtStep({"convert", "stock"}))
              /\ xSettled = exercised["option"] + Cardinality(AtStep({"convert", "stock", "option"}))
BY AwaitedCounts DEF OptionInv, Exercise!ExerciseExact

\* The steps that write no row, but the one behind the settlement.
LEMMA RequestSteps ==
  ASSUME OptionInv, NEW c \in Pair,
         \/ Exercise!ReadOwnerships(c) \/ Exercise!SettlementFails(c)
         \/ Exercise!ConvertStrikePrice(c)
  PROVE  OptionInv'
<1>n. [Exercise!Next]_optionVars
  BY DEF Exercise!Next
<1>0. Exercise!ExerciseTypeOK /\ RequestsMatch
  BY DEF OptionInv
<1>t. /\ xOwned["stock"] \in Nat /\ xOwned["option"] \in Nat
      /\ xOwned \in [Exercise!Assets -> Nat] /\ xBought \in [Exercise!Assets -> Nat]
      /\ exercised \in [Exercise!Assets -> Nat] /\ xSettled \in Nat
      /\ xRequest[c].stock \in Nat /\ xRequest[c].option \in Nat
  BY <1>0, ExerciseTypes
<1>s. Size \in Nat \ {0}
  BY ExerciseConstants
<1>1. UNCHANGED <<xOwned, xBought, xSettled, exercised, xDisturbed, xClash>>
  BY DEF Exercise!ReadOwnerships, Exercise!SettlementFails, Exercise!ConvertStrikePrice
\* The request holds the copies it held, or has just read them.
<1>2. \E a \in {"idle", "settle", "stock"}, s \in Nat, o \in Nat :
        /\ xRequest' = [xRequest EXCEPT ![c] = [at |-> a, stock |-> s, option |-> o]]
        /\ a = "settle" => /\ At(c) = "idle"
                           /\ s = xOwned["stock"] /\ o = xOwned["option"] /\ o >= Size
        /\ a = "idle" => At(c) = "settle"
        /\ a = "stock" => At(c) = "convert" /\ s = xRequest[c].stock /\ o = xRequest[c].option
  <2>1. CASE Exercise!ReadOwnerships(c)
    <3>1. xOwned["option"] >= Size
      <4>1. xOwned["option"] > 0 /\ xOwned["option"] % Size = 0
        BY <2>1 DEF Exercise!ReadOwnerships
      <4>2. xOwned["option"] < Size => xOwned["option"] % Size = xOwned["option"]
        BY <1>t, <1>s
      <4> QED BY <1>t, <1>s, <4>1, <4>2
    <3> QED BY <1>t, <2>1, <3>1 DEF Exercise!ReadOwnerships, At
  <2>2. CASE Exercise!SettlementFails(c)
    BY <1>0, <2>2, RequestWrites DEF Exercise!SettlementFails, At
  <2>3. CASE Exercise!ConvertStrikePrice(c)
    BY <1>0, <1>t, <2>3, RequestWrites DEF Exercise!ConvertStrikePrice, At
  <2> QED BY <2>1, <2>2, <2>3
<1>3. PICK a \in {"idle", "settle", "stock"}, s \in Nat, o \in Nat : <1>2!(a, s, o)
  BY <1>2
<1>4. /\ xRequest' \in [Pair -> [at : {"idle", "settle", "convert", "stock", "option"},
                                 stock : Nat, option : Nat]]
      /\ At(c)' = a /\ xRequest'[c].stock = s /\ xRequest'[c].option = o
      /\ \A d \in Pair \ {c} : At(d)' = At(d) /\ xRequest'[d] = xRequest[d]
  BY <1>0, <1>3, RequestGoes
<1>5. RequestsMatch'
  <2> SUFFICES ASSUME NEW d \in Pair
               PROVE  /\ At(d)' # "idle" => xRequest'[d].option >= Size
                      /\ ~ xClash => /\ At(d)' \in {"settle", "convert", "stock"} =>
                                          xRequest'[d].stock = xOwned["stock"]
                                     /\ At(d)' # "idle" => xRequest'[d].option = xOwned["option"]
    BY <1>1 DEF RequestsMatch
  <2>1. CASE d # c
    BY <1>0, <1>4, <2>1 DEF RequestsMatch
  <2>2. CASE d = c
    BY <1>0, <1>3, <1>4, <2>2 DEF RequestsMatch
  <2> QED BY <2>1, <2>2
<1>6. /\ Cardinality(AtStep({"convert", "stock"}))' = Cardinality(AtStep({"convert", "stock"}))
      /\ Cardinality(AtStep({"convert", "stock", "option"}))'
           = Cardinality(AtStep({"convert", "stock", "option"}))
  <2>1. /\ At(c)' \in {"convert", "stock"} <=> At(c) \in {"convert", "stock"}
        /\ At(c)' \in {"convert", "stock", "option"} <=> At(c) \in {"convert", "stock", "option"}
    BY <1>3, <1>4
  <2> QED BY <1>4, <2>1, AwaitedMoves
<1> QED BY <1>n, <1>t, <1>1, <1>4, <1>5, <1>6, OptionExact, OptionParts

\* The settlement, and a failure behind it.
LEMMA SettlementSteps ==
  ASSUME OptionInv, NEW c \in Pair,
         Exercise!ExecuteTradeSettlement(c) \/ Exercise!FailAfterSettlement(c)
  PROVE  OptionInv'
<1>n. [Exercise!Next]_optionVars
  BY DEF Exercise!Next
<1>0. Exercise!ExerciseTypeOK /\ RequestsMatch
  BY DEF OptionInv
<1>t. /\ xOwned \in [Exercise!Assets -> Nat] /\ xBought \in [Exercise!Assets -> Nat]
      /\ exercised \in [Exercise!Assets -> Nat] /\ xSettled \in Nat
      /\ exercised["stock"] \in Nat /\ exercised["option"] \in Nat
      /\ xRequest[c].stock \in Nat /\ xRequest[c].option \in Nat
  BY <1>0, ExerciseTypes
<1>1. UNCHANGED <<xOwned, xBought, exercised, xClash>>
  BY DEF Exercise!ExecuteTradeSettlement, Exercise!FailAfterSettlement
<1>2. \E a \in {"idle", "convert"}, s \in Nat, o \in Nat :
        /\ xRequest' = [xRequest EXCEPT ![c] = [at |-> a, stock |-> s, option |-> o]]
        /\ a = "convert" => /\ At(c) = "settle" /\ xSettled' = xSettled + 1
                            /\ s = xRequest[c].stock /\ o = xRequest[c].option
                            /\ UNCHANGED xDisturbed
        /\ a = "idle" => xDisturbed' = TRUE
        /\ xSettled' \in Nat
  <2>1. CASE Exercise!ExecuteTradeSettlement(c) /\ Exercise!Goes(c, "convert")
             /\ UNCHANGED xDisturbed
    BY <1>0, <1>t, <2>1, RequestWrites DEF Exercise!ExecuteTradeSettlement, At
  <2>2. CASE Exercise!ExecuteTradeSettlement(c) /\ Exercise!Ends(c) /\ xDisturbed' = TRUE
    <3>1. xSettled' \in Nat
      BY <1>t, <2>2 DEF Exercise!ExecuteTradeSettlement
    <3>2. xRequest' = [xRequest EXCEPT ![c] = [at |-> "idle", stock |-> 0, option |-> 0]]
      BY <1>0, <2>2, RequestWrites
    <3> QED BY <2>2, <3>1, <3>2
  <2>3. CASE Exercise!FailAfterSettlement(c)
    BY <1>0, <1>t, <2>3, RequestWrites DEF Exercise!FailAfterSettlement
  <2>4. Exercise!ExecuteTradeSettlement(c) =>
          \/ Exercise!Goes(c, "convert") /\ UNCHANGED xDisturbed
          \/ Exercise!Ends(c) /\ xDisturbed' = TRUE
    BY DEF Exercise!ExecuteTradeSettlement
  <2> QED BY <2>1, <2>2, <2>3, <2>4
<1>3. PICK a \in {"idle", "convert"}, s \in Nat, o \in Nat : <1>2!(a, s, o)
  BY <1>2
<1>4. /\ xRequest' \in [Pair -> [at : {"idle", "settle", "convert", "stock", "option"},
                                 stock : Nat, option : Nat]]
      /\ At(c)' = a /\ xRequest'[c].stock = s /\ xRequest'[c].option = o
      /\ \A d \in Pair \ {c} : At(d)' = At(d) /\ xRequest'[d] = xRequest[d]
  BY <1>0, <1>3, RequestGoes
<1>5. RequestsMatch'
  <2> SUFFICES ASSUME NEW d \in Pair
               PROVE  /\ At(d)' # "idle" => xRequest'[d].option >= Size
                      /\ ~ xClash => /\ At(d)' \in {"settle", "convert", "stock"} =>
                                          xRequest'[d].stock = xOwned["stock"]
                                     /\ At(d)' # "idle" => xRequest'[d].option = xOwned["option"]
    BY <1>1 DEF RequestsMatch
  <2>1. CASE d # c
    BY <1>0, <1>4, <2>1 DEF RequestsMatch
  <2>2. CASE d = c
    BY <1>0, <1>3, <1>4, <2>2 DEF RequestsMatch
  <2> QED BY <2>1, <2>2
<1>6. ~ xDisturbed' =>
        /\ xSettled' = exercised'["stock"] + Cardinality(AtStep({"convert", "stock"}))'
        /\ xSettled' = exercised'["option"] + Cardinality(AtStep({"convert", "stock", "option"}))'
  <2> SUFFICES ASSUME ~ xDisturbed'
               PROVE  /\ xSettled' = exercised["stock"] + Cardinality(AtStep({"convert", "stock"}))'
                      /\ xSettled' = exercised["option"]
                                       + Cardinality(AtStep({"convert", "stock", "option"}))'
    BY <1>1
  <2>1. a = "convert" /\ ~ xDisturbed /\ xSettled' = xSettled + 1 /\ At(c) = "settle"
    BY <1>3
  <2>2. /\ Cardinality(AtStep({"convert", "stock"}))' = Cardinality(AtStep({"convert", "stock"})) + 1
        /\ Cardinality(AtStep({"convert", "stock", "option"}))'
             = Cardinality(AtStep({"convert", "stock", "option"})) + 1
        /\ Cardinality(AtStep({"convert", "stock"})) \in Nat
        /\ Cardinality(AtStep({"convert", "stock", "option"})) \in Nat
    <3>1. /\ At(c)' \in {"convert", "stock"} /\ At(c) \notin {"convert", "stock"}
          /\ At(c)' \in {"convert", "stock", "option"}
          /\ At(c) \notin {"convert", "stock", "option"}
      BY <1>4, <2>1
    <3> QED BY <1>4, <3>1, AwaitedMoves
  <2> QED BY <1>t, <2>1, <2>2, OptionExact
<1> QED BY <1>n, <1>t, <1>1, <1>3, <1>4, <1>5, <1>6, OptionExact, OptionParts

LEMMA TimesOneMore == ASSUME NEW s \in Nat, NEW n \in Nat PROVE s * (n + 1) = s * n + s
OBVIOUS

\* The two writes.
LEMMA UpsertSteps ==
  ASSUME OptionInv, NEW c \in Pair, Exercise!UpsertStock(c) \/ Exercise!UpsertOption(c)
  PROVE  OptionInv'
<1>n. [Exercise!Next]_optionVars
  BY DEF Exercise!Next
<1>0. Exercise!ExerciseTypeOK /\ RequestsMatch
  BY DEF OptionInv
<1>t. /\ xOwned \in [Exercise!Assets -> Nat] /\ xBought \in [Exercise!Assets -> Nat]
      /\ exercised \in [Exercise!Assets -> Nat] /\ xSettled \in Nat
      /\ xOwned["stock"] \in Nat /\ xOwned["option"] \in Nat
      /\ xBought["stock"] \in Nat /\ xBought["option"] \in Nat
      /\ exercised["stock"] \in Nat /\ exercised["option"] \in Nat
      /\ Exercise!Assets = {"stock", "option"}
      /\ xRequest[c].stock \in Nat /\ xRequest[c].option \in Nat
  BY <1>0, ExerciseTypes
<1>s. Size \in Nat \ {0} /\ OpeningOption \in Nat
  BY ExerciseConstants
<1>m. /\ At(c) # "idle" => xRequest[c].option >= Size
      /\ ~ xClash => /\ At(c) = "stock" => xRequest[c].stock = xOwned["stock"]
                     /\ At(c) # "idle" => xRequest[c].option = xOwned["option"]
  BY <1>0 DEF RequestsMatch
\* No other request was under way, or there is a clash.
<1>o. ~ xClash' => ~ xClash /\ \A d \in Pair \ {c} : At(d) = "idle"
  BY DEF Exercise!UpsertStock, Exercise!UpsertOption, Exercise!ReadByOther, At
<1>1. CASE Exercise!UpsertStock(c)
  <2>1. /\ At(c) = "stock" /\ UNCHANGED <<xBought, xSettled, xDisturbed>>
        /\ xRequest' = [xRequest EXCEPT ![c] = [at |-> "option", stock |-> xRequest[c].stock,
                                                option |-> xRequest[c].option]]
        /\ xOwned' = [xOwned EXCEPT !["stock"] = xRequest[c].stock + Size]
        /\ exercised' = [exercised EXCEPT !["stock"] = @ + 1]
    BY <1>0, <1>1, RequestWrites DEF Exercise!UpsertStock, At
  <2>2. /\ xRequest' \in [Pair -> [at : {"idle", "settle", "convert", "stock", "option"},
                                   stock : Nat, option : Nat]]
        /\ At(c)' = "option" /\ xRequest'[c].option = xRequest[c].option
        /\ \A d \in Pair \ {c} : At(d)' = At(d) /\ xRequest'[d] = xRequest[d]
    BY <1>0, <1>t, <2>1, RequestGoes
  <2>3. /\ xOwned' \in [Exercise!Assets -> Nat] /\ exercised' \in [Exercise!Assets -> Nat]
        /\ xOwned'["stock"] = xRequest[c].stock + Size /\ xOwned'["option"] = xOwned["option"]
        /\ exercised'["stock"] = exercised["stock"] + 1
        /\ exercised'["option"] = exercised["option"]
    BY <1>t, <1>s, <2>1
  <2>4. RequestsMatch'
    <3> SUFFICES ASSUME NEW d \in Pair
                 PROVE  /\ At(d)' # "idle" => xRequest'[d].option >= Size
                        /\ ~ xClash' => /\ At(d)' \in {"settle", "convert", "stock"} =>
                                             xRequest'[d].stock = xOwned'["stock"]
                                        /\ At(d)' # "idle" => xRequest'[d].option = xOwned'["option"]
      BY DEF RequestsMatch
    <3>1. CASE d # c
      BY <1>0, <1>o, <2>2, <3>1 DEF RequestsMatch
    <3>2. CASE d = c
      BY <1>m, <1>o, <2>1, <2>2, <2>3, <3>2
    <3> QED BY <3>1, <3>2
  <2>5. /\ Cardinality(AtStep({"convert", "stock"}))' = Cardinality(AtStep({"convert", "stock"})) - 1
        /\ Cardinality(AtStep({"convert", "stock", "option"}))'
             = Cardinality(AtStep({"convert", "stock", "option"}))
        /\ Cardinality(AtStep({"convert", "stock"})) \in Nat
    <3>1. /\ At(c)' \notin {"convert", "stock"} /\ At(c) \in {"convert", "stock"}
          /\ At(c)' \in {"convert", "stock", "option"} <=> At(c) \in {"convert", "stock", "option"}
      BY <2>1, <2>2
    <3> QED BY <2>2, <3>1, AwaitedMoves
  <2>6. ~ xClash' => /\ xOwned'["stock"] = xBought'["stock"] + Size * exercised'["stock"]
                     /\ xOwned'["option"] + Size * exercised'["option"]
                          = OpeningOption + xBought'["option"]
    <3> SUFFICES ASSUME ~ xClash' PROVE
          /\ xRequest[c].stock + Size = xBought["stock"] + Size * (exercised["stock"] + 1)
          /\ xOwned["option"] + Size * exercised["option"] = OpeningOption + xBought["option"]
      BY <2>1, <2>3
    <3>1. Size * (exercised["stock"] + 1) = Size * exercised["stock"] + Size
      BY <1>t, <1>s, TimesOneMore
    <3>2. Size * exercised["stock"] \in Nat
      BY <1>t, <1>s
    <3>3. xRequest[c].stock = xBought["stock"] + Size * exercised["stock"]
      BY <1>m, <1>o, <2>1, OptionExact
    <3>4. xRequest[c].stock + Size = xBought["stock"] + Size * (exercised["stock"] + 1)
      BY <1>t, <1>s, <3>1, <3>2, <3>3
    <3> QED BY <1>o, <3>4, OptionExact
  <2>7. ~ xDisturbed' =>
          /\ xSettled' = exercised'["stock"] + Cardinality(AtStep({"convert", "stock"}))'
          /\ xSettled' = exercised'["option"] + Cardinality(AtStep({"convert", "stock", "option"}))'
    BY <1>t, <2>1, <2>3, <2>5, OptionExact
  <2> QED BY <1>n, <1>t, <2>1, <2>2, <2>3, <2>4, <2>6, <2>7, OptionParts
<1>2. CASE Exercise!UpsertOption(c)
  <2>1. /\ At(c) = "option" /\ UNCHANGED <<xBought, xSettled, xDisturbed>>
        /\ xRequest' = [xRequest EXCEPT ![c] = [at |-> "idle", stock |-> 0, option |-> 0]]
        /\ xOwned' = [xOwned EXCEPT !["option"] = xRequest[c].option - Size]
        /\ exercised' = [exercised EXCEPT !["option"] = @ + 1]
    BY <1>0, <1>2, RequestWrites DEF Exercise!UpsertOption, At
  <2>2. /\ xRequest' \in [Pair -> [at : {"idle", "settle", "convert", "stock", "option"},
                                   stock : Nat, option : Nat]]
        /\ At(c)' = "idle"
        /\ \A d \in Pair \ {c} : At(d)' = At(d) /\ xRequest'[d] = xRequest[d]
    BY <1>0, <1>t, <2>1, RequestGoes
  <2>3. /\ xOwned' \in [Exercise!Assets -> Nat] /\ exercised' \in [Exercise!Assets -> Nat]
        /\ xOwned'["option"] = xRequest[c].option - Size /\ xOwned'["stock"] = xOwned["stock"]
        /\ exercised'["option"] = exercised["option"] + 1
        /\ exercised'["stock"] = exercised["stock"]
    <3>1. xRequest[c].option - Size \in Nat
      BY <1>t, <1>s, <1>m, <2>1
    <3> QED BY <1>t, <2>1, <3>1
  <2>4. RequestsMatch'
    <3> SUFFICES ASSUME NEW d \in Pair
                 PROVE  /\ At(d)' # "idle" => xRequest'[d].option >= Size
                        /\ ~ xClash' => At(d)' = "idle"
      BY DEF RequestsMatch
    <3>1. CASE d # c
      BY <1>0, <1>o, <2>2, <3>1 DEF RequestsMatch
    <3>2. CASE d = c
      BY <2>2, <3>2
    <3> QED BY <3>1, <3>2
  <2>5. /\ Cardinality(AtStep({"convert", "stock"}))' = Cardinality(AtStep({"convert", "stock"}))
        /\ Cardinality(AtStep({"convert", "stock", "option"}))'
             = Cardinality(AtStep({"convert", "stock", "option"})) - 1
        /\ Cardinality(AtStep({"convert", "stock", "option"})) \in Nat
    <3>1. /\ At(c)' \notin {"convert", "stock", "option"} /\ At(c) \in {"convert", "stock", "option"}
          /\ At(c)' \in {"convert", "stock"} <=> At(c) \in {"convert", "stock"}
      BY <2>1, <2>2
    <3> QED BY <2>2, <3>1, AwaitedMoves
  <2>6. ~ xClash' => /\ xOwned'["stock"] = xBought'["stock"] + Size * exercised'["stock"]
                     /\ xOwned'["option"] + Size * exercised'["option"]
                          = OpeningOption + xBought'["option"]
    <3> SUFFICES ASSUME ~ xClash' PROVE
          /\ xOwned["stock"] = xBought["stock"] + Size * exercised["stock"]
          /\ xRequest[c].option - Size + Size * (exercised["option"] + 1)
               = OpeningOption + xBought["option"]
      BY <2>1, <2>3
    <3>1. Size * (exercised["option"] + 1) = Size * exercised["option"] + Size
      BY <1>t, <1>s, TimesOneMore
    <3>2. Size * exercised["option"] \in Nat
      BY <1>t, <1>s
    <3>3. xRequest[c].option + Size * exercised["option"] = OpeningOption + xBought["option"]
      BY <1>m, <1>o, <2>1, OptionExact
    <3>4. xRequest[c].option - Size + Size * (exercised["option"] + 1)
            = OpeningOption + xBought["option"]
      BY <1>t, <1>s, <3>1, <3>2, <3>3
    <3> QED BY <1>o, <3>4, OptionExact
  <2>7. ~ xDisturbed' =>
          /\ xSettled' = exercised'["stock"] + Cardinality(AtStep({"convert", "stock"}))'
          /\ xSettled' = exercised'["option"] + Cardinality(AtStep({"convert", "stock", "option"}))'
    BY <1>t, <2>1, <2>3, <2>5, OptionExact
  <2> QED BY <1>n, <1>t, <2>1, <2>2, <2>3, <2>4, <2>6, <2>7, OptionParts
<1> QED BY <1>1, <1>2

LEMMA OptionFilled ==
  ASSUME OptionInv, NEW a \in Exercise!Assets, Exercise!OrderFill(a)
  PROVE  OptionInv'
<1>n. [Exercise!Next]_optionVars
  BY DEF Exercise!Next
<1>0. Exercise!ExerciseTypeOK /\ RequestsMatch
  BY DEF OptionInv
<1>t. /\ xOwned \in [Exercise!Assets -> Nat] /\ xBought \in [Exercise!Assets -> Nat]
      /\ exercised \in [Exercise!Assets -> Nat] /\ xSettled \in Nat
      /\ xOwned["stock"] \in Nat /\ xOwned["option"] \in Nat
      /\ xBought["stock"] \in Nat /\ xBought["option"] \in Nat
      /\ exercised["stock"] \in Nat /\ exercised["option"] \in Nat
      /\ Exercise!Assets = {"stock", "option"}
      /\ xRequest \in [Pair -> [at : {"idle", "settle", "convert", "stock", "option"},
                                stock : Nat, option : Nat]]
  BY <1>0, ExerciseTypes
<1>s. Size \in Nat \ {0} /\ OpeningOption \in Nat
  BY ExerciseConstants
<1>1. /\ xOwned' = [xOwned EXCEPT ![a] = @ + Size] /\ xBought' = [xBought EXCEPT ![a] = @ + Size]
      /\ ~ xClash' => ~ xClash /\ \A c \in Pair : At(c) = "idle"
      /\ UNCHANGED <<xRequest, xSettled, exercised, xDisturbed>>
  BY DEF Exercise!OrderFill, At
<1>2. /\ xOwned' \in [Exercise!Assets -> Nat] /\ xBought' \in [Exercise!Assets -> Nat]
      /\ xOwned'["stock"] = (IF a = "stock" THEN xOwned["stock"] + Size ELSE xOwned["stock"])
      /\ xBought'["stock"] = (IF a = "stock" THEN xBought["stock"] + Size ELSE xBought["stock"])
      /\ xOwned'["option"] = (IF a = "option" THEN xOwned["option"] + Size ELSE xOwned["option"])
      /\ xBought'["option"] = (IF a = "option" THEN xBought["option"] + Size ELSE xBought["option"])
  BY <1>t, <1>s, <1>1
<1>3. RequestsMatch'
  BY <1>0, <1>1 DEF RequestsMatch, At
<1>4. ~ xClash' => /\ xOwned'["stock"] = xBought'["stock"] + Size * exercised'["stock"]
                   /\ xOwned'["option"] + Size * exercised'["option"]
                        = OpeningOption + xBought'["option"]
  <2> SUFFICES ASSUME ~ xClash' PROVE
        /\ xOwned'["stock"] = xBought'["stock"] + Size * exercised["stock"]
        /\ xOwned'["option"] + Size * exercised["option"] = OpeningOption + xBought'["option"]
    BY <1>1
  <2>1. /\ xOwned["stock"] = xBought["stock"] + Size * exercised["stock"]
        /\ xOwned["option"] + Size * exercised["option"] = OpeningOption + xBought["option"]
    BY <1>1, OptionExact
  <2>2. Size * exercised["stock"] \in Nat /\ Size * exercised["option"] \in Nat
    BY <1>t, <1>s
  <2> QED BY <1>t, <1>s, <1>2, <2>1, <2>2
<1>5. ~ xDisturbed' =>
        /\ xSettled' = exercised'["stock"] + Cardinality(AtStep({"convert", "stock"}))'
        /\ xSettled' = exercised'["option"] + Cardinality(AtStep({"convert", "stock", "option"}))'
  <2>1. \A S : AtStep(S)' = AtStep(S)
    BY <1>1 DEF AtStep, At
  <2> QED BY <1>1, <2>1, OptionExact
<1> QED BY <1>n, <1>t, <1>1, <1>2, <1>3, <1>4, <1>5, OptionParts

LEMMA OptionRests ==
  ASSUME OptionInv, Exercise!MarketMoves \/ Exercise!Expire \/ UNCHANGED optionVars
  PROVE  OptionInv'
<1>n. [Exercise!Next]_optionVars
  BY DEF Exercise!Next
<1>1. UNCHANGED <<xOwned, xRequest, xBought, xSettled, exercised, xDisturbed, xClash>>
  BY DEF Exercise!MarketMoves, Exercise!Expire, optionVars
<1>2. \A S : AtStep(S)' = AtStep(S)
  BY <1>1 DEF AtStep, At
<1>3. RequestsMatch'
  BY <1>1 DEF OptionInv, RequestsMatch, At
<1>t. /\ xOwned \in [Exercise!Assets -> Nat] /\ xBought \in [Exercise!Assets -> Nat]
      /\ exercised \in [Exercise!Assets -> Nat] /\ xSettled \in Nat
      /\ xRequest \in [Pair -> [at : {"idle", "settle", "convert", "stock", "option"},
                                stock : Nat, option : Nat]]
  BY ExerciseTypes DEF OptionInv
<1>4. /\ xOwned' = xOwned /\ xBought' = xBought /\ exercised' = exercised /\ xSettled' = xSettled
      /\ xRequest' = xRequest /\ (xClash' <=> xClash) /\ (xDisturbed' <=> xDisturbed)
  BY <1>1
<1> QED BY <1>n, <1>t, <1>2, <1>3, <1>4, OptionExact, OptionParts

LEMMA OptionInitially == Exercise!Init => OptionInv
<1> SUFFICES ASSUME Exercise!Init PROVE OptionInv
  OBVIOUS
<1>1. /\ xRequest = [c \in Pair |-> Exercise!Idle]
      /\ xOwned = [a \in Exercise!Assets |-> IF a = "option" THEN OpeningOption ELSE 0]
      /\ xBought = [a \in Exercise!Assets |-> 0] /\ xSettled = 0 /\ exercised = xBought
  BY DEF Exercise!Init
<1>2. inMoney = TRUE /\ expired = FALSE /\ xDisturbed = FALSE /\ xClash = FALSE
  BY DEF Exercise!Init
<1>3. Size \in Nat \ {0} /\ OpeningOption \in Nat
  BY ExerciseConstants
<1>4. Exercise!ExerciseTypeOK
  <2>1. {xOwned, xBought, exercised} \subseteq [Exercise!Assets -> Nat] /\ xSettled \in Nat
    BY <1>1, <1>3
  <2>2. {inMoney, expired, xDisturbed, xClash} \subseteq BOOLEAN
    BY <1>2
  <2>3. xRequest \in [Pair -> [at : {"idle", "settle", "convert", "stock", "option"},
                               stock : Nat, option : Nat]]
    BY <1>1 DEF Exercise!Idle
  <2> QED BY <2>1, <2>2, <2>3 DEF Exercise!ExerciseTypeOK
<1>5. \A c \in Pair : At(c) = "idle"
  BY <1>1 DEF At, Exercise!Idle
<1>6. RequestsMatch
  BY <1>5 DEF RequestsMatch
<1>7. \A S \in {{"convert", "stock"}, {"convert", "stock", "option"}} :
        Exercise!Awaited(S) = 0
  <2>1. \A S \in {{"convert", "stock"}, {"convert", "stock", "option"}} : AtStep(S) = {}
    BY <1>5 DEF AtStep
  <2> QED BY <2>1, AwaitedCounts, FS_EmptySet
<1>8. Exercise!ExerciseExact
  <2>1. "stock" \in Exercise!Assets /\ "option" \in Exercise!Assets
    BY DEF Exercise!Assets
  <2> QED BY <1>1, <1>3, <1>7, <2>1 DEF Exercise!ExerciseExact
<1> QED BY <1>4, <1>6, <1>8 DEF OptionInv

LEMMA OptionStep == OptionInv /\ [Exercise!Next]_optionVars => OptionInv'
BY RequestSteps, SettlementSteps, UpsertSteps, OptionFilled, OptionRests DEF Exercise!Next

-----------------------------------------------------------------------------
(* Orders *)

CopySteps  == {"postpone", "fail", "record", "tax", "save"}
FillSteps  == {"record", "tax", "save", "ownership", "upsert"}
MoveSteps  == {"ownership", "upsert"}
WorkSteps  == CopySteps \cup MoveSteps \cup {"idle"}
Batches    == UNION {[S -> Trade!Rows] : S \in SUBSET TradeOrders}
WorkStates == [at : WorkSteps, order : TradeOrders \cup {Trade!NoOrder}, copy : Trade!Rows,
               fill : Nat, share : Nat, reserved : Nat, batch : Batches]
CallStates == [op : {"idle", "approve", "decline", "cancel"},
               order : TradeOrders \cup {Trade!NoOrder}, copy : Trade!Rows]

\* What a worker and a request may hold.
WorkMatches(x) ==
    /\ x.at = "idle" <=> x.order = Trade!NoOrder
    /\ x.order \notin DOMAIN x.batch
    /\ x.at \in FillSteps => x.fill > 0

OrderTyped ==
    /\ row \in [TradeOrders -> Trade!Rows]
    /\ owned \in [TradeHolders -> [amount : Nat, reserved : Nat]]
    /\ usedLimit \in Nat /\ approved \in Nat
    /\ worker \in [Workers -> WorkStates] /\ \A w \in Workers : WorkMatches(worker[w])
    /\ oCall \in [OrderCalls -> CallStates]
    /\ \A c \in OrderCalls : oCall[c].op = "idle" <=> oCall[c].order = Trade!NoOrder
    /\ oPaid \in [TradeOrders -> Nat] /\ recorded \in [TradeOrders -> Nat]
    /\ moved \in [TradeOrders -> Nat] /\ commissions \in [TradeOrders -> Nat]
    /\ transferred \in [TradeHolders -> Nat] /\ pledged \in [TradeHolders -> Nat]
    /\ oDisturbed \subseteq TradeOrders /\ oOverlapped \subseteq TradeOrders
    /\ short \subseteq TradeOrders /\ oClash \subseteq TradeHolders

Holds(x, o) == x.order = o \/ o \in DOMAIN x.batch

\* One actor holds copies of an order ...
OneHolder(o) ==
    /\ \A w, v \in Workers : Holds(worker[w], o) /\ Holds(worker[v], o) => w = v
    /\ \A c, d \in OrderCalls : oCall[c].order = o /\ oCall[d].order = o => c = d
    /\ \A w \in Workers, c \in OrderCalls : ~ (Holds(worker[w], o) /\ oCall[c].order = o)

\* ... and they are the row, which is approved, or pending for a request.
CopyIsRow(x, o, r) ==
    /\ Holds(x, o) => r.status = "APPROVED"
    /\ o \in DOMAIN x.batch => x.batch[o] = r
    /\ x.order = o /\ x.at \in CopySteps => x.copy = r
CallIsRow(y, o, r) == y.order = o => y.copy = r /\ r.status \in {"PENDING", "APPROVED"}

CopiesMatch(o) ==
    /\ \A w \in Workers : CopyIsRow(worker[w], o, row[o])
    /\ \A c \in OrderCalls : CallIsRow(oCall[c], o, row[o])

\* The counts of fills, of which the commission is taken with the first.
FillsMatch(o) ==
    /\ oPaid[o] = recorded[o] + Trade!Pending(o, {"record"})
    /\ oPaid[o] = row[o].filled + Trade!Pending(o, {"record", "tax", "save"})
    /\ o \notin short => row[o].filled = moved[o] + Trade!Pending(o, MoveSteps)
    /\ commissions[o] = IF oPaid[o] = 0 \/ TradeOrder[o].exempt THEN 0 ELSE 1
    /\ row[o].charged <=> row[o].filled > 0 /\ ~ TradeOrder[o].exempt

\* One worker writes an ownership back, and what it read is what is there.
Writes(x, h) == x.at = "upsert" /\ Trade!Holder(x.order) = h
ShareMatches(h) ==
    /\ \A w \in Workers : Writes(worker[w], h) =>
         worker[w].share = owned[h].amount /\ worker[w].reserved = owned[h].reserved
    /\ \A w, v \in Workers : Writes(worker[w], h) /\ Writes(worker[v], h) => w = v

MovedOf(side, h) ==
    SumFunctionOnSet([o \in TradeOrders |->
        IF TradeOrder[o].side = side /\ Trade!Holder(o) = h
        THEN moved[o] * TradeOrder[o].size ELSE 0], TradeOrders)

ShareBalance(h) ==
    /\ owned[h].amount + transferred[h] + MovedOf("SELL", h) = TradeOpening[h] + MovedOf("BUY", h)
    /\ owned[h].reserved = pledged[h]

OrderInv ==
    /\ OrderTyped
    /\ \A o \in TradeOrders \ oOverlapped : OneHolder(o) /\ CopiesMatch(o)
    /\ \A o \in TradeOrders \ (oDisturbed \cup oOverlapped) : FillsMatch(o)
    /\ \A h \in TradeHolders \ oClash : ShareMatches(h) /\ ShareBalance(h)

LEMMA OrderConstants ==
  /\ Loop \in Workers /\ TradeOpening \in [TradeHolders -> Nat] /\ "bank" \in TradeHolders
  /\ IsFiniteSet(TradeOrders) /\ Trade!NoOrder \notin TradeOrders
  /\ Workers \cap (OrderCalls \cup {"otc"}) = {}
  /\ \A o \in TradeOrders :
       /\ TradeOrder[o].side \in {"BUY", "SELL"} /\ TradeOrder[o].quantity \in Nat \ {0}
       /\ TradeOrder[o].size \in Nat \ {0} /\ TradeOrder[o].holder \in TradeHolders
       /\ TradeOrder[o].exempt \in BOOLEAN /\ Trade!Holder(o) \in TradeHolders
<1>1. Trade!OrdersAssumption
  BY TradingAssumption
<1>2. Trade!IsFiniteSet(TradeOrders) => IsFiniteSet(TradeOrders)
  BY DEF Trade!IsFiniteSet, IsFiniteSet
<1>3. Trade!NoOrder \notin TradeOrders
  BY <1>1 DEF Trade!OrdersAssumption, Trade!NoOrder
<1> QED BY <1>1, <1>2, <1>3 DEF Trade!OrdersAssumption, Trade!Holder

LEMMA TradeSameSum == \A f, S : Trade!SumFunctionOnSet(f, S) = SumFunctionOnSet(f, S)
BY DEF Trade!SumFunctionOnSet, Trade!FoldFunctionOnSet, Trade!MapThenFoldSet,
       SumFunctionOnSet, FoldFunctionOnSet, MapThenFoldSet

LEMMA FillsImplied == OrderInv => Trade!FillsAgree
BY DEF OrderInv, FillsMatch, Trade!FillsAgree, MoveSteps

LEMMA SharesImplied == OrderInv => Trade!SharesExact
<1>1. \A h \in TradeHolders : \A side :
        Trade!SumFunctionOnSet([o \in TradeOrders |->
          IF TradeOrder[o].side = side /\ Trade!Holder(o) = h
          THEN moved[o] * TradeOrder[o].size ELSE 0], TradeOrders) = MovedOf(side, h)
  BY TradeSameSum DEF MovedOf
<1> QED BY <1>1 DEF OrderInv, ShareBalance, Trade!SharesExact

\* What worker w comes to hold when a step sets it to x.
LEMMA WorkerSet ==
  ASSUME OrderTyped, NEW w \in Workers, NEW x \in WorkStates, WorkMatches(x),
         worker' = [worker EXCEPT ![w] = x]
  PROVE  /\ worker' \in [Workers -> WorkStates] /\ worker'[w] = x
         /\ \A v \in Workers : WorkMatches(worker[v])'
         /\ \A v \in Workers \ {w} : worker'[v] = worker[v]
<1>1. worker \in [Workers -> WorkStates] /\ \A v \in Workers : WorkMatches(worker[v])
  BY DEF OrderTyped
<1>2. worker' \in [Workers -> WorkStates] /\ worker'[w] = x
  BY <1>1
<1>3. \A v \in Workers \ {w} : worker'[v] = worker[v]
  BY <1>1
<1>4. \A v \in Workers : WorkMatches(worker'[v])
  <2> TAKE v \in Workers
  <2>1. CASE v = w
    BY <2>1, <1>2
  <2>2. CASE v # w
    BY <2>2, <1>1, <1>3
  <2> QED BY <2>1, <2>2
<1>5. \A v \in Workers : WorkMatches(worker[v])'
  BY <1>4 DEF WorkMatches
<1> QED BY <1>2, <1>3, <1>5

\* No actor but worker w holds order o.
Lone(w, o) ==
    /\ \A v \in Workers \ {w} : ~ Holds(worker[v], o)
    /\ \A c \in OrderCalls : oCall[c].order # o

LEMMA LoneHolder ==
  ASSUME NEW w \in Workers, NEW o, OneHolder(o), Holds(worker[w], o)
  PROVE  Lone(w, o)
BY DEF OneHolder, Lone

LEMMA HoldersKept ==
  ASSUME OrderTyped, NEW w \in Workers, NEW x \in WorkStates, WorkMatches(x),
         worker' = [worker EXCEPT ![w] = x], oCall' = oCall,
         NEW o \in TradeOrders, OneHolder(o), CopiesMatch(o),
         Lone(w, o) \/ (row'[o] = row[o] /\ (Holds(x, o) => Holds(worker[w], o))),
         CopyIsRow(x, o, row'[o])
  PROVE  OneHolder(o)' /\ CopiesMatch(o)'
<1>1. worker'[w] = x /\ \A v \in Workers \ {w} : worker'[v] = worker[v]
  BY WorkerSet
<1>2. Lone(w, o) \/ (row'[o] = row[o] /\ ~ Holds(x, o))
  BY LoneHolder
<1>3. \A v \in Workers \ {w} : Holds(worker[v], o) => ~ Holds(x, o) /\ row'[o] = row[o]
  BY <1>2 DEF Lone
<1>4. \A c \in OrderCalls : oCall[c].order = o => ~ Holds(x, o) /\ row'[o] = row[o]
  BY <1>2 DEF Lone
<1>5. \A v \in Workers : CopyIsRow(worker'[v], o, row'[o])
  <2> TAKE v \in Workers
  <2>1. CASE v = w
    BY <2>1, <1>1
  <2>2. CASE v # w /\ Holds(worker[v], o)
    BY <2>2, <1>1, <1>3 DEF CopiesMatch
  <2>3. CASE v # w /\ ~ Holds(worker[v], o)
    BY <2>3, <1>1 DEF CopyIsRow, Holds
  <2> QED BY <2>1, <2>2, <2>3
<1>6. \A c \in OrderCalls : CallIsRow(oCall'[c], o, row'[o])
  BY <1>4 DEF CopiesMatch, CallIsRow
<1>7. \A u, v \in Workers : Holds(worker'[u], o) /\ Holds(worker'[v], o) => u = v
  <2> SUFFICES ASSUME NEW u \in Workers, NEW v \in Workers, u # v
               PROVE  ~ (Holds(worker'[u], o) /\ Holds(worker'[v], o))
    OBVIOUS
  <2>1. CASE u = w \/ v = w
    BY <2>1, <1>1, <1>3
  <2>2. CASE u # w /\ v # w
    BY <2>2, <1>1 DEF OneHolder
  <2> QED BY <2>1, <2>2
<1>8. \A u \in Workers, c \in OrderCalls : ~ (Holds(worker'[u], o) /\ oCall'[c].order = o)
  <2> SUFFICES ASSUME NEW u \in Workers, NEW c \in OrderCalls
               PROVE  ~ (Holds(worker'[u], o) /\ oCall[c].order = o)
    OBVIOUS
  <2>1. CASE u = w
    BY <2>1, <1>1, <1>4
  <2>2. CASE u # w
    BY <2>2, <1>1 DEF OneHolder
  <2> QED BY <2>1, <2>2
<1>9. \A c, d \in OrderCalls : oCall'[c].order = o /\ oCall'[d].order = o => c = d
  BY DEF OneHolder
<1>10. OneHolder(o)'
  BY <1>7, <1>8, <1>9 DEF OneHolder, Holds
<1> QED BY <1>5, <1>6, <1>10 DEF CopiesMatch, CopyIsRow, CallIsRow, Holds

\* The units that the workers f carry of order o, and those that one of them does.
PendingIn(f, o, S) ==
    LET ws == {w \in Workers : f[w].order = o /\ f[w].at \in S} IN
    IF ws = {} THEN 0 ELSE f[CHOOSE w \in ws : TRUE].fill
Carried(x, o, S) == IF x.order = o /\ x.at \in S THEN x.fill ELSE 0

LEMMA PendingOfOne ==
  ASSUME NEW f, NEW w \in Workers, NEW o, NEW S, \A v \in Workers \ {w} : f[v].order # o
  PROVE  PendingIn(f, o, S) = Carried(f[w], o, S)
<1> DEFINE ws == {v \in Workers : f[v].order = o /\ f[v].at \in S}
<1>1. CASE f[w].order = o /\ f[w].at \in S
  <2>1. ws = {w}
    BY <1>1
  <2>2. (CHOOSE v \in ws : TRUE) = w /\ ws # {}
    BY <2>1
  <2> QED BY <2>2, <1>1 DEF PendingIn, Carried
<1>2. CASE ~ (f[w].order = o /\ f[w].at \in S)
  <2>1. ws = {}
    BY <1>2
  <2> QED BY <2>1, <1>2 DEF PendingIn, Carried
<1> QED BY <1>1, <1>2

\* A step of worker w, which alone may hold o, changes what is pending by what it carries.
LEMMA PendingStep ==
  ASSUME OrderTyped, NEW w \in Workers, NEW x \in WorkStates, WorkMatches(x),
         worker' = [worker EXCEPT ![w] = x],
         NEW o \in TradeOrders, OneHolder(o), Lone(w, o) \/ (Holds(x, o) => Holds(worker[w], o)), NEW S
  PROVE  \/ /\ Trade!Pending(o, S) = Carried(worker[w], o, S)
            /\ Trade!Pending(o, S)' = Carried(x, o, S)
         \/ /\ ~ Holds(worker[w], o) /\ ~ Holds(x, o)
            /\ Trade!Pending(o, S)' = Trade!Pending(o, S)
<1>1. worker'[w] = x /\ \A v \in Workers \ {w} : worker'[v] = worker[v]
  BY WorkerSet
<1>2. /\ Trade!Pending(o, S) = PendingIn(worker, o, S)
      /\ Trade!Pending(o, S)' = PendingIn(worker', o, S)
  BY DEF Trade!Pending, PendingIn
<1>3. CASE Holds(worker[w], o) \/ Holds(x, o)
  <2>1. \A v \in Workers \ {w} : worker[v].order # o
    <3>1. Lone(w, o)
      BY <1>3, LoneHolder
    <3> QED BY <3>1 DEF Lone, Holds
  <2>2. \A v \in Workers \ {w} : worker'[v].order # o
    BY <2>1, <1>1
  <2>3. PendingIn(worker, o, S) = Carried(worker[w], o, S)
    BY <2>1, PendingOfOne
  <2>4. PendingIn(worker', o, S) = Carried(worker'[w], o, S)
    BY ONLY <2>2, PendingOfOne, w \in Workers
  <2> QED BY <1>1, <1>2, <2>3, <2>4
<1>4. CASE ~ Holds(worker[w], o) /\ ~ Holds(x, o)
  <2> DEFINE ws == {v \in Workers : worker[v].order = o /\ worker[v].at \in S}
             xs == {v \in Workers : worker'[v].order = o /\ worker'[v].at \in S}
  <2>1. w \notin ws /\ w \notin xs
    BY <1>1, <1>4 DEF Holds
  <2>2. ws = xs /\ \A v \in ws : worker'[v] = worker[v]
    BY <2>1, <1>1
  <2>3. PendingIn(worker', o, S) = PendingIn(worker, o, S)
    <3> HIDE DEF xs
    <3>1. CASE ws = {}
      BY <3>1, <2>2 DEF PendingIn, xs
    <3>2. CASE ws # {}
      <4>1. (CHOOSE v \in ws : TRUE) \in ws
        BY <3>2
      <4>2. PendingIn(worker, o, S) = worker[CHOOSE v \in ws : TRUE].fill
        BY <3>2 DEF PendingIn
      <4>3. PendingIn(worker', o, S) = worker'[CHOOSE v \in xs : TRUE].fill
        BY <3>2, <2>2 DEF PendingIn, xs
      <4> QED BY <4>1, <4>2, <4>3, <2>2
    <3> QED BY <3>1, <3>2
  <2> QED BY <2>3, <1>2, <1>4
<1> QED BY <1>3, <1>4

\* A step of worker w is about order p alone: the rest of its batch stays as it is.
About(w, x, p) ==
    \A o \in TradeOrders \ {p} :
        /\ row'[o] = row[o] /\ oPaid'[o] = oPaid[o] /\ recorded'[o] = recorded[o]
        /\ moved'[o] = moved[o] /\ commissions'[o] = commissions[o]
        /\ (o \in short' <=> o \in short) /\ (o \in oDisturbed' <=> o \in oDisturbed)
        /\ worker[w].order # o /\ x.order # o
        /\ o \in DOMAIN x.batch => o \in DOMAIN worker[w].batch /\ x.batch[o] = worker[w].batch[o]

LEMMA OtherOrdersKept ==
  ASSUME OrderInv, NEW w \in Workers, NEW x \in WorkStates, WorkMatches(x),
         worker' = [worker EXCEPT ![w] = x], oCall' = oCall, oOverlapped' = oOverlapped,
         NEW p, About(w, x, p), NEW o \in TradeOrders \ (oOverlapped \cup {p})
  PROVE  /\ OneHolder(o)' /\ CopiesMatch(o)'
         /\ o \notin oDisturbed' => FillsMatch(o)'
<1>1. OrderTyped /\ OneHolder(o) /\ CopiesMatch(o) /\ o \in TradeOrders
  BY DEF OrderInv
<1>2. /\ row'[o] = row[o] /\ oPaid'[o] = oPaid[o] /\ recorded'[o] = recorded[o]
      /\ moved'[o] = moved[o] /\ commissions'[o] = commissions[o]
      /\ (o \in short' <=> o \in short) /\ (o \in oDisturbed' <=> o \in oDisturbed)
      /\ worker[w].order # o /\ x.order # o
      /\ o \in DOMAIN x.batch => o \in DOMAIN worker[w].batch /\ x.batch[o] = worker[w].batch[o]
  BY DEF About
<1>3. Holds(x, o) => Holds(worker[w], o)
  BY <1>2 DEF Holds
<1>4. CopyIsRow(worker[w], o, row[o])
  BY <1>1 DEF CopiesMatch
<1>5. CopyIsRow(x, o, row'[o])
  BY <1>2, <1>3, <1>4 DEF CopyIsRow
<1>6. OneHolder(o)' /\ CopiesMatch(o)'
  BY <1>1, <1>2, <1>3, <1>5, HoldersKept
<1>7. \A S : Trade!Pending(o, S)' = Trade!Pending(o, S)
  <2> TAKE S
  <2>1. Carried(worker[w], o, S) = 0 /\ Carried(x, o, S) = 0
    BY <1>2 DEF Carried
  <2>2. Lone(w, o) \/ (Holds(x, o) => Holds(worker[w], o))
    BY <1>3
  <2>3. \/ /\ Trade!Pending(o, S) = Carried(worker[w], o, S)
           /\ Trade!Pending(o, S)' = Carried(x, o, S)
        \/ /\ ~ Holds(worker[w], o) /\ ~ Holds(x, o)
           /\ Trade!Pending(o, S)' = Trade!Pending(o, S)
    BY <1>1, <2>2, PendingStep
  <2> QED BY <2>1, <2>3
<1>8. ASSUME o \notin oDisturbed' PROVE FillsMatch(o)'
  <2>1. FillsMatch(o)
    BY <1>2, <1>8 DEF OrderInv
  <2>2. /\ Trade!Pending(o, {"record"})' = Trade!Pending(o, {"record"})
        /\ Trade!Pending(o, {"record", "tax", "save"})' = Trade!Pending(o, {"record", "tax", "save"})
        /\ Trade!Pending(o, MoveSteps)' = Trade!Pending(o, MoveSteps)
    BY <1>7
  <2> QED BY <2>1, <2>2, <1>2 DEF FillsMatch
<1> QED BY <1>6, <1>8

\* A step of worker w that touches no ownership, and does not read one to write it.
SharesRest == owned' = owned /\ moved' = moved /\ transferred' = transferred
              /\ pledged' = pledged /\ oClash' = oClash

LEMMA BalanceKept ==
  ASSUME owned' = owned, moved' = moved, transferred' = transferred, pledged' = pledged,
         NEW h \in TradeHolders, ShareBalance(h)
  PROVE  ShareBalance(h)'
BY DEF ShareBalance, MovedOf

LEMMA SharesKept ==
  ASSUME OrderInv, NEW w \in Workers, NEW x \in WorkStates, WorkMatches(x), x.at # "upsert",
         worker' = [worker EXCEPT ![w] = x], SharesRest, NEW h \in TradeHolders \ oClash'
  PROVE  ShareMatches(h)' /\ ShareBalance(h)'
<1>1. worker'[w] = x /\ \A v \in Workers \ {w} : worker'[v] = worker[v]
  BY WorkerSet DEF OrderInv
<1>2. h \in TradeHolders \ oClash /\ ShareMatches(h) /\ ShareBalance(h)
  BY DEF OrderInv, SharesRest
<1>3. \A v \in Workers : Writes(worker'[v], h) => v # w /\ Writes(worker[v], h)
  BY <1>1 DEF Writes
<1>4. \A v \in Workers : Writes(worker'[v], h) =>
         worker'[v].share = owned'[h].amount /\ worker'[v].reserved = owned'[h].reserved
  BY <1>1, <1>2, <1>3 DEF ShareMatches, SharesRest
<1>5. \A u, v \in Workers : Writes(worker'[u], h) /\ Writes(worker'[v], h) => u = v
  BY <1>2, <1>3 DEF ShareMatches
<1>6. ShareMatches(h)'
  BY <1>4, <1>5 DEF ShareMatches, Writes, Trade!Holder
<1>7. ShareBalance(h)'
  BY <1>2, BalanceKept DEF SharesRest
<1> QED BY <1>6, <1>7

LEMMA PendingHeld ==
  ASSUME OrderInv, NEW w \in Workers, NEW x \in WorkStates, WorkMatches(x),
         worker' = [worker EXCEPT ![w] = x],
         NEW p \in TradeOrders \ oOverlapped, Lone(w, p) \/ Holds(worker[w], p)
  PROVE  /\ \A S : Trade!Pending(p, S) = Carried(worker[w], p, S)
         /\ \A S : Trade!Pending(p, S)' = Carried(x, p, S)
<1>1. OrderTyped /\ OneHolder(p) /\ p \in TradeOrders
  BY DEF OrderInv
<1>2. Lone(w, p)
  BY <1>1, LoneHolder
<1>3. \A S : \/ /\ Trade!Pending(p, S) = Carried(worker[w], p, S)
                /\ Trade!Pending(p, S)' = Carried(x, p, S)
             \/ /\ ~ Holds(worker[w], p) /\ ~ Holds(x, p)
                /\ Trade!Pending(p, S)' = Trade!Pending(p, S)
  BY <1>1, <1>2, PendingStep
<1>4. \A S : Trade!Pending(p, S) = Carried(worker[w], p, S)
  <2> TAKE S
  <2>1. \A v \in Workers \ {w} : worker[v].order # p
    BY <1>2 DEF Lone, Holds
  <2>2. PendingIn(worker, p, S) = Carried(worker[w], p, S)
    BY <2>1, PendingOfOne
  <2> QED BY <2>2 DEF Trade!Pending, PendingIn
<1>5. ~ Holds(worker[w], p) => \A S : Carried(worker[w], p, S) = 0
  BY DEF Holds, Carried
<1>6. ~ Holds(x, p) => \A S : Carried(x, p, S) = 0
  BY DEF Holds, Carried
<1> QED BY <1>3, <1>4, <1>5, <1>6

\* The record of a worker, field by field.
Work(a, o, c, f, n, m, b) ==
    [at |-> a, order |-> o, copy |-> c, fill |-> f, share |-> n, reserved |-> m, batch |-> b]

LEMMA WorkSetBatch ==
  ASSUME NEW a, NEW o, NEW c, NEW f, NEW n, NEW m, NEW b, NEW d
  PROVE  [Work(a, o, c, f, n, m, b) EXCEPT !.batch = d] = Work(a, o, c, f, n, m, d)
BY DEF Work

LEMMA WorkSetAt ==
  ASSUME NEW a, NEW o, NEW c, NEW f, NEW n, NEW m, NEW b, NEW d
  PROVE  [Work(a, o, c, f, n, m, b) EXCEPT !.at = d] = Work(d, o, c, f, n, m, b)
BY DEF Work

\* The states a worker goes to: with a copy taken from its batch, further on, or idle.
Left(b, o) == [p \in DOMAIN b \ {o} |-> b[p]]
Taken(w, o, a, f) ==
    Work(a, o, worker[w].batch[o], f, 0, 0, Left(worker[w].batch, o))
Dropped(w) ==
    Work("idle", Trade!NoOrder, Trade!NoRow, 0, 0, 0, worker[w].batch)
Skipped(w, o) ==
    Work(worker[w].at, worker[w].order, worker[w].copy, worker[w].fill, worker[w].share,
         worker[w].reserved, Left(worker[w].batch, o))
Further(w, a, n, m) ==
    Work(a, worker[w].order, worker[w].copy, worker[w].fill, n, m, worker[w].batch)

LEMMA LeftTyped ==
  ASSUME NEW b \in Batches, NEW o
  PROVE  /\ Left(b, o) \in Batches /\ DOMAIN Left(b, o) = DOMAIN b \ {o}
         /\ \A p \in DOMAIN b \ {o} : Left(b, o)[p] = b[p]
<1>1. PICK S \in SUBSET TradeOrders : b \in [S -> Trade!Rows]
  BY DEF Batches
<1>2. Left(b, o) \in [S \ {o} -> Trade!Rows] /\ S \ {o} \in SUBSET TradeOrders
  BY <1>1 DEF Left
<1>3. Left(b, o) \in Batches
  BY <1>2 DEF Batches
<1> QED BY <1>3 DEF Left

LEMMA BatchTyped ==
  ASSUME NEW b \in Batches
  PROVE  DOMAIN b \subseteq TradeOrders /\ \A o \in DOMAIN b : b[o] \in Trade!Rows
BY DEF Batches

LEMMA WorkFields ==
  ASSUME OrderTyped, NEW w \in Workers
  PROVE  /\ worker[w] \in WorkStates /\ WorkMatches(worker[w])
         /\ worker[w] = Work(worker[w].at, worker[w].order, worker[w].copy, worker[w].fill,
                              worker[w].share, worker[w].reserved, worker[w].batch)
         /\ worker[w].at \in WorkSteps /\ worker[w].batch \in Batches
         /\ worker[w].fill \in Nat /\ worker[w].share \in Nat /\ worker[w].reserved \in Nat
         /\ worker[w].copy \in Trade!Rows
         /\ worker[w].at # "idle" => worker[w].order \in TradeOrders
<1>1. worker[w] \in WorkStates /\ WorkMatches(worker[w])
  BY DEF OrderTyped
<1>2. /\ worker[w].at \in WorkSteps /\ worker[w].batch \in Batches
      /\ worker[w].fill \in Nat /\ worker[w].share \in Nat /\ worker[w].reserved \in Nat
      /\ worker[w].copy \in Trade!Rows
      /\ worker[w].order \in TradeOrders \cup {Trade!NoOrder}
  BY <1>1 DEF WorkStates
<1>3. worker[w].at # "idle" => worker[w].order \in TradeOrders
  BY <1>1, <1>2 DEF WorkMatches
<1>4. worker[w] = Work(worker[w].at, worker[w].order, worker[w].copy, worker[w].fill,
                       worker[w].share, worker[w].reserved, worker[w].batch)
  BY <1>1 DEF WorkStates, Work
<1> QED BY <1>1, <1>2, <1>3, <1>4

LEMMA RowTyped ==
  ASSUME NEW r \in Trade!Rows
  PROVE  /\ r.status \in {"NONE", "PENDING", "APPROVED", "DECLINED"} /\ r.done \in BOOLEAN
         /\ r.filled \in Nat /\ r.charged \in BOOLEAN
         /\ r = [status |-> r.status, done |-> r.done, filled |-> r.filled, charged |-> r.charged]
BY DEF Trade!Rows

LEMMA NoRowTyped == Trade!NoRow \in Trade!Rows
BY DEF Trade!NoRow, Trade!Rows

LEMMA TakenTyped ==
  ASSUME OrderTyped, NEW w \in Workers, NEW o \in DOMAIN worker[w].batch,
         NEW a \in {"postpone", "fail", "record"}, NEW f \in Nat, a = "record" => f > 0
  PROVE  /\ o \in TradeOrders /\ worker[w].batch[o] \in Trade!Rows
         /\ Taken(w, o, a, f) \in WorkStates /\ WorkMatches(Taken(w, o, a, f))
         /\ Trade!Takes(w, o, a, f) = [worker EXCEPT ![w] = Taken(w, o, a, f)]
<1>1. worker[w].batch \in Batches
  BY WorkFields
<1>2. o \in TradeOrders /\ worker[w].batch[o] \in Trade!Rows
  BY <1>1, BatchTyped
<1>3. /\ Left(worker[w].batch, o) \in Batches
      /\ DOMAIN Left(worker[w].batch, o) = DOMAIN worker[w].batch \ {o}
  BY <1>1, LeftTyped
<1>4. Taken(w, o, a, f) \in WorkStates
  BY <1>2, <1>3 DEF Taken, Work, WorkStates, WorkSteps, CopySteps
<1>5. WorkMatches(Taken(w, o, a, f))
  BY <1>2, <1>3, OrderConstants DEF Taken, Work, WorkMatches, FillSteps
<1>6. Trade!Restrict(worker[w].batch, DOMAIN worker[w].batch \ {o}) = Left(worker[w].batch, o)
  BY DEF Trade!Restrict, Left
<1>7. Trade!IdleWork = Work("idle", Trade!NoOrder, Trade!NoRow, 0, 0, 0, <<>>)
  BY DEF Trade!IdleWork, Work
<1>8. [Trade!IdleWork EXCEPT !.at = a, !.order = o, !.copy = worker[w].batch[o], !.fill = f,
                             !.batch = Left(worker[w].batch, o)] = Taken(w, o, a, f)
  <2> DEFINE b == worker[w].batch
             e == Left(b, o)
             n == Trade!NoOrder
             c == Trade!NoRow
             t == Trade!IdleWork
  <2> HIDE DEF b, e, n, c
  <2>1. t = Work("idle", n, c, 0, 0, 0, <<>>)
    BY <1>7 DEF n, c
  <2> HIDE DEF t
  <2>2. [t EXCEPT !.at = a] = Work(a, n, c, 0, 0, 0, <<>>)
    BY <2>1 DEF Work
  <2>3. [t EXCEPT !.at = a, !.order = o] = Work(a, o, c, 0, 0, 0, <<>>)
    <3>1. [t EXCEPT !.at = a, !.order = o] = [[t EXCEPT !.at = a] EXCEPT !.order = o]
      OBVIOUS
    <3>2. [Work(a, n, c, 0, 0, 0, <<>>) EXCEPT !.order = o] = Work(a, o, c, 0, 0, 0, <<>>)
      BY DEF Work
    <3> QED BY <2>2, <3>1, <3>2
  <2>4. [t EXCEPT !.at = a, !.order = o, !.copy = b[o]] = Work(a, o, b[o], 0, 0, 0, <<>>)
    <3>1. [t EXCEPT !.at = a, !.order = o, !.copy = b[o]]
            = [[t EXCEPT !.at = a, !.order = o] EXCEPT !.copy = b[o]]
      OBVIOUS
    <3>2. [Work(a, o, c, 0, 0, 0, <<>>) EXCEPT !.copy = b[o]] = Work(a, o, b[o], 0, 0, 0, <<>>)
      BY DEF Work
    <3> QED BY <2>3, <3>1, <3>2
  <2>5. [t EXCEPT !.at = a, !.order = o, !.copy = b[o], !.fill = f]
          = Work(a, o, b[o], f, 0, 0, <<>>)
    <3>1. [t EXCEPT !.at = a, !.order = o, !.copy = b[o], !.fill = f]
            = [[t EXCEPT !.at = a, !.order = o, !.copy = b[o]] EXCEPT !.fill = f]
      OBVIOUS
    <3>2. [Work(a, o, b[o], 0, 0, 0, <<>>) EXCEPT !.fill = f] = Work(a, o, b[o], f, 0, 0, <<>>)
      BY DEF Work
    <3> QED BY <2>4, <3>1, <3>2
  <2>6. [t EXCEPT !.at = a, !.order = o, !.copy = b[o], !.fill = f, !.batch = e]
          = Work(a, o, b[o], f, 0, 0, e)
    <3>1. [t EXCEPT !.at = a, !.order = o, !.copy = b[o], !.fill = f, !.batch = e]
            = [[t EXCEPT !.at = a, !.order = o, !.copy = b[o], !.fill = f] EXCEPT !.batch = e]
      OBVIOUS
    <3>2. [Work(a, o, b[o], f, 0, 0, <<>>) EXCEPT !.batch = e] = Work(a, o, b[o], f, 0, 0, e)
      BY DEF Work
    <3> QED BY <2>5, <3>1, <3>2
  <2> QED BY <2>6 DEF Taken, b, e, t
<1>9. Trade!Takes(w, o, a, f) = [worker EXCEPT ![w] = Taken(w, o, a, f)]
  BY <1>6, <1>8 DEF Trade!Takes
<1> QED BY <1>2, <1>4, <1>5, <1>9

LEMMA DroppedTyped ==
  ASSUME OrderTyped, NEW w \in Workers
  PROVE  /\ Dropped(w) \in WorkStates /\ WorkMatches(Dropped(w))
         /\ Trade!Drops(w) = [worker EXCEPT ![w] = Dropped(w)]
<1>1. worker[w].batch \in Batches
  BY WorkFields
<1>2. DOMAIN worker[w].batch \subseteq TradeOrders
  BY <1>1, BatchTyped
<1>3. Dropped(w) \in WorkStates
  BY <1>1, NoRowTyped DEF Dropped, Work, WorkStates, WorkSteps
<1>4. WorkMatches(Dropped(w))
  BY <1>2, OrderConstants DEF Dropped, Work, WorkMatches, FillSteps
<1>5. Trade!IdleWork = Work("idle", Trade!NoOrder, Trade!NoRow, 0, 0, 0, <<>>)
  BY DEF Trade!IdleWork, Work
<1>6. [Trade!IdleWork EXCEPT !.batch = worker[w].batch] = Dropped(w)
  BY <1>5, WorkSetBatch DEF Dropped
<1>7. Trade!Drops(w) = [worker EXCEPT ![w] = Dropped(w)]
  BY <1>6 DEF Trade!Drops
<1> QED BY <1>3, <1>4, <1>7

LEMMA SkippedTyped ==
  ASSUME OrderTyped, NEW w \in Workers, NEW o
  PROVE  /\ Skipped(w, o) \in WorkStates /\ WorkMatches(Skipped(w, o))
         /\ [worker EXCEPT ![w].batch = Trade!Restrict(@, DOMAIN @ \ {o})]
              = [worker EXCEPT ![w] = Skipped(w, o)]
<1>1. Left(worker[w].batch, o) \in Batches
      /\ DOMAIN Left(worker[w].batch, o) = DOMAIN worker[w].batch \ {o}
  BY WorkFields, LeftTyped
<1>2. Skipped(w, o) \in WorkStates
  BY <1>1 DEF Skipped, Work, WorkStates, OrderTyped
<1>3. WorkMatches(Skipped(w, o))
  BY <1>1, WorkFields DEF Skipped, Work, WorkMatches
<1>4. Trade!Restrict(worker[w].batch, DOMAIN worker[w].batch \ {o}) = Left(worker[w].batch, o)
  BY DEF Trade!Restrict, Left
<1>5. [worker[w] EXCEPT !.batch = Left(worker[w].batch, o)] = Skipped(w, o)
  BY WorkFields, WorkSetBatch DEF Skipped
<1>6. [worker EXCEPT ![w].batch = Trade!Restrict(@, DOMAIN @ \ {o})]
        = [worker EXCEPT ![w] = [worker[w] EXCEPT !.batch = Left(worker[w].batch, o)]]
  BY <1>4 DEF OrderTyped
<1> QED BY <1>2, <1>3, <1>5, <1>6

LEMMA FurtherTyped ==
  ASSUME OrderTyped, NEW w \in Workers, worker[w].at \in FillSteps,
         NEW a \in FillSteps, NEW n \in Nat, NEW m \in Nat
  PROVE  /\ Further(w, a, n, m) \in WorkStates /\ WorkMatches(Further(w, a, n, m))
         /\ worker[w].order \in TradeOrders /\ worker[w].fill \in Nat \ {0}
         /\ Trade!Goes(w, a) = [worker EXCEPT ![w] = Further(w, a, worker[w].share, worker[w].reserved)]
<1>1. /\ worker[w].at # "idle" /\ a # "idle" /\ a \in WorkSteps
  BY DEF FillSteps, WorkSteps, CopySteps, MoveSteps
<1>2. worker[w].order \in TradeOrders /\ worker[w].fill \in Nat /\ WorkMatches(worker[w])
  BY <1>1, WorkFields
<1>3. worker[w].fill \in Nat \ {0}
  BY <1>2 DEF WorkMatches
<1>4. Further(w, a, n, m) \in WorkStates
  BY <1>1, <1>2, WorkFields DEF Further, Work, WorkStates
<1>5. WorkMatches(Further(w, a, n, m))
  BY <1>1, <1>2, <1>3 DEF Further, Work, WorkMatches
<1>6. [worker[w] EXCEPT !.at = a] = Further(w, a, worker[w].share, worker[w].reserved)
  BY WorkFields, WorkSetAt DEF Further
<1>7. Trade!Goes(w, a) = [worker EXCEPT ![w] = [worker[w] EXCEPT !.at = a]]
  BY DEF Trade!Goes, OrderTyped
<1> QED BY <1>2, <1>3, <1>4, <1>5, <1>6, <1>7

\* A step of worker w about order p, which no other actor holds, or about a copy of w.
LEMMA ActsOn ==
  ASSUME OrderInv, OrderTyped', NEW w \in Workers, NEW x \in WorkStates, WorkMatches(x),
         worker' = [worker EXCEPT ![w] = x], oCall' = oCall, oOverlapped' = oOverlapped,
         NEW p \in TradeOrders, About(w, x, p),
         p \notin oOverlapped => Lone(w, p) \/ Holds(worker[w], p),
         p \notin oOverlapped => CopyIsRow(x, p, row'[p]),
         p \notin oDisturbed' \cup oOverlapped => FillsMatch(p)',
         \A h \in TradeHolders \ oClash' : ShareMatches(h)' /\ ShareBalance(h)'
  PROVE  OrderInv'
<1>1. ASSUME NEW o \in TradeOrders \ oOverlapped
      PROVE  /\ OneHolder(o)' /\ CopiesMatch(o)'
             /\ o \notin oDisturbed' => FillsMatch(o)'
  <2>1. CASE o = p
    <3>1. OrderTyped /\ OneHolder(o) /\ CopiesMatch(o)
      BY DEF OrderInv
    <3>2. Lone(w, o)
      BY <2>1, <3>1, LoneHolder
    <3>3. CopyIsRow(x, o, row'[o])
      BY <2>1
    <3>4. OneHolder(o)' /\ CopiesMatch(o)'
      BY <3>1, <3>2, <3>3, HoldersKept
    <3> QED BY <2>1, <3>4
  <2>2. CASE o # p
    BY <2>2, OtherOrdersKept
  <2> QED BY <2>1, <2>2
<1>2. \A o \in TradeOrders \ oOverlapped' : OneHolder(o)' /\ CopiesMatch(o)'
  BY <1>1
<1>3. \A o \in TradeOrders \ (oDisturbed' \cup oOverlapped') : FillsMatch(o)'
  BY <1>1
<1> QED BY <1>2, <1>3 DEF OrderInv

\* What a batch or a worker holds of an order is the row of the order, if no other does.
LEMMA HeldRow ==
  ASSUME OrderInv, NEW w \in Workers, NEW p \in TradeOrders \ oOverlapped
  PROVE  /\ OrderTyped /\ OneHolder(p) /\ CopyIsRow(worker[w], p, row[p])
         /\ row[p] \in Trade!Rows
         /\ p \notin oDisturbed => FillsMatch(p)
BY DEF OrderInv, CopiesMatch, OrderTyped

LEMMA AtSteps ==
  /\ \A a \in {"postpone", "fail"} : a \notin FillSteps /\ a \in CopySteps /\ a \notin MoveSteps
  /\ \A a \in {"record", "tax", "save"} : a \in FillSteps /\ a \in CopySteps /\ a \notin MoveSteps
  /\ \A a \in {"ownership", "upsert"} : a \in FillSteps /\ a \notin CopySteps /\ a \in MoveSteps
  /\ "idle" \notin FillSteps /\ "idle" \notin CopySteps /\ "idle" \notin MoveSteps
BY DEF FillSteps, CopySteps, MoveSteps

\* The same, with the fields that a step uses.
LEMMA TakesTo ==
  ASSUME OrderTyped, NEW w \in Workers, NEW o \in DOMAIN worker[w].batch,
         NEW a \in {"postpone", "fail", "record"}, NEW f \in Nat, a = "record" => f > 0,
         worker' = Trade!Takes(w, o, a, f)
  PROVE  \E x \in WorkStates :
           /\ WorkMatches(x) /\ worker' = [worker EXCEPT ![w] = x]
           /\ x.at = a /\ x.order = o /\ x.copy = worker[w].batch[o] /\ x.fill = f
           /\ DOMAIN x.batch = DOMAIN worker[w].batch \ {o}
           /\ \A p \in DOMAIN x.batch : x.batch[p] = worker[w].batch[p]
<1> DEFINE s == Taken(w, o, a, f)
<1>1. s \in WorkStates /\ WorkMatches(s) /\ worker' = [worker EXCEPT ![w] = s]
  BY TakenTyped
<1>2. /\ s.at = a /\ s.order = o /\ s.copy = worker[w].batch[o] /\ s.fill = f
      /\ s.batch = Left(worker[w].batch, o)
  BY DEF Taken, Work
<1>3. worker[w].batch \in Batches
  BY WorkFields
<1>4. DOMAIN Left(worker[w].batch, o) = DOMAIN worker[w].batch \ {o}
      /\ \A p \in DOMAIN worker[w].batch \ {o} : Left(worker[w].batch, o)[p] = worker[w].batch[p]
  BY <1>3, LeftTyped
<1>5. DOMAIN s.batch = DOMAIN worker[w].batch \ {o}
      /\ \A p \in DOMAIN s.batch : s.batch[p] = worker[w].batch[p]
  BY <1>2, <1>4
<1> HIDE DEF s
<1> QED BY <1>1, <1>2, <1>5

LEMMA DropsTo ==
  ASSUME OrderTyped, NEW w \in Workers, worker' = Trade!Drops(w)
  PROVE  \E x \in WorkStates :
           /\ WorkMatches(x) /\ worker' = [worker EXCEPT ![w] = x]
           /\ x.at = "idle" /\ x.order = Trade!NoOrder /\ x.batch = worker[w].batch
<1> DEFINE s == Dropped(w)
<1>1. s \in WorkStates /\ WorkMatches(s) /\ worker' = [worker EXCEPT ![w] = s]
  BY DroppedTyped
<1>2. s.at = "idle" /\ s.order = Trade!NoOrder /\ s.batch = worker[w].batch
  BY DEF Dropped, Work
<1> HIDE DEF s
<1> QED BY <1>1, <1>2

LEMMA GoesTo ==
  ASSUME OrderTyped, NEW w \in Workers, worker[w].at \in FillSteps, NEW a \in FillSteps,
         worker' = Trade!Goes(w, a)
  PROVE  \E x \in WorkStates :
           /\ WorkMatches(x) /\ worker' = [worker EXCEPT ![w] = x]
           /\ x.at = a /\ x.order = worker[w].order /\ x.copy = worker[w].copy
           /\ x.fill = worker[w].fill /\ x.batch = worker[w].batch
<1> DEFINE s == Further(w, a, worker[w].share, worker[w].reserved)
<1>1. worker[w].share \in Nat /\ worker[w].reserved \in Nat
  BY WorkFields
<1>2. s \in WorkStates /\ WorkMatches(s) /\ worker' = [worker EXCEPT ![w] = s]
  BY <1>1, FurtherTyped
<1>3. /\ s.at = a /\ s.order = worker[w].order /\ s.copy = worker[w].copy
      /\ s.fill = worker[w].fill /\ s.batch = worker[w].batch
  BY DEF Further, Work
<1> HIDE DEF s
<1> QED BY <1>2, <1>3

\* An order in execution is the worker's own, and not in the rest of its batch.
LEMMA WorkedOn ==
  ASSUME OrderInv, NEW w \in Workers, worker[w].at # "idle"
  PROVE  /\ worker[w].order \in TradeOrders /\ worker[w].order \notin DOMAIN worker[w].batch
         /\ Holds(worker[w], worker[w].order) /\ worker[w].copy \in Trade!Rows
         /\ worker[w].fill \in Nat /\ (worker[w].at \in FillSteps => worker[w].fill > 0)
         /\ worker[w].batch \in Batches
<1>1. OrderTyped
  BY DEF OrderInv
<1> QED BY <1>1, WorkFields DEF WorkMatches, Holds

\* What the settlement of a fill does to the counts.
LEMMA TakeWithoutFillStep ==
  ASSUME OrderInv, NEW w \in Workers, NEW o \in TradeOrders, Trade!TakeWithoutFill(w, o)
  PROVE  OrderInv'
<1>0. OrderTyped /\ worker[w].at = "idle" /\ o \in DOMAIN worker[w].batch
  BY DEF OrderInv, Trade!TakeWithoutFill, Trade!Takable
<1>1. worker[w].batch \in Batches /\ worker[w].order = Trade!NoOrder /\ WorkMatches(worker[w])
  BY <1>0, WorkFields DEF WorkMatches
<1>2. /\ row' = row /\ owned' = owned /\ usedLimit' = usedLimit /\ oCall' = oCall
      /\ oPaid' = oPaid /\ recorded' = recorded /\ moved' = moved
      /\ commissions' = commissions /\ transferred' = transferred /\ pledged' = pledged
      /\ approved' = approved /\ oDisturbed' = oDisturbed /\ oOverlapped' = oOverlapped
      /\ oClash' = oClash /\ short' = short
  BY DEF Trade!TakeWithoutFill, Trade!history
<1>3. PICK x \in WorkStates :
        /\ WorkMatches(x) /\ worker' = [worker EXCEPT ![w] = x] /\ x.at # "upsert"
        /\ x.order \in {o, Trade!NoOrder} /\ x.at \notin FillSteps
        /\ x.order = o => x.copy = worker[w].batch[o]
        /\ DOMAIN x.batch = DOMAIN worker[w].batch \ {o}
        /\ \A p \in DOMAIN x.batch : x.batch[p] = worker[w].batch[p]
  <2>1. CASE worker' = [worker EXCEPT ![w].batch = Trade!Restrict(@, DOMAIN @ \ {o})]
    <3>1. /\ Skipped(w, o) \in WorkStates /\ WorkMatches(Skipped(w, o))
          /\ worker' = [worker EXCEPT ![w] = Skipped(w, o)]
      BY <2>1, <1>0, SkippedTyped
    <3>2. /\ Skipped(w, o).at = "idle" /\ Skipped(w, o).order = Trade!NoOrder
          /\ Skipped(w, o).batch = Left(worker[w].batch, o)
      BY <1>0, <1>1 DEF Skipped, Work
    <3>3. /\ DOMAIN Skipped(w, o).batch = DOMAIN worker[w].batch \ {o}
          /\ \A p \in DOMAIN Skipped(w, o).batch : Skipped(w, o).batch[p] = worker[w].batch[p]
      <4>1. DOMAIN Left(worker[w].batch, o) = DOMAIN worker[w].batch \ {o}
            /\ \A p \in DOMAIN worker[w].batch \ {o} :
                 Left(worker[w].batch, o)[p] = worker[w].batch[p]
        BY <1>1, LeftTyped
      <4> QED BY <3>2, <4>1
    <3>4. Trade!NoOrder # o /\ "idle" \notin FillSteps
      BY OrderConstants, AtSteps
    <3> DEFINE s == Skipped(w, o)
    <3>5. s = Skipped(w, o)
      OBVIOUS
    <3> HIDE DEF s
    <3> QED BY <3>1, <3>2, <3>3, <3>4, <3>5
  <2>2. CASE \E a \in {"postpone", "fail"} : worker' = Trade!Takes(w, o, a, 0)
    <3>1. PICK a \in {"postpone", "fail"} : worker' = Trade!Takes(w, o, a, 0)
      BY <2>2
    <3>2. /\ Taken(w, o, a, 0) \in WorkStates /\ WorkMatches(Taken(w, o, a, 0))
          /\ worker' = [worker EXCEPT ![w] = Taken(w, o, a, 0)]
      BY <3>1, <1>0, TakenTyped
    <3>3. /\ Taken(w, o, a, 0).at = a /\ Taken(w, o, a, 0).order = o
          /\ Taken(w, o, a, 0).copy = worker[w].batch[o]
          /\ Taken(w, o, a, 0).batch = Left(worker[w].batch, o)
      BY DEF Taken, Work
    <3>4. /\ DOMAIN Taken(w, o, a, 0).batch = DOMAIN worker[w].batch \ {o}
          /\ \A p \in DOMAIN Taken(w, o, a, 0).batch :
               Taken(w, o, a, 0).batch[p] = worker[w].batch[p]
      <4>1. DOMAIN Left(worker[w].batch, o) = DOMAIN worker[w].batch \ {o}
            /\ \A p \in DOMAIN worker[w].batch \ {o} :
                 Left(worker[w].batch, o)[p] = worker[w].batch[p]
        BY <1>1, LeftTyped
      <4> QED BY <3>3, <4>1
    <3>5. a \notin FillSteps /\ a # "upsert"
      BY AtSteps
    <3> DEFINE s == Taken(w, o, a, 0)
    <3>6. s = Taken(w, o, a, 0)
      OBVIOUS
    <3> HIDE DEF s
    <3> QED BY <3>2, <3>3, <3>4, <3>5, <3>6
  <2> QED BY <2>1, <2>2 DEF Trade!TakeWithoutFill
<1>4. OrderTyped'
  BY <1>0, <1>2, <1>3, WorkerSet DEF OrderTyped
<1>5. About(w, x, o)
  BY <1>1, <1>2, <1>3, OrderConstants DEF About
<1>6. Holds(worker[w], o)
  BY <1>0 DEF Holds
<1>7. ASSUME o \notin oOverlapped PROVE CopyIsRow(x, o, row'[o])
  <2>1. CopyIsRow(worker[w], o, row[o])
    BY <1>7, HeldRow
  <2> QED BY <2>1, <1>0, <1>2, <1>3, <1>6 DEF CopyIsRow, Holds
<1>8. ASSUME o \notin oDisturbed' \cup oOverlapped PROVE FillsMatch(o)'
  <2>1. FillsMatch(o)
    BY <1>8, <1>2, HeldRow
  <2>2. /\ \A S : Trade!Pending(o, S) = Carried(worker[w], o, S)
        /\ \A S : Trade!Pending(o, S)' = Carried(x, o, S)
    <3>1. o \in TradeOrders \ oOverlapped
      BY <1>8
    <3> QED BY <3>1, <1>3, <1>6, PendingHeld
  <2>3. \A S \in SUBSET FillSteps : Carried(worker[w], o, S) = 0 /\ Carried(x, o, S) = 0
    BY <1>0, <1>3, AtSteps DEF Carried
  <2>4. {{"record"}, {"record", "tax", "save"}, MoveSteps} \subseteq SUBSET FillSteps
    BY DEF MoveSteps, FillSteps
  <2>5. \A S \in {{"record"}, {"record", "tax", "save"}, MoveSteps} :
          Trade!Pending(o, S)' = Trade!Pending(o, S)
    BY <2>2, <2>3, <2>4
  <2> QED BY <2>1, <2>5, <1>2 DEF FillsMatch
<1>9. \A h \in TradeHolders \ oClash' : ShareMatches(h)' /\ ShareBalance(h)'
  BY <1>2, <1>3, SharesKept DEF SharesRest
<1> QED BY <1>2, <1>3, <1>4, <1>5, <1>6, <1>7, <1>8, <1>9, ActsOn

LEMMA RecordTransactionStep ==
  ASSUME OrderInv, NEW w \in Workers, Trade!RecordTransaction(w)
  PROVE  OrderInv'
<1>a. PICK o : o = worker[w].order
  OBVIOUS
<1> DEFINE a == IF TradeOrder[o].side = "SELL" THEN "tax" ELSE "save"
<1>0. OrderTyped /\ worker[w].at = "record" /\ worker[w].at \in FillSteps /\ a \in {"tax", "save"}
  BY AtSteps, <1>a DEF OrderInv, Trade!RecordTransaction
<1>1. /\ o \in TradeOrders /\ o \notin DOMAIN worker[w].batch /\ Holds(worker[w], o)
      /\ worker[w].fill \in Nat
  BY <1>0, <1>a, WorkedOn
<1>2. /\ row' = row /\ owned' = owned /\ usedLimit' = usedLimit /\ oCall' = oCall
      /\ oPaid' = oPaid /\ moved' = moved
      /\ commissions' = commissions /\ transferred' = transferred /\ pledged' = pledged
      /\ approved' = approved /\ oDisturbed' = oDisturbed /\ oOverlapped' = oOverlapped
      /\ oClash' = oClash /\ short' = short
      /\ recorded' = [recorded EXCEPT ![o] = @ + worker[w].fill]
      /\ worker' = Trade!Goes(w, a)
  BY <1>a DEF Trade!RecordTransaction
<1> HIDE DEF a
<1>3. PICK x \in WorkStates :
        /\ WorkMatches(x) /\ worker' = [worker EXCEPT ![w] = x]
        /\ x.at = a /\ x.order = o /\ x.copy = worker[w].copy
        /\ x.fill = worker[w].fill /\ x.batch = worker[w].batch
  <2>1. a \in FillSteps
    BY <1>0, AtSteps
  <2> QED BY <2>1, <1>a, <1>0, <1>2, GoesTo
<1>4. recorded' \in [TradeOrders -> Nat] /\ recorded'[o] = recorded[o] + worker[w].fill
      /\ \A p \in TradeOrders \ {o} : recorded'[p] = recorded[p]
  BY <1>0, <1>1, <1>2 DEF OrderTyped
<1>5. OrderTyped'
  BY <1>0, <1>2, <1>3, <1>4, WorkerSet DEF OrderTyped
<1>6. About(w, x, o)
  BY <1>a, <1>2, <1>3, <1>4 DEF About
<1>7. ASSUME o \notin oOverlapped PROVE CopyIsRow(x, o, row'[o])
  <2>1. CopyIsRow(worker[w], o, row[o])
    BY <1>1, <1>7, HeldRow
  <2>2. worker[w].at \in CopySteps
    BY <1>0, AtSteps
  <2> QED BY <2>1, <2>2, <1>a, <1>1, <1>2, <1>3 DEF CopyIsRow, Holds
<1>8. ASSUME o \notin oDisturbed' \cup oOverlapped PROVE FillsMatch(o)'
  <2>1. FillsMatch(o)
    BY <1>1, <1>8, <1>2, HeldRow
  <2>2. /\ \A S : Trade!Pending(o, S) = Carried(worker[w], o, S)
        /\ \A S : Trade!Pending(o, S)' = Carried(x, o, S)
    <3>1. o \in TradeOrders \ oOverlapped
      BY <1>1, <1>8
    <3> QED BY <3>1, <1>1, <1>3, PendingHeld
  <2>3. /\ Trade!Pending(o, {"record"}) = worker[w].fill
        /\ Trade!Pending(o, {"record"})' = 0
        /\ Trade!Pending(o, {"record", "tax", "save"}) = worker[w].fill
        /\ Trade!Pending(o, {"record", "tax", "save"})' = worker[w].fill
        /\ Trade!Pending(o, MoveSteps) = 0 /\ Trade!Pending(o, MoveSteps)' = 0
    BY <2>2, <1>a, <1>0, <1>3 DEF Carried, MoveSteps
  <2>4. oPaid[o] \in Nat /\ recorded[o] \in Nat
    BY <1>0, <1>1 DEF OrderTyped
  <2> QED BY <2>1, <2>3, <2>4, <1>1, <1>2, <1>4 DEF FillsMatch
<1>9. \A h \in TradeHolders \ oClash' : ShareMatches(h)' /\ ShareBalance(h)'
  BY <1>0, <1>2, <1>3, SharesKept DEF SharesRest
<1> QED BY <1>1, <1>2, <1>3, <1>5, <1>6, <1>7, <1>8, <1>9, ActsOn

LEMMA DeclinedTyped ==
  ASSUME NEW r \in Trade!Rows
  PROVE  /\ Trade!Declined(r) \in Trade!Rows /\ Trade!Declined(r).status = "DECLINED"
         /\ Trade!Declined(r).filled = r.filled /\ Trade!Declined(r).charged = r.charged
BY DEF Trade!Declined, Trade!Rows

LEMMA FilledTyped ==
  ASSUME NEW o \in TradeOrders, NEW r \in Trade!Rows, NEW f \in Nat
  PROVE  /\ Trade!Filled(o, r, f) \in Trade!Rows
         /\ Trade!Filled(o, r, f).status = r.status
         /\ Trade!Filled(o, r, f).filled = r.filled + f
         /\ Trade!Filled(o, r, f).charged = (r.charged \/ ~ TradeOrder[o].exempt)
<1>1. PICK n : n = r.filled + f
  OBVIOUS
<1>2. PICK c \in BOOLEAN : c = (r.charged \/ Trade!Charges(o, r))
  OBVIOUS
<1>3. PICK d \in BOOLEAN : d = (n = TradeOrder[o].quantity)
  OBVIOUS
<1>4. n \in Nat
  BY <1>1, RowTyped
<1>5. Trade!Filled(o, r, f) = [r EXCEPT !.filled = n, !.charged = c, !.done = d]
  BY <1>1, <1>2, <1>3 DEF Trade!Filled
<1>6. /\ [r EXCEPT !.filled = n, !.charged = c, !.done = d] \in Trade!Rows
      /\ [r EXCEPT !.filled = n, !.charged = c, !.done = d].status = r.status
      /\ [r EXCEPT !.filled = n, !.charged = c, !.done = d].filled = n
      /\ [r EXCEPT !.filled = n, !.charged = c, !.done = d].charged = c
  BY <1>4 DEF Trade!Rows
<1>7. c = (r.charged \/ ~ TradeOrder[o].exempt)
  BY <1>2 DEF Trade!Charges
<1> QED BY <1>1, <1>5, <1>6, <1>7

LEMMA RecordProfitTaxStep ==
  ASSUME OrderInv, NEW w \in Workers, Trade!RecordProfitTax(w)
  PROVE  OrderInv'
<1>a. PICK o : o = worker[w].order
  OBVIOUS
<1>0. OrderTyped /\ worker[w].at = "tax" /\ worker[w].at # "idle"
  BY AtSteps, <1>a DEF OrderInv, Trade!RecordProfitTax
<1>1. /\ o \in TradeOrders /\ o \notin DOMAIN worker[w].batch /\ Holds(worker[w], o)
      /\ worker[w].fill \in Nat /\ worker[w].copy \in Trade!Rows
      /\ worker[w].at \in FillSteps => worker[w].fill > 0
  BY <1>0, <1>a, WorkedOn
<1>2. /\ row' = row /\ owned' = owned /\ usedLimit' = usedLimit /\ oCall' = oCall
      /\ oPaid' = oPaid /\ recorded' = recorded /\ moved' = moved
      /\ commissions' = commissions /\ transferred' = transferred
      /\ pledged' = pledged /\ approved' = approved /\ oDisturbed' = oDisturbed
      /\ oOverlapped' = oOverlapped /\ oClash' = oClash /\ short' = short
      /\ worker' = Trade!Goes(w, "save")
  BY <1>a DEF Trade!RecordProfitTax, Trade!history
<1>3. PICK x \in WorkStates :
        /\ WorkMatches(x) /\ worker' = [worker EXCEPT ![w] = x]
        /\ x.at = "save" /\ x.order = o /\ x.copy = worker[w].copy
        /\ x.fill = worker[w].fill /\ x.batch = worker[w].batch
  <2>1. "save" \in FillSteps /\ worker[w].at \in FillSteps
    BY <1>0, AtSteps
  <2> QED BY <2>1, <1>a, <1>0, <1>2, GoesTo
<1>5. OrderTyped'
  BY <1>0, <1>1, <1>2, <1>3, WorkerSet DEF OrderTyped
<1>6. About(w, x, o)
  BY <1>a, <1>2, <1>3, OrderConstants DEF About
<1>7. ASSUME o \notin oOverlapped PROVE CopyIsRow(x, o, row'[o])
  <2>1. CopyIsRow(worker[w], o, row[o])
    BY <1>1, <1>7, HeldRow
  <2>2. x.at \in CopySteps => worker[w].at \in CopySteps
    BY <1>0, <1>3, AtSteps
  <2> QED BY <2>1, <2>2, <1>a, <1>1, <1>2, <1>3 DEF CopyIsRow, Holds
<1>8. ASSUME o \notin oDisturbed' \cup oOverlapped PROVE FillsMatch(o)'
  <2>0. o \in TradeOrders \ oOverlapped
    BY <1>1, <1>8
  <2>1. FillsMatch(o)
    BY <2>0, <1>8, <1>2, HeldRow
  <2>2. /\ \A S : Trade!Pending(o, S) = Carried(worker[w], o, S)
        /\ \A S : Trade!Pending(o, S)' = Carried(x, o, S)
    BY <2>0, <1>1, <1>3, PendingHeld
  <2>3. /\ Trade!Pending(o, {"record"}) = 0
        /\ Trade!Pending(o, {"record"})' = 0
        /\ Trade!Pending(o, {"record", "tax", "save"}) = worker[w].fill
        /\ Trade!Pending(o, {"record", "tax", "save"})' = worker[w].fill
        /\ Trade!Pending(o, MoveSteps) = 0
        /\ Trade!Pending(o, MoveSteps)' = 0
    BY <2>2, <1>a, <1>0, <1>1, <1>3, OrderConstants DEF Carried, MoveSteps
  <2>4. oPaid[o] \in Nat /\ recorded[o] \in Nat /\ row[o].filled \in Nat /\ moved[o] \in Nat
    BY <1>0, <1>1, RowTyped DEF OrderTyped
  <2> QED BY <2>1, <2>3, <2>4, <1>1, <1>2 DEF FillsMatch
<1>9. \A h \in TradeHolders \ oClash' : ShareMatches(h)' /\ ShareBalance(h)'
  BY <1>0, <1>2, <1>3, SharesKept DEF SharesRest
<1> QED BY <1>1, <1>2, <1>3, <1>5, <1>6, <1>7, <1>8, <1>9, ActsOn

LEMMA FailAfterSettlementStep ==
  ASSUME OrderInv, NEW w \in Workers, Trade!FailAfterSettlement(w)
  PROVE  OrderInv'
<1>a. PICK o : o = worker[w].order
  OBVIOUS
<1>0. OrderTyped /\ worker[w].at \in FillSteps /\ worker[w].at # "idle"
  BY AtSteps, <1>a DEF OrderInv, Trade!FailAfterSettlement
<1>1. /\ o \in TradeOrders /\ o \notin DOMAIN worker[w].batch /\ Holds(worker[w], o)
      /\ worker[w].fill \in Nat /\ worker[w].copy \in Trade!Rows
      /\ worker[w].at \in FillSteps => worker[w].fill > 0
  BY <1>0, <1>a, WorkedOn
<1>2. /\ row' = row /\ owned' = owned /\ usedLimit' = usedLimit /\ oCall' = oCall
      /\ oPaid' = oPaid /\ recorded' = recorded /\ moved' = moved
      /\ commissions' = commissions /\ transferred' = transferred
      /\ pledged' = pledged /\ approved' = approved /\ oOverlapped' = oOverlapped
      /\ oClash' = oClash /\ short' = short
      /\ oDisturbed' = oDisturbed \cup {o} /\ worker' = Trade!Drops(w)
  BY <1>a DEF Trade!FailAfterSettlement
<1>3. PICK x \in WorkStates :
        /\ WorkMatches(x) /\ worker' = [worker EXCEPT ![w] = x]
        /\ x.at = "idle" /\ x.order = Trade!NoOrder /\ x.batch = worker[w].batch
  BY <1>0, <1>2, DropsTo
<1>5. OrderTyped'
  BY <1>0, <1>1, <1>2, <1>3, WorkerSet DEF OrderTyped
<1>6. About(w, x, o)
  BY <1>a, <1>2, <1>3, OrderConstants DEF About
<1>7. ASSUME o \notin oOverlapped PROVE CopyIsRow(x, o, row'[o])
  <2>1. ~ Holds(x, o) /\ x.order # o
    BY <1>1, <1>3, OrderConstants DEF Holds
  <2> QED BY <2>1 DEF CopyIsRow, Holds
<1>8. o \in oDisturbed'
  BY <1>2
<1>9. \A h \in TradeHolders \ oClash' : ShareMatches(h)' /\ ShareBalance(h)'
  BY <1>0, <1>2, <1>3, SharesKept DEF SharesRest
<1> QED BY <1>1, <1>2, <1>3, <1>5, <1>6, <1>7, <1>8, <1>9, ActsOn

LEMMA RejectShortSellStep ==
  ASSUME OrderInv, NEW w \in Workers, Trade!RejectShortSell(w)
  PROVE  OrderInv'
<1>a. PICK o : o = worker[w].order
  OBVIOUS
<1>0. OrderTyped /\ worker[w].at = "upsert" /\ worker[w].at # "idle"
  BY AtSteps, <1>a DEF OrderInv, Trade!RejectShortSell
<1>1. /\ o \in TradeOrders /\ o \notin DOMAIN worker[w].batch /\ Holds(worker[w], o)
      /\ worker[w].fill \in Nat /\ worker[w].copy \in Trade!Rows
      /\ worker[w].at \in FillSteps => worker[w].fill > 0
  BY <1>0, <1>a, WorkedOn
<1>2. /\ row' = row /\ owned' = owned /\ usedLimit' = usedLimit /\ oCall' = oCall
      /\ oPaid' = oPaid /\ recorded' = recorded /\ moved' = moved
      /\ commissions' = commissions /\ transferred' = transferred
      /\ pledged' = pledged /\ approved' = approved /\ oDisturbed' = oDisturbed
      /\ oOverlapped' = oOverlapped /\ oClash' = oClash
      /\ short' = short \cup {o} /\ worker' = Trade!Drops(w)
  BY <1>a DEF Trade!RejectShortSell
<1>3. PICK x \in WorkStates :
        /\ WorkMatches(x) /\ worker' = [worker EXCEPT ![w] = x]
        /\ x.at = "idle" /\ x.order = Trade!NoOrder /\ x.batch = worker[w].batch
  BY <1>0, <1>2, DropsTo
<1>5. OrderTyped'
  BY <1>0, <1>1, <1>2, <1>3, WorkerSet DEF OrderTyped
<1>6. About(w, x, o)
  BY <1>a, <1>2, <1>3, OrderConstants DEF About
<1>7. ASSUME o \notin oOverlapped PROVE CopyIsRow(x, o, row'[o])
  <2>1. ~ Holds(x, o) /\ x.order # o
    BY <1>1, <1>3, OrderConstants DEF Holds
  <2> QED BY <2>1 DEF CopyIsRow, Holds
<1>8. ASSUME o \notin oDisturbed' \cup oOverlapped PROVE FillsMatch(o)'
  <2>0. o \in TradeOrders \ oOverlapped
    BY <1>1, <1>8
  <2>1. FillsMatch(o)
    BY <2>0, <1>8, <1>2, HeldRow
  <2>2. /\ \A S : Trade!Pending(o, S) = Carried(worker[w], o, S)
        /\ \A S : Trade!Pending(o, S)' = Carried(x, o, S)
    BY <2>0, <1>1, <1>3, PendingHeld
  <2>3. /\ Trade!Pending(o, {"record"}) = 0
        /\ Trade!Pending(o, {"record"})' = 0
        /\ Trade!Pending(o, {"record", "tax", "save"}) = 0
        /\ Trade!Pending(o, {"record", "tax", "save"})' = 0
        /\ Trade!Pending(o, MoveSteps) = worker[w].fill
        /\ Trade!Pending(o, MoveSteps)' = 0
    BY <2>2, <1>a, <1>0, <1>1, <1>3, OrderConstants DEF Carried, MoveSteps
  <2>4. oPaid[o] \in Nat /\ recorded[o] \in Nat /\ row[o].filled \in Nat /\ moved[o] \in Nat
    BY <1>0, <1>1, RowTyped DEF OrderTyped
  <2> QED BY <2>1, <2>3, <2>4, <1>1, <1>2 DEF FillsMatch
<1>9. \A h \in TradeHolders \ oClash' : ShareMatches(h)' /\ ShareBalance(h)'
  BY <1>0, <1>2, <1>3, SharesKept DEF SharesRest
<1> QED BY <1>1, <1>2, <1>3, <1>5, <1>6, <1>7, <1>8, <1>9, ActsOn

LEMMA SaveUnfilledStep ==
  ASSUME OrderInv, NEW w \in Workers, Trade!SaveUnfilled(w)
  PROVE  OrderInv'
<1>a. PICK o : o = worker[w].order
  OBVIOUS
<1>0. OrderTyped /\ worker[w].at \in {"postpone", "fail"} /\ worker[w].at # "idle"
  BY AtSteps, <1>a DEF OrderInv, Trade!SaveUnfilled
<1>1. /\ o \in TradeOrders /\ o \notin DOMAIN worker[w].batch /\ Holds(worker[w], o)
      /\ worker[w].fill \in Nat /\ worker[w].copy \in Trade!Rows
      /\ worker[w].at \in FillSteps => worker[w].fill > 0
  BY <1>0, <1>a, WorkedOn
<1>2. /\ owned' = owned /\ usedLimit' = usedLimit /\ oCall' = oCall
      /\ oPaid' = oPaid /\ recorded' = recorded /\ moved' = moved
      /\ commissions' = commissions /\ transferred' = transferred
      /\ pledged' = pledged /\ approved' = approved /\ oDisturbed' = oDisturbed
      /\ oOverlapped' = oOverlapped /\ oClash' = oClash /\ short' = short
      /\ row' \in {row, [row EXCEPT ![o] = IF worker[w].at = "fail"
                                           THEN Trade!Declined(worker[w].copy)
                                           ELSE worker[w].copy]}
      /\ worker' = Trade!Drops(w)
  BY <1>a DEF Trade!SaveUnfilled, Trade!history
<1>3. PICK x \in WorkStates :
        /\ WorkMatches(x) /\ worker' = [worker EXCEPT ![w] = x]
        /\ x.at = "idle" /\ x.order = Trade!NoOrder /\ x.batch = worker[w].batch
  BY <1>0, <1>2, DropsTo
<1>4. /\ row' \in [TradeOrders -> Trade!Rows]
      /\ \A p \in TradeOrders \ {o} : row'[p] = row[p]
      /\ \/ row'[o] = row[o]
         \/ row'[o].filled = worker[w].copy.filled /\ row'[o].charged = worker[w].copy.charged
  <2>1. row \in [TradeOrders -> Trade!Rows]
    BY <1>0 DEF OrderTyped
  <2>2. PICK r \in Trade!Rows : r = worker[w].copy
    BY <1>1
  <2>3. PICK d : d = IF worker[w].at = "fail" THEN Trade!Declined(r) ELSE r
    OBVIOUS
  <2>4. d \in Trade!Rows /\ d.filled = r.filled /\ d.charged = r.charged
    BY <2>3, DeclinedTyped
  <2>5. row' \in {row, [row EXCEPT ![o] = d]}
    BY <1>2, <2>2, <2>3
  <2> QED BY <2>1, <2>2, <2>4, <2>5, <1>1
<1>5. OrderTyped'
  BY <1>0, <1>1, <1>2, <1>3, <1>4, WorkerSet DEF OrderTyped
<1>6. About(w, x, o)
  BY <1>a, <1>2, <1>3, <1>4, OrderConstants DEF About
<1>7. ASSUME o \notin oOverlapped PROVE CopyIsRow(x, o, row'[o])
  <2>1. ~ Holds(x, o) /\ x.order # o
    BY <1>1, <1>3, OrderConstants DEF Holds
  <2> QED BY <2>1 DEF CopyIsRow, Holds
<1>8. ASSUME o \notin oDisturbed' \cup oOverlapped PROVE FillsMatch(o)'
  <2>0. o \in TradeOrders \ oOverlapped
    BY <1>1, <1>8
  <2>1. FillsMatch(o)
    BY <2>0, <1>8, <1>2, HeldRow
  <2>2. /\ \A S : Trade!Pending(o, S) = Carried(worker[w], o, S)
        /\ \A S : Trade!Pending(o, S)' = Carried(x, o, S)
    BY <2>0, <1>1, <1>3, PendingHeld
  <2>3. /\ Trade!Pending(o, {"record"}) = 0
        /\ Trade!Pending(o, {"record"})' = 0
        /\ Trade!Pending(o, {"record", "tax", "save"}) = 0
        /\ Trade!Pending(o, {"record", "tax", "save"})' = 0
        /\ Trade!Pending(o, MoveSteps) = 0
        /\ Trade!Pending(o, MoveSteps)' = 0
    BY <2>2, <1>a, <1>0, <1>1, <1>3, OrderConstants DEF Carried, MoveSteps
  <2>4. oPaid[o] \in Nat /\ recorded[o] \in Nat /\ row[o].filled \in Nat /\ moved[o] \in Nat
    BY <1>0, <1>1, RowTyped DEF OrderTyped
  <2>5. row'[o].filled = row[o].filled /\ row'[o].charged = row[o].charged
    <3>1. CopyIsRow(worker[w], o, row[o])
      BY <2>0, HeldRow
    <3>2. worker[w].copy = row[o]
      BY <3>1, <1>a, <1>0, AtSteps DEF CopyIsRow
    <3> QED BY <3>2, <1>4
  <2> QED BY <2>1, <2>3, <2>4, <2>5, <1>1, <1>2 DEF FillsMatch
<1>9. \A h \in TradeHolders \ oClash' : ShareMatches(h)' /\ ShareBalance(h)'
  BY <1>0, <1>2, <1>3, SharesKept DEF SharesRest
<1> QED BY <1>1, <1>2, <1>3, <1>5, <1>6, <1>7, <1>8, <1>9, ActsOn

LEMMA SaveFillStep ==
  ASSUME OrderInv, NEW w \in Workers, Trade!SaveFill(w)
  PROVE  OrderInv'
<1>a. PICK o : o = worker[w].order
  OBVIOUS
<1>0. OrderTyped /\ worker[w].at = "save" /\ worker[w].at # "idle"
  BY AtSteps, <1>a DEF OrderInv, Trade!SaveFill
<1>1. /\ o \in TradeOrders /\ o \notin DOMAIN worker[w].batch /\ Holds(worker[w], o)
      /\ worker[w].fill \in Nat /\ worker[w].copy \in Trade!Rows
      /\ worker[w].at \in FillSteps => worker[w].fill > 0
  BY <1>0, <1>a, WorkedOn
<1>2. /\ owned' = owned /\ usedLimit' = usedLimit /\ oCall' = oCall
      /\ oPaid' = oPaid /\ recorded' = recorded /\ moved' = moved
      /\ commissions' = commissions /\ transferred' = transferred
      /\ pledged' = pledged /\ approved' = approved /\ oDisturbed' = oDisturbed
      /\ oOverlapped' = oOverlapped /\ oClash' = oClash /\ short' = short
      /\ row' = [row EXCEPT ![o] = Trade!Filled(o, worker[w].copy, worker[w].fill)]
      /\ worker' = Trade!Goes(w, "ownership")
  BY <1>a DEF Trade!SaveFill, Trade!history
<1>3. PICK x \in WorkStates :
        /\ WorkMatches(x) /\ worker' = [worker EXCEPT ![w] = x]
        /\ x.at = "ownership" /\ x.order = o /\ x.copy = worker[w].copy
        /\ x.fill = worker[w].fill /\ x.batch = worker[w].batch
  <2>1. "ownership" \in FillSteps /\ worker[w].at \in FillSteps
    BY <1>0, AtSteps
  <2> QED BY <2>1, <1>a, <1>0, <1>2, GoesTo
<1>4. /\ row' \in [TradeOrders -> Trade!Rows]
      /\ \A p \in TradeOrders \ {o} : row'[p] = row[p]
      /\ row'[o].status = worker[w].copy.status
      /\ row'[o].filled = worker[w].copy.filled + worker[w].fill
      /\ row'[o].charged = (worker[w].copy.charged \/ ~ TradeOrder[o].exempt)
  <2>1. row \in [TradeOrders -> Trade!Rows]
    BY <1>0 DEF OrderTyped
  <2>2. PICK r \in Trade!Rows : r = worker[w].copy
    BY <1>1
  <2>3. PICK f \in Nat : f = worker[w].fill
    BY <1>1
  <2>4. PICK d : d = Trade!Filled(o, r, f)
    OBVIOUS
  <2>5. /\ d \in Trade!Rows /\ d.status = r.status /\ d.filled = r.filled + f
        /\ d.charged = (r.charged \/ ~ TradeOrder[o].exempt)
    <3>1. o \in TradeOrders /\ r \in Trade!Rows /\ f \in Nat
      BY <1>1, <2>2, <2>3
    <3>2. /\ Trade!Filled(o, r, f) \in Trade!Rows
          /\ Trade!Filled(o, r, f).status = r.status
          /\ Trade!Filled(o, r, f).filled = r.filled + f
          /\ Trade!Filled(o, r, f).charged = (r.charged \/ ~ TradeOrder[o].exempt)
      BY ONLY <3>1, FilledTyped
    <3> QED BY ONLY <3>2, <2>4
  <2>6. row' = [row EXCEPT ![o] = d]
    BY <1>2, <2>2, <2>3, <2>4
  <2> QED BY <2>1, <2>2, <2>3, <2>5, <2>6, <1>1
<1>5. OrderTyped'
  BY <1>0, <1>1, <1>2, <1>3, <1>4, WorkerSet DEF OrderTyped
<1>6. About(w, x, o)
  BY <1>a, <1>2, <1>3, <1>4, OrderConstants DEF About
<1>7. ASSUME o \notin oOverlapped PROVE CopyIsRow(x, o, row'[o])
  <2>1. CopyIsRow(worker[w], o, row[o])
    BY <1>1, <1>7, HeldRow
  <2>2. worker[w].copy.status = "APPROVED"
    BY <2>1, <1>a, <1>0, <1>1, AtSteps DEF CopyIsRow
  <2>3. x.at \notin CopySteps
    BY <1>3, AtSteps
  <2> QED BY <2>2, <2>3, <1>1, <1>3, <1>4 DEF CopyIsRow
<1>8. ASSUME o \notin oDisturbed' \cup oOverlapped PROVE FillsMatch(o)'
  <2>0. o \in TradeOrders \ oOverlapped
    BY <1>1, <1>8
  <2>1. FillsMatch(o)
    BY <2>0, <1>8, <1>2, HeldRow
  <2>2. /\ \A S : Trade!Pending(o, S) = Carried(worker[w], o, S)
        /\ \A S : Trade!Pending(o, S)' = Carried(x, o, S)
    BY <2>0, <1>1, <1>3, PendingHeld
  <2>3. /\ Trade!Pending(o, {"record"}) = 0
        /\ Trade!Pending(o, {"record"})' = 0
        /\ Trade!Pending(o, {"record", "tax", "save"}) = worker[w].fill
        /\ Trade!Pending(o, {"record", "tax", "save"})' = 0
        /\ Trade!Pending(o, MoveSteps) = 0
        /\ Trade!Pending(o, MoveSteps)' = worker[w].fill
    BY <2>2, <1>a, <1>0, <1>1, <1>3, OrderConstants DEF Carried, MoveSteps
  <2>4. oPaid[o] \in Nat /\ recorded[o] \in Nat /\ row[o].filled \in Nat /\ moved[o] \in Nat
    BY <1>0, <1>1, RowTyped DEF OrderTyped
  <2>5. worker[w].copy = row[o]
    <3>1. CopyIsRow(worker[w], o, row[o])
      BY <2>0, HeldRow
    <3> QED BY <3>1, <1>a, <1>0, AtSteps DEF CopyIsRow
  <2>6. row'[o].filled = row[o].filled + worker[w].fill /\ worker[w].fill > 0
    BY <2>5, <1>0, <1>1, <1>4, AtSteps
  <2>7. row'[o].charged <=> row'[o].filled > 0 /\ ~ TradeOrder[o].exempt
    <3>1. row'[o].filled > 0 /\ row[o].filled >= 0
      BY <2>4, <2>6, <1>1
    <3>2. row[o].charged => ~ TradeOrder[o].exempt
      BY <2>1 DEF FillsMatch
    <3> QED BY <3>1, <3>2, <2>5, <1>4
  <2> QED BY <2>1, <2>3, <2>4, <2>6, <2>7, <1>1, <1>2 DEF FillsMatch
<1>9. \A h \in TradeHolders \ oClash' : ShareMatches(h)' /\ ShareBalance(h)'
  BY <1>0, <1>2, <1>3, SharesKept DEF SharesRest
<1> QED BY <1>1, <1>2, <1>3, <1>5, <1>6, <1>7, <1>8, <1>9, ActsOn

\* Another worker that writes the ownership of h back.
LEMMA WrittenByOthers ==
  ASSUME NEW w, NEW h
  PROVE  Trade!WrittenByOther(w, h) <=> \E v \in Workers \ {w} : Writes(worker[v], h)
BY DEF Trade!WrittenByOther, Writes

LEMMA ReadOwnershipOrderStep ==
  ASSUME OrderInv, NEW w \in Workers, Trade!ReadOwnership(w)
  PROVE  OrderInv'
<1>a. PICK o : o = worker[w].order
  OBVIOUS
<1>0. OrderTyped /\ worker[w].at = "ownership" /\ worker[w].at # "idle"
  BY AtSteps, <1>a DEF OrderInv, Trade!ReadOwnership
<1>1. /\ o \in TradeOrders /\ o \notin DOMAIN worker[w].batch /\ Holds(worker[w], o)
      /\ worker[w].fill \in Nat /\ worker[w].copy \in Trade!Rows
      /\ worker[w].at \in FillSteps => worker[w].fill > 0
  BY <1>0, <1>a, WorkedOn
<1>2. /\ row' = row /\ owned' = owned /\ usedLimit' = usedLimit /\ oCall' = oCall
      /\ oPaid' = oPaid /\ recorded' = recorded /\ moved' = moved
      /\ commissions' = commissions /\ transferred' = transferred
      /\ pledged' = pledged /\ approved' = approved /\ oDisturbed' = oDisturbed
      /\ oOverlapped' = oOverlapped /\ short' = short
      /\ oClash' = IF Trade!WrittenByOther(w, Trade!Holder(o)) THEN oClash \cup {Trade!Holder(o)}
                   ELSE oClash
      /\ worker' = [worker EXCEPT ![w].at = "upsert", ![w].share = owned[Trade!Holder(o)].amount,
                                  ![w].reserved = owned[Trade!Holder(o)].reserved]
  BY <1>a DEF Trade!ReadOwnership
<1>b. PICK n \in Nat, m \in Nat, h \in TradeHolders :
        h = Trade!Holder(o) /\ n = owned[h].amount /\ m = owned[h].reserved
  <2>1. Trade!Holder(o) \in TradeHolders
    BY <1>1, OrderConstants
  <2> QED BY <2>1, <1>0 DEF OrderTyped
<1>3. PICK x \in WorkStates :
        /\ WorkMatches(x) /\ worker' = [worker EXCEPT ![w] = x]
        /\ x.at = "upsert" /\ x.order = o /\ x.copy = worker[w].copy
        /\ x.fill = worker[w].fill /\ x.batch = worker[w].batch
        /\ x.share = n /\ x.reserved = m
  <2> DEFINE s == Further(w, "upsert", n, m)
  <2>1. worker[w].at \in FillSteps /\ "upsert" \in FillSteps
    BY <1>0, AtSteps
  <2>2. worker' = [worker EXCEPT ![w].at = "upsert", ![w].share = n, ![w].reserved = m]
    BY <1>2, <1>b
  <2>3. s \in WorkStates /\ WorkMatches(s)
    BY <2>1, <1>0, FurtherTyped
  <2>5. [worker EXCEPT ![w].at = "upsert", ![w].share = n, ![w].reserved = m]
          = [worker EXCEPT ![w] = s]
    <3>1. [worker[w] EXCEPT !.at = "upsert", !.share = n, !.reserved = m] = Further(w, "upsert", n, m)
      <4> DEFINE t == worker[w]
      <4>1. t = Work(t.at, t.order, t.copy, t.fill, t.share, t.reserved, t.batch)
        BY <1>0, WorkFields
      <4> HIDE DEF t
      <4>2. [t EXCEPT !.at = "upsert"] = Work("upsert", t.order, t.copy, t.fill, t.share, t.reserved, t.batch)
        BY <4>1, WorkSetAt
      <4>3. [t EXCEPT !.at = "upsert", !.share = n]
              = Work("upsert", t.order, t.copy, t.fill, n, t.reserved, t.batch)
        <5>1. [t EXCEPT !.at = "upsert", !.share = n] = [[t EXCEPT !.at = "upsert"] EXCEPT !.share = n]
          OBVIOUS
        <5>2. [Work("upsert", t.order, t.copy, t.fill, t.share, t.reserved, t.batch) EXCEPT !.share = n]
                = Work("upsert", t.order, t.copy, t.fill, n, t.reserved, t.batch)
          BY DEF Work
        <5> QED BY <4>2, <5>1, <5>2
      <4>4. [t EXCEPT !.at = "upsert", !.share = n, !.reserved = m]
              = Work("upsert", t.order, t.copy, t.fill, n, m, t.batch)
        <5>1. [t EXCEPT !.at = "upsert", !.share = n, !.reserved = m]
                = [[t EXCEPT !.at = "upsert", !.share = n] EXCEPT !.reserved = m]
          OBVIOUS
        <5>2. [Work("upsert", t.order, t.copy, t.fill, n, t.reserved, t.batch) EXCEPT !.reserved = m]
                = Work("upsert", t.order, t.copy, t.fill, n, m, t.batch)
          BY DEF Work
        <5> QED BY <4>3, <5>1, <5>2
      <4> QED BY <4>4 DEF Further, t
    <3>2. [worker EXCEPT ![w].at = "upsert", ![w].share = n, ![w].reserved = m]
            = [worker EXCEPT ![w] = [worker[w] EXCEPT !.at = "upsert", !.share = n, !.reserved = m]]
      BY <1>0 DEF OrderTyped
    <3> QED BY <3>1, <3>2, <1>0
  <2>4. /\ s.at = "upsert" /\ s.order = o /\ s.copy = worker[w].copy
        /\ s.fill = worker[w].fill /\ s.batch = worker[w].batch
        /\ s.share = n /\ s.reserved = m
    BY <1>a DEF Further, Work
  <2> HIDE DEF s
  <2> QED BY <2>2, <2>3, <2>4, <2>5
<1>4. oClash' \subseteq TradeHolders
  BY <1>0, <1>2, <1>b DEF OrderTyped
<1>5. OrderTyped'
  BY <1>0, <1>1, <1>2, <1>3, <1>4, WorkerSet DEF OrderTyped
<1>6. About(w, x, o)
  BY <1>a, <1>2, <1>3, <1>4, OrderConstants DEF About
<1>7. ASSUME o \notin oOverlapped PROVE CopyIsRow(x, o, row'[o])
  <2>1. CopyIsRow(worker[w], o, row[o])
    BY <1>1, <1>7, HeldRow
  <2>2. x.at \in CopySteps => worker[w].at \in CopySteps
    BY <1>0, <1>3, AtSteps
  <2> QED BY <2>1, <2>2, <1>a, <1>1, <1>2, <1>3 DEF CopyIsRow, Holds
<1>8. ASSUME o \notin oDisturbed' \cup oOverlapped PROVE FillsMatch(o)'
  <2>0. o \in TradeOrders \ oOverlapped
    BY <1>1, <1>8
  <2>1. FillsMatch(o)
    BY <2>0, <1>8, <1>2, HeldRow
  <2>2. /\ \A S : Trade!Pending(o, S) = Carried(worker[w], o, S)
        /\ \A S : Trade!Pending(o, S)' = Carried(x, o, S)
    BY <2>0, <1>1, <1>3, PendingHeld
  <2>3. /\ Trade!Pending(o, {"record"}) = 0
        /\ Trade!Pending(o, {"record"})' = 0
        /\ Trade!Pending(o, {"record", "tax", "save"}) = 0
        /\ Trade!Pending(o, {"record", "tax", "save"})' = 0
        /\ Trade!Pending(o, MoveSteps) = worker[w].fill
        /\ Trade!Pending(o, MoveSteps)' = worker[w].fill
    BY <2>2, <1>a, <1>0, <1>1, <1>3, OrderConstants DEF Carried, MoveSteps
  <2>4. oPaid[o] \in Nat /\ recorded[o] \in Nat /\ row[o].filled \in Nat /\ moved[o] \in Nat
    BY <1>0, <1>1, RowTyped DEF OrderTyped
  <2> QED BY <2>1, <2>3, <2>4, <1>1, <1>2 DEF FillsMatch
<1>9. ASSUME NEW g \in TradeHolders \ oClash' PROVE ShareMatches(g)' /\ ShareBalance(g)'
  <2>1. g \in TradeHolders \ oClash /\ ShareMatches(g) /\ ShareBalance(g)
    BY <1>2, <1>9 DEF OrderInv
  <2>2. worker'[w] = x /\ \A v \in Workers \ {w} : worker'[v] = worker[v]
    BY <1>0, <1>3, WorkerSet
  <2>3. ShareBalance(g)'
    BY <2>1, <1>2, BalanceKept
  <2>4. g = h => \A v \in Workers \ {w} : ~ Writes(worker[v], g)
    BY <1>2, <1>b, <1>9, WrittenByOthers
  <2>5. Writes(x, g) => g = h /\ x.share = owned'[g].amount /\ x.reserved = owned'[g].reserved
    BY <1>2, <1>3, <1>b DEF Writes
  <2>6. \A v \in Workers : Writes(worker'[v], g) =>
          worker'[v].share = owned'[g].amount /\ worker'[v].reserved = owned'[g].reserved
    <3> TAKE v \in Workers
    <3>1. CASE v = w
      BY <3>1, <2>2, <2>5
    <3>2. CASE v # w
      BY <3>2, <2>1, <2>2, <1>2 DEF ShareMatches
    <3> QED BY <3>1, <3>2
  <2>7. \A u, v \in Workers : Writes(worker'[u], g) /\ Writes(worker'[v], g) => u = v
    <3> SUFFICES ASSUME NEW u \in Workers, NEW v \in Workers,
                        Writes(worker'[u], g), Writes(worker'[v], g)
                 PROVE  u = v
      OBVIOUS
    <3>1. CASE u # w /\ v # w
      BY <3>1, <2>1, <2>2 DEF ShareMatches
    <3>2. CASE u = w \/ v = w
      BY <3>2, <2>2, <2>4, <2>5
    <3> QED BY <3>1, <3>2
  <2> QED BY <2>3, <2>6, <2>7 DEF ShareMatches, Writes, Trade!Holder
<1> QED BY <1>1, <1>2, <1>3, <1>5, <1>6, <1>7, <1>8, <1>9, ActsOn

\* The moves of an order change what its holder bought or sold, and no other total.
LEMMA MovedChanges ==
  ASSUME moved \in [TradeOrders -> Nat], NEW o \in TradeOrders, NEW f \in Nat,
         moved' = [moved EXCEPT ![o] = @ + f], NEW side, NEW h
  PROVE  /\ MovedOf(side, h) \in Int
         /\ MovedOf(side, h)' =
              IF TradeOrder[o].side = side /\ Trade!Holder(o) = h
              THEN MovedOf(side, h) + f * TradeOrder[o].size ELSE MovedOf(side, h)
<1> DEFINE of(k) == [p \in TradeOrders |->
                       IF TradeOrder[p].side = side /\ Trade!Holder(p) = h
                       THEN k[p] * TradeOrder[p].size ELSE 0]
<1>0. IsFiniteSet(TradeOrders) /\ \A p \in TradeOrders : TradeOrder[p].size \in Nat
  BY OrderConstants
<1>1. moved' \in [TradeOrders -> Nat] /\ moved'[o] = moved[o] + f
      /\ \A p \in TradeOrders \ {o} : moved'[p] = moved[p]
  OBVIOUS
<1>2. of(moved) \in [TradeOrders -> Int]
  BY <1>0
<1>3. of(moved') \in [TradeOrders -> Int]
  BY <1>0, <1>1
<1>4. \A p \in TradeOrders \ {o} : of(moved)[p] = of(moved')[p]
  BY <1>1
<1>5. of(moved')[o] = IF TradeOrder[o].side = side /\ Trade!Holder(o) = h
                      THEN of(moved)[o] + f * TradeOrder[o].size ELSE of(moved)[o]
  <2>1. PICK s \in Nat, k \in Nat : s = TradeOrder[o].size /\ k = moved[o]
    BY <1>0
  <2>2. (k + f) * s = k * s + f * s
    OBVIOUS
  <2>3. of(moved)[o] = IF TradeOrder[o].side = side /\ Trade!Holder(o) = h THEN k * s ELSE 0
    BY <2>1
  <2>4. of(moved')[o] = IF TradeOrder[o].side = side /\ Trade!Holder(o) = h
                        THEN (k + f) * s ELSE 0
    BY <2>1, <1>1
  <2> QED BY <2>1, <2>2, <2>3, <2>4
<1>6. MovedOf(side, h) = SumFunctionOnSet(of(moved), TradeOrders)
      /\ MovedOf(side, h)' = SumFunctionOnSet(of(moved'), TradeOrders)
  BY DEF MovedOf, Trade!Holder
<1> HIDE DEF of
<1>7. SumFunctionOnSet(of(moved'), TradeOrders)
        = SumFunctionOnSet(of(moved), TradeOrders) - of(moved)[o] + of(moved')[o]
  <2>1. PICK i \in [TradeOrders -> Int] : i = of(moved)
    BY <1>2
  <2>2. PICK j \in [TradeOrders -> Int] : j = of(moved')
    BY <1>3
  <2>3. \A p \in TradeOrders \ {o} : i[p] = j[p]
    BY <2>1, <2>2, <1>4
  <2>4. SumFunctionOnSet(j, TradeOrders) = SumFunctionOnSet(i, TradeOrders) - i[o] + j[o]
    <3>1. /\ TradeOrders \in SUBSET TradeOrders /\ TradeOrders \subseteq TradeOrders
          /\ IsFiniteSet(TradeOrders)
      BY <1>0
    <3> QED BY ONLY i \in [TradeOrders -> Int], j \in [TradeOrders -> Int], o \in TradeOrders,
                    <2>3, <3>1, SumUpdated
  <2> QED BY <2>1, <2>2, <2>4
<1>8. SumFunctionOnSet(of(moved), TradeOrders) \in Int
  BY <1>0, <1>2, SumType
<1>9. of(moved)[o] \in Int /\ of(moved')[o] \in Int
  BY <1>2, <1>3
<1>10. f * TradeOrder[o].size \in Int
  BY <1>0
<1> QED BY <1>5, <1>6, <1>7, <1>8, <1>9, <1>10

LEMMA UpsertOwnershipStep ==
  ASSUME OrderInv, NEW w \in Workers, Trade!UpsertOwnership(w)
  PROVE  OrderInv'
<1>a. PICK o : o = worker[w].order
  OBVIOUS
<1>0. OrderTyped /\ worker[w].at = "upsert" /\ worker[w].at # "idle"
  BY AtSteps, <1>a DEF OrderInv, Trade!UpsertOwnership
<1>1. /\ o \in TradeOrders /\ o \notin DOMAIN worker[w].batch /\ Holds(worker[w], o)
      /\ worker[w].fill \in Nat /\ worker[w].copy \in Trade!Rows
      /\ worker[w].at \in FillSteps => worker[w].fill > 0
  BY <1>0, <1>a, WorkedOn
<1>2. /\ row' = row /\ usedLimit' = usedLimit /\ oCall' = oCall /\ oPaid' = oPaid
      /\ recorded' = recorded /\ commissions' = commissions /\ transferred' = transferred
      /\ pledged' = pledged /\ approved' = approved /\ oDisturbed' = oDisturbed
      /\ oOverlapped' = oOverlapped /\ oClash' = oClash /\ short' = short
      /\ ~ (TradeOrder[o].side = "SELL" /\ worker[w].share < worker[w].fill * TradeOrder[o].size)
      /\ owned' = [owned EXCEPT ![Trade!Holder(o)] =
                     [amount |-> Trade!ShareAfter(o, worker[w].share, worker[w].fill),
                      reserved |-> worker[w].reserved]]
      /\ moved' = [moved EXCEPT ![o] = @ + worker[w].fill]
      /\ worker' = Trade!Drops(w)
  BY <1>a DEF Trade!UpsertOwnership, Trade!Lacking
<1>b. PICK n \in Nat, m \in Nat, f \in Nat, h \in TradeHolders :
        n = worker[w].share /\ m = worker[w].reserved /\ f = worker[w].fill /\ h = Trade!Holder(o)
  BY <1>0, <1>1, WorkFields, OrderConstants
<1>c. PICK q \in Nat : q = f * TradeOrder[o].size
  BY <1>1, OrderConstants
<1>d. PICK k : k = IF TradeOrder[o].side = "BUY" THEN n + q ELSE n - q
  OBVIOUS
<1>e. k \in Nat
  <2>1. TradeOrder[o].side = "SELL" => ~ (n < q)
    BY <1>2, <1>b, <1>c
  <2> QED BY <2>1, <1>1, <1>d, OrderConstants
<1>f. owned' = [owned EXCEPT ![h] = [amount |-> k, reserved |-> m]]
  <2>1. Trade!ShareAfter(o, worker[w].share, worker[w].fill) = k
    BY <1>b, <1>c, <1>d DEF Trade!ShareAfter
  <2> QED BY <2>1, <1>2, <1>b
<1>3. PICK x \in WorkStates :
        /\ WorkMatches(x) /\ worker' = [worker EXCEPT ![w] = x]
        /\ x.at = "idle" /\ x.order = Trade!NoOrder /\ x.batch = worker[w].batch
  BY <1>0, <1>2, DropsTo
<1>4. /\ owned' \in [TradeHolders -> [amount : Nat, reserved : Nat]]
      /\ owned'[h].amount = k /\ owned'[h].reserved = m
      /\ \A g \in TradeHolders \ {h} : owned'[g] = owned[g]
      /\ moved' \in [TradeOrders -> Nat] /\ moved'[o] = moved[o] + f
      /\ \A p \in TradeOrders \ {o} : moved'[p] = moved[p]
  <2>1. /\ owned \in [TradeHolders -> [amount : Nat, reserved : Nat]]
        /\ moved \in [TradeOrders -> Nat]
    BY <1>0 DEF OrderTyped
  <2>2. [amount |-> k, reserved |-> m] \in [amount : Nat, reserved : Nat]
    BY <1>e
  <2>3. moved' = [moved EXCEPT ![o] = @ + f]
    BY <1>2, <1>b
  <2> QED BY <2>1, <2>2, <2>3, <1>1, <1>f
<1>5. OrderTyped'
  BY <1>0, <1>1, <1>2, <1>3, <1>4, WorkerSet DEF OrderTyped
<1>6. About(w, x, o)
  BY <1>a, <1>2, <1>3, <1>4, OrderConstants DEF About
<1>7. ASSUME o \notin oOverlapped PROVE CopyIsRow(x, o, row'[o])
  <2>1. ~ Holds(x, o) /\ x.order # o
    BY <1>1, <1>3, OrderConstants DEF Holds
  <2> QED BY <2>1 DEF CopyIsRow, Holds
<1>8. ASSUME o \notin oDisturbed' \cup oOverlapped PROVE FillsMatch(o)'
  <2>0. o \in TradeOrders \ oOverlapped
    BY <1>1, <1>8
  <2>1. FillsMatch(o)
    BY <2>0, <1>8, <1>2, HeldRow
  <2>2. /\ \A S : Trade!Pending(o, S) = Carried(worker[w], o, S)
        /\ \A S : Trade!Pending(o, S)' = Carried(x, o, S)
    BY <2>0, <1>1, <1>3, PendingHeld
  <2>3. /\ Trade!Pending(o, {"record"}) = 0
        /\ Trade!Pending(o, {"record"})' = 0
        /\ Trade!Pending(o, {"record", "tax", "save"}) = 0
        /\ Trade!Pending(o, {"record", "tax", "save"})' = 0
        /\ Trade!Pending(o, MoveSteps) = f
        /\ Trade!Pending(o, MoveSteps)' = 0
    BY <2>2, <1>a, <1>0, <1>1, <1>3, <1>b, OrderConstants DEF Carried, MoveSteps
  <2>4. oPaid[o] \in Nat /\ recorded[o] \in Nat /\ row[o].filled \in Nat /\ moved[o] \in Nat
    BY <1>0, <1>1, RowTyped DEF OrderTyped
  <2> QED BY <2>1, <2>3, <2>4, <1>1, <1>2, <1>4 DEF FillsMatch
<1>9. ASSUME NEW g \in TradeHolders \ oClash' PROVE ShareMatches(g)' /\ ShareBalance(g)'
  <2>1. g \in TradeHolders \ oClash /\ ShareMatches(g) /\ ShareBalance(g)
    BY <1>2, <1>9 DEF OrderInv
  <2>2. worker'[w] = x /\ \A v \in Workers \ {w} : worker'[v] = worker[v]
    BY <1>0, <1>3, WorkerSet
  <2>3. \A v \in Workers : Writes(worker'[v], g) => v # w /\ Writes(worker[v], g)
    BY <2>2, <1>3 DEF Writes
  <2>4. Writes(worker[w], h)
    BY <1>0, <1>a, <1>b DEF Writes
  <2>5. \A v \in Workers : Writes(worker'[v], g) => g # h /\ owned'[g] = owned[g]
    BY <2>1, <2>3, <2>4, <1>4 DEF ShareMatches
  <2>6. ShareMatches(g)'
    <3>1. \A v \in Workers : Writes(worker'[v], g) =>
            worker'[v].share = owned'[g].amount /\ worker'[v].reserved = owned'[g].reserved
      BY <2>1, <2>2, <2>3, <2>5 DEF ShareMatches
    <3>2. \A u, v \in Workers : Writes(worker'[u], g) /\ Writes(worker'[v], g) => u = v
      BY <2>1, <2>3 DEF ShareMatches
    <3> QED BY <3>1, <3>2 DEF ShareMatches, Writes, Trade!Holder
  <2>7. /\ MovedOf("BUY", g) \in Int /\ MovedOf("SELL", g) \in Int
        /\ MovedOf("BUY", g)' = IF TradeOrder[o].side = "BUY" /\ Trade!Holder(o) = g
                                THEN MovedOf("BUY", g) + f * TradeOrder[o].size
                                ELSE MovedOf("BUY", g)
        /\ MovedOf("SELL", g)' = IF TradeOrder[o].side = "SELL" /\ Trade!Holder(o) = g
                                 THEN MovedOf("SELL", g) + f * TradeOrder[o].size
                                 ELSE MovedOf("SELL", g)
    <3>1. moved \in [TradeOrders -> Nat] /\ moved' = [moved EXCEPT ![o] = @ + f]
      BY <1>0, <1>2, <1>b DEF OrderTyped
    <3>2. \A side : /\ MovedOf(side, g) \in Int
                    /\ MovedOf(side, g)' =
                         IF TradeOrder[o].side = side /\ Trade!Holder(o) = g
                         THEN MovedOf(side, g) + f * TradeOrder[o].size ELSE MovedOf(side, g)
      BY <3>1, <1>1, MovedChanges
    <3> QED BY <3>2
  <2>8. ShareBalance(g)'
    <3>1. CASE g # h
      BY <3>1, <2>1, <2>7, <1>2, <1>4, <1>b DEF ShareBalance
    <3>2. CASE g = h
      <4>1. owned[g].amount = n /\ owned[g].reserved = m
        BY <3>2, <2>1, <2>4, <1>b DEF ShareMatches
      <4>2. /\ n + transferred[g] + MovedOf("SELL", g) = TradeOpening[g] + MovedOf("BUY", g)
            /\ m = pledged[g]
        BY <4>1, <2>1 DEF ShareBalance
      <4>3. transferred[g] \in Nat /\ TradeOpening[g] \in Nat
        BY <1>0, OrderConstants DEF OrderTyped
      <4>4. owned'[g].amount = k /\ owned'[g].reserved = m
        BY <3>2, <1>4
      <4>5. CASE TradeOrder[o].side = "BUY"
        <5>1. /\ MovedOf("BUY", g)' = MovedOf("BUY", g) + q
              /\ MovedOf("SELL", g)' = MovedOf("SELL", g) /\ k = n + q
          BY <4>5, <3>2, <2>7, <1>b, <1>c, <1>d
        <5>2. k + transferred[g] + MovedOf("SELL", g) = TradeOpening[g] + (MovedOf("BUY", g) + q)
          BY <5>1, <4>2, <4>3, <2>7
        <5> QED BY <5>1, <5>2, <4>2, <4>4, <1>2 DEF ShareBalance
      <4>6. CASE TradeOrder[o].side = "SELL"
        <5>1. /\ MovedOf("SELL", g)' = MovedOf("SELL", g) + q
              /\ MovedOf("BUY", g)' = MovedOf("BUY", g) /\ k = n - q
          BY <4>6, <3>2, <2>7, <1>b, <1>c, <1>d
        <5>2. k + transferred[g] + (MovedOf("SELL", g) + q) = TradeOpening[g] + MovedOf("BUY", g)
          BY <5>1, <4>2, <4>3, <2>7
        <5> QED BY <5>1, <5>2, <4>2, <4>4, <1>2 DEF ShareBalance
      <4> QED BY <4>5, <4>6, <1>1, OrderConstants
    <3> QED BY <3>1, <3>2
  <2> QED BY <2>6, <2>8
<1> QED BY <1>1, <1>2, <1>3, <1>5, <1>6, <1>7, <1>8, <1>9, ActsOn

LEMMA ExecuteTradeSettlementStep ==
  ASSUME OrderInv, NEW w \in Workers, NEW o \in TradeOrders,
         NEW f \in 1 .. TradeOrder[o].quantity, Trade!ExecuteTradeSettlement(w, o, f)
  PROVE  OrderInv'
<1>0. /\ OrderTyped /\ worker[w].at = "idle" /\ o \in DOMAIN worker[w].batch
      /\ worker[w].order = Trade!NoOrder
  <2>1. OrderTyped /\ worker[w].at = "idle" /\ o \in DOMAIN worker[w].batch
    BY DEF OrderInv, Trade!ExecuteTradeSettlement, Trade!Takable
  <2> QED BY <2>1, WorkFields DEF WorkMatches
<1>1. Holds(worker[w], o) /\ f \in Nat /\ f > 0
  BY <1>0, OrderConstants DEF Holds
<1>2. /\ row' = row /\ owned' = owned /\ usedLimit' = usedLimit /\ oCall' = oCall
      /\ recorded' = recorded /\ moved' = moved /\ transferred' = transferred
      /\ pledged' = pledged /\ approved' = approved /\ oOverlapped' = oOverlapped
      /\ oClash' = oClash /\ short' = short
      /\ oPaid' = [oPaid EXCEPT ![o] = @ + f]
      /\ commissions' = [commissions EXCEPT ![o] =
                           IF Trade!Charges(o, worker[w].batch[o]) THEN @ + 1 ELSE @]
      /\ \/ worker' = Trade!Takes(w, o, "record", f) /\ oDisturbed' = oDisturbed
         \/ worker' = Trade!Takes(w, o, "postpone", 0) /\ oDisturbed' = oDisturbed \cup {o}
  BY DEF Trade!ExecuteTradeSettlement
<1>3. PICK x \in WorkStates :
        /\ WorkMatches(x) /\ worker' = [worker EXCEPT ![w] = x] /\ x.at # "upsert"
        /\ x.order = o /\ x.copy = worker[w].batch[o]
        /\ DOMAIN x.batch = DOMAIN worker[w].batch \ {o}
        /\ \A p \in DOMAIN x.batch : x.batch[p] = worker[w].batch[p]
        /\ o \notin oDisturbed' => x.at = "record" /\ x.fill = f
  <2>1. CASE worker' = Trade!Takes(w, o, "record", f)
    <3>1. PICK x \in WorkStates :
            /\ WorkMatches(x) /\ worker' = [worker EXCEPT ![w] = x]
            /\ x.at = "record" /\ x.order = o /\ x.copy = worker[w].batch[o] /\ x.fill = f
            /\ DOMAIN x.batch = DOMAIN worker[w].batch \ {o}
            /\ \A p \in DOMAIN x.batch : x.batch[p] = worker[w].batch[p]
      BY <2>1, <1>0, <1>1, TakesTo
    <3> QED BY <3>1
  <2>2. CASE worker' = Trade!Takes(w, o, "postpone", 0) /\ oDisturbed' = oDisturbed \cup {o}
    <3>1. PICK x \in WorkStates :
            /\ WorkMatches(x) /\ worker' = [worker EXCEPT ![w] = x]
            /\ x.at = "postpone" /\ x.order = o /\ x.copy = worker[w].batch[o] /\ x.fill = 0
            /\ DOMAIN x.batch = DOMAIN worker[w].batch \ {o}
            /\ \A p \in DOMAIN x.batch : x.batch[p] = worker[w].batch[p]
      BY <2>2, <1>0, TakesTo
    <3> QED BY <3>1, <2>2
  <2> QED BY <2>1, <2>2, <1>2
<1>4. /\ oPaid' \in [TradeOrders -> Nat] /\ commissions' \in [TradeOrders -> Nat]
      /\ oPaid'[o] = oPaid[o] + f
      /\ commissions'[o] = IF Trade!Charges(o, worker[w].batch[o])
                           THEN commissions[o] + 1 ELSE commissions[o]
      /\ oDisturbed' \subseteq TradeOrders
      /\ \A p \in TradeOrders \ {o} : /\ oPaid'[p] = oPaid[p] /\ commissions'[p] = commissions[p]
                                      /\ (p \in oDisturbed' <=> p \in oDisturbed)
  BY <1>0, <1>1, <1>2 DEF OrderTyped
<1>5. OrderTyped'
  BY <1>0, <1>2, <1>3, <1>4, WorkerSet DEF OrderTyped
<1>6. About(w, x, o)
  BY <1>0, <1>2, <1>3, <1>4, OrderConstants DEF About
<1>7. ASSUME o \notin oOverlapped PROVE CopyIsRow(x, o, row'[o])
  <2>1. CopyIsRow(worker[w], o, row[o])
    BY <1>7, HeldRow
  <2> QED BY <2>1, <1>0, <1>1, <1>2, <1>3 DEF CopyIsRow, Holds
<1>8. ASSUME o \notin oDisturbed' \cup oOverlapped PROVE FillsMatch(o)'
  <2>0. o \in TradeOrders \ oOverlapped
    BY <1>1, <1>8
  <2>1. FillsMatch(o)
    BY <2>0, <1>8, <1>2, HeldRow
  <2>2. /\ \A S : Trade!Pending(o, S) = Carried(worker[w], o, S)
        /\ \A S : Trade!Pending(o, S)' = Carried(x, o, S)
    <3>1. Holds(worker[w], o) /\ WorkMatches(x) /\ worker' = [worker EXCEPT ![w] = x]
      BY <1>1, <1>3
    <3> QED BY <2>0, <3>1, PendingHeld
  <2>3. /\ Trade!Pending(o, {"record"}) = 0
        /\ Trade!Pending(o, {"record"})' = f
        /\ Trade!Pending(o, {"record", "tax", "save"}) = 0
        /\ Trade!Pending(o, {"record", "tax", "save"})' = f
        /\ Trade!Pending(o, MoveSteps) = 0
        /\ Trade!Pending(o, MoveSteps)' = 0
    <3>1. x.order = o /\ x.at = "record" /\ x.fill = f /\ worker[w].order # o
      BY <1>0, <1>3, <1>8, OrderConstants
    <3> QED BY <2>2, <3>1 DEF Carried, MoveSteps
  <2>4. oPaid[o] \in Nat /\ recorded[o] \in Nat /\ row[o].filled \in Nat /\ moved[o] \in Nat
    BY <1>0, <1>1, RowTyped DEF OrderTyped
  <2>5. worker[w].batch[o] = row[o] /\ oPaid[o] = row[o].filled
    <3>1. CopyIsRow(worker[w], o, row[o])
      BY <2>0, HeldRow
    <3> QED BY <3>1, <2>1, <2>3, <2>4, <1>0 DEF CopyIsRow, FillsMatch
  <2>6. commissions'[o] = IF oPaid'[o] = 0 \/ TradeOrder[o].exempt THEN 0 ELSE 1
    <3>1. oPaid'[o] # 0 /\ oPaid[o] \in Nat
      BY <2>4, <1>1, <1>4
    <3>2. commissions[o] = IF oPaid[o] = 0 \/ TradeOrder[o].exempt THEN 0 ELSE 1
      BY <2>1 DEF FillsMatch
    <3>3. Trade!Charges(o, row[o]) <=> ~ TradeOrder[o].exempt /\ oPaid[o] = 0
      <4>1. row[o].charged <=> row[o].filled > 0 /\ ~ TradeOrder[o].exempt
        BY <2>1 DEF FillsMatch
      <4>2. row[o].filled > 0 <=> oPaid[o] # 0
        BY <2>5, <2>4
      <4> QED BY <4>1, <4>2 DEF Trade!Charges
    <3> QED BY <3>1, <3>2, <3>3, <2>5, <1>4
  <2> QED BY <2>1, <2>3, <2>4, <2>5, <2>6, <1>1, <1>2, <1>4 DEF FillsMatch
<1>9. \A h \in TradeHolders \ oClash' : ShareMatches(h)' /\ ShareBalance(h)'
  BY <1>0, <1>2, <1>3, SharesKept DEF SharesRest
<1> QED BY <1>1, <1>2, <1>3, <1>5, <1>6, <1>7, <1>8, <1>9, ActsOn

\* What is placed is approved or pending, and nothing else of it or of others changes.
LEMMA PlaceRowKeeps ==
  ASSUME OrderInv, NEW o \in TradeOrders, NEW s \in {"PENDING", "APPROVED"}, Trade!PlaceRow(o, s)
  PROVE  /\ owned' = owned /\ oCall' = oCall /\ oPaid' = oPaid /\ recorded' = recorded
         /\ moved' = moved /\ commissions' = commissions /\ transferred' = transferred
         /\ pledged' = pledged /\ oDisturbed' = oDisturbed /\ oOverlapped' = oOverlapped
         /\ oClash' = oClash /\ short' = short
         /\ row' = [row EXCEPT ![o].status = s]
         /\ row' \in [TradeOrders -> Trade!Rows] /\ usedLimit' \in Nat /\ approved' \in Nat
         /\ row[o].status = "NONE" /\ row'[o].status = s
         /\ row'[o].filled = row[o].filled /\ row'[o].charged = row[o].charged
         /\ \A p \in TradeOrders \ {o} : row'[p] = row[p]
         /\ o \notin oOverlapped =>
              /\ \A w \in Workers : ~ Holds(worker[w], o)
              /\ \A c \in OrderCalls : oCall[c].order # o
<1>1. /\ owned' = owned /\ oCall' = oCall /\ oPaid' = oPaid /\ recorded' = recorded
      /\ moved' = moved /\ commissions' = commissions /\ transferred' = transferred
      /\ pledged' = pledged /\ oDisturbed' = oDisturbed /\ oOverlapped' = oOverlapped
      /\ oClash' = oClash /\ short' = short
      /\ row' = [row EXCEPT ![o].status = s] /\ row[o].status = "NONE"
      /\ usedLimit' = IF s = "APPROVED" THEN Trade!UsedLimitAfter(o) ELSE usedLimit
      /\ approved' = IF s = "APPROVED" /\ TradeOrder[o].by = "agent" /\ TradeOrder[o].side = "BUY"
                     THEN approved + Trade!Value(o) ELSE approved
  BY DEF Trade!PlaceRow
<1>2. OrderTyped
  BY DEF OrderInv
<1>3. row \in [TradeOrders -> Trade!Rows] /\ usedLimit \in Nat /\ approved \in Nat
  BY <1>2 DEF OrderTyped
<1>4. TradeOrder[o].quantity \in Nat /\ Trade!Value(o) \in Nat
  <2>1. PICK q \in Nat, z \in Nat : q = TradeOrder[o].quantity /\ z = TradeOrder[o].size
    BY OrderConstants
  <2>2. q * z \in Nat
    OBVIOUS
  <2> QED BY <2>1, <2>2 DEF Trade!Value
<1>5. usedLimit' \in Nat /\ approved' \in Nat
  BY <1>1, <1>3, <1>4 DEF Trade!UsedLimitAfter
<1>6. /\ row' \in [TradeOrders -> Trade!Rows]
      /\ row'[o].status = s
      /\ row'[o].filled = row[o].filled /\ row'[o].charged = row[o].charged
      /\ \A p \in TradeOrders \ {o} : row'[p] = row[p]
  <2>1. PICK r \in Trade!Rows : r = row[o]
    BY <1>3
  <2>2. [r EXCEPT !.status = s] \in Trade!Rows
    BY DEF Trade!Rows
  <2>3. /\ [r EXCEPT !.status = s].status = s /\ [r EXCEPT !.status = s].filled = r.filled
        /\ [r EXCEPT !.status = s].charged = r.charged
    BY DEF Trade!Rows
  <2>4. row' = [row EXCEPT ![o] = [r EXCEPT !.status = s]]
    BY <1>1, <1>3, <2>1
  <2> HIDE <1>1
  <2> QED BY <2>1, <2>2, <2>3, <2>4, <1>3
<1>7. o \notin oOverlapped =>
              /\ \A w \in Workers : ~ Holds(worker[w], o)
              /\ \A c \in OrderCalls : oCall[c].order # o
  BY <1>1 DEF OrderInv, CopiesMatch, CopyIsRow, CallIsRow
<1> QED BY <1>1, <1>5, <1>6, <1>7

LEMMA LiquidationStep ==
  ASSUME OrderInv, NEW w \in Workers, NEW o \in TradeOrders, worker[w] = Trade!IdleWork,
         Trade!PlaceRow(o, "APPROVED"),
         worker' = [worker EXCEPT ![w].batch = [p \in {o} |-> [row[o] EXCEPT !.status = "APPROVED"]]]
  PROVE  OrderInv'
<1>0. /\ OrderTyped /\ worker[w] = Trade!IdleWork /\ Trade!PlaceRow(o, "APPROVED")
      /\ worker' = [worker EXCEPT ![w].batch =
                      [p \in {o} |-> [row[o] EXCEPT !.status = "APPROVED"]]]
  BY DEF OrderInv
<1>1. /\ worker[w].at = "idle" /\ worker[w].order = Trade!NoOrder
      /\ worker[w].copy = Trade!NoRow /\ worker[w].fill = 0 /\ worker[w].share = 0
      /\ worker[w].reserved = 0 /\ worker[w].batch = <<>>
  BY <1>0 DEF Trade!IdleWork
<1>2. /\ owned' = owned /\ oCall' = oCall /\ oPaid' = oPaid /\ recorded' = recorded
      /\ moved' = moved /\ commissions' = commissions /\ transferred' = transferred
      /\ pledged' = pledged /\ oDisturbed' = oDisturbed /\ oOverlapped' = oOverlapped
      /\ oClash' = oClash /\ short' = short
      /\ row' = [row EXCEPT ![o].status = "APPROVED"]
      /\ row' \in [TradeOrders -> Trade!Rows] /\ usedLimit' \in Nat /\ approved' \in Nat
      /\ row'[o].status = "APPROVED"
      /\ row'[o].filled = row[o].filled /\ row'[o].charged = row[o].charged
      /\ \A p \in TradeOrders \ {o} : row'[p] = row[p]
      /\ o \notin oOverlapped =>
           /\ \A v \in Workers : ~ Holds(worker[v], o)
           /\ \A c \in OrderCalls : oCall[c].order # o
  BY <1>0, PlaceRowKeeps
<1>b. PICK b : b = [p \in {o} |-> row'[o]]
  OBVIOUS
<1>c. /\ b \in Batches /\ DOMAIN b = {o} /\ b[o] = row'[o]
      /\ b = [p \in {o} |-> [row[o] EXCEPT !.status = "APPROVED"]]
  <2>1. row'[o] = [row[o] EXCEPT !.status = "APPROVED"]
    BY <1>0, <1>2 DEF OrderTyped
  <2>2. row'[o] \in Trade!Rows
    BY <1>2
  <2>3. b \in [{o} -> Trade!Rows]
    BY <2>2, <1>b
  <2> QED BY <2>1, <2>3, <1>b DEF Batches
<1>3. PICK x \in WorkStates :
        /\ WorkMatches(x) /\ worker' = [worker EXCEPT ![w] = x]
        /\ x.at = "idle" /\ x.order = Trade!NoOrder /\ x.batch = b
  <2> DEFINE s == Work("idle", Trade!NoOrder, Trade!NoRow, 0, 0, 0, b)
  <2>1. s \in WorkStates
    BY <1>c, NoRowTyped DEF Work, WorkStates, WorkSteps
  <2>2. s.at = "idle" /\ s.order = Trade!NoOrder /\ s.batch = b
    BY DEF Work
  <2>3. WorkMatches(s)
    BY <2>2, <1>c, AtSteps, OrderConstants DEF WorkMatches
  <2>4. [worker[w] EXCEPT !.batch = b] = s
    <3>1. worker[w] = Work("idle", Trade!NoOrder, Trade!NoRow, 0, 0, 0, <<>>)
      BY <1>0 DEF Trade!IdleWork, Work
    <3> QED BY <3>1, WorkSetBatch
  <2>5. worker' = [worker EXCEPT ![w] = [worker[w] EXCEPT !.batch = b]]
    BY <1>0, <1>c DEF OrderTyped
  <2> HIDE DEF s
  <2> QED BY <2>1, <2>2, <2>3, <2>4, <2>5
<1>5. OrderTyped'
  BY <1>0, <1>2, <1>3, WorkerSet DEF OrderTyped
<1>6. About(w, x, o)
  BY <1>1, <1>2, <1>3, <1>c, OrderConstants DEF About
<1>7. ASSUME o \notin oOverlapped PROVE CopyIsRow(x, o, row'[o])
  BY <1>2, <1>3, <1>c, OrderConstants DEF CopyIsRow
<1>8. ASSUME o \notin oDisturbed' \cup oOverlapped PROVE FillsMatch(o)'
  <2>0. o \in TradeOrders \ oOverlapped
    BY <1>8
  <2>1. FillsMatch(o)
    BY <2>0, <1>8, <1>2, HeldRow
  <2>2. /\ \A S : Trade!Pending(o, S) = Carried(worker[w], o, S)
        /\ \A S : Trade!Pending(o, S)' = Carried(x, o, S)
    <3>1. Lone(w, o) /\ WorkMatches(x) /\ worker' = [worker EXCEPT ![w] = x]
      BY <2>0, <1>2, <1>3 DEF Lone
    <3> QED BY <2>0, <3>1, PendingHeld
  <2>3. \A S : Trade!Pending(o, S) = 0 /\ Trade!Pending(o, S)' = 0
    <3>1. worker[w].order # o /\ x.order # o
      BY <1>1, <1>3, OrderConstants
    <3> QED BY <2>2, <3>1 DEF Carried
  <2>4. \A S : Trade!Pending(o, S)' = Trade!Pending(o, S)
    BY <2>3
  <2> QED BY <2>1, <2>4, <1>2 DEF FillsMatch
<1>9. \A h \in TradeHolders \ oClash' : ShareMatches(h)' /\ ShareBalance(h)'
  BY <1>0, <1>2, <1>3, SharesKept DEF SharesRest
<1>10. o \notin oOverlapped => Lone(w, o)
  BY <1>2 DEF Lone
<1> QED BY <1>2, <1>3, <1>5, <1>6, <1>7, <1>8, <1>9, <1>10, ActsOn

\* A step in which no worker acts: what an order's holders hold, and what is written of
\* an ownership, stays.
LEMMA PendingKept == worker' = worker => \A o, S : Trade!Pending(o, S)' = Trade!Pending(o, S)
BY DEF Trade!Pending

LEMMA SharesIdle ==
  ASSUME OrderInv, worker' = worker, SharesRest
  PROVE  \A h \in TradeHolders \ oClash' : ShareMatches(h)' /\ ShareBalance(h)'
<1> TAKE h \in TradeHolders \ oClash'
<1>1. h \in TradeHolders \ oClash /\ ShareMatches(h) /\ ShareBalance(h)
  BY DEF OrderInv, SharesRest
<1>2. ShareMatches(h)'
  BY <1>1 DEF ShareMatches, Writes, Trade!Holder, SharesRest
<1> QED BY <1>1, <1>2, BalanceKept DEF SharesRest

LEMMA PlaceRowStep ==
  ASSUME OrderInv, NEW o \in TradeOrders, NEW s \in {"PENDING", "APPROVED"},
         Trade!PlaceRow(o, s), worker' = worker
  PROVE  OrderInv'
<1>0. Trade!PlaceRow(o, s) /\ worker' = worker
  OBVIOUS
<1>1. OrderTyped
  BY DEF OrderInv
<1>2. /\ owned' = owned /\ oCall' = oCall /\ oPaid' = oPaid /\ recorded' = recorded
      /\ moved' = moved /\ commissions' = commissions /\ transferred' = transferred
      /\ pledged' = pledged /\ oDisturbed' = oDisturbed /\ oOverlapped' = oOverlapped
      /\ oClash' = oClash /\ short' = short
      /\ row' \in [TradeOrders -> Trade!Rows] /\ usedLimit' \in Nat /\ approved' \in Nat
      /\ row'[o].filled = row[o].filled /\ row'[o].charged = row[o].charged
      /\ \A p \in TradeOrders \ {o} : row'[p] = row[p]
      /\ o \notin oOverlapped =>
           /\ \A v \in Workers : ~ Holds(worker[v], o)
           /\ \A c \in OrderCalls : oCall[c].order # o
  BY <1>0, PlaceRowKeeps
<1>3. OrderTyped'
  BY <1>0, <1>1, <1>2 DEF OrderTyped, WorkMatches
<1>4. ASSUME NEW p \in TradeOrders \ oOverlapped' PROVE OneHolder(p)' /\ CopiesMatch(p)'
  <2>1. OneHolder(p) /\ CopiesMatch(p) /\ p \notin oOverlapped
    BY <1>2 DEF OrderInv
  <2>2. OneHolder(p)'
    BY <2>1, <1>0, <1>2 DEF OneHolder, Holds
  <2>3. CASE p # o
    <3>1. row'[p] = row[p]
      BY <2>3, <1>2
    <3> QED BY <3>1, <2>1, <2>2, <1>0, <1>2 DEF CopiesMatch, CopyIsRow, CallIsRow, Holds
  <2>4. CASE p = o
    <3>1. \A v \in Workers : ~ Holds(worker'[v], p)
      BY <2>1, <2>4, <1>0, <1>2
    <3>2. \A c \in OrderCalls : oCall'[c].order # p
      BY <2>1, <2>4, <1>2
    <3> QED BY <3>1, <3>2, <2>2 DEF CopiesMatch, CopyIsRow, CallIsRow, Holds
  <2> QED BY <2>3, <2>4
<1>5. ASSUME NEW p \in TradeOrders \ (oDisturbed' \cup oOverlapped') PROVE FillsMatch(p)'
  <2>1. FillsMatch(p) /\ row'[p].filled = row[p].filled /\ row'[p].charged = row[p].charged
    BY <1>2 DEF OrderInv
  <2>2. \A S : Trade!Pending(p, S)' = Trade!Pending(p, S)
    BY <1>0, PendingKept
  <2> QED BY <2>1, <2>2, <1>2 DEF FillsMatch
<1>6. \A h \in TradeHolders \ oClash' : ShareMatches(h)' /\ ShareBalance(h)'
  BY <1>0, <1>2, SharesIdle DEF SharesRest
<1> QED BY <1>3, <1>4, <1>5, <1>6 DEF OrderInv

LEMMA NoOrderMoves ==
  ASSUME OrderInv, usedLimit' \in Nat, approved' \in Nat,
         row' = row, owned' = owned, worker' = worker, oCall' = oCall, oPaid' = oPaid,
         recorded' = recorded, moved' = moved, commissions' = commissions,
         transferred' = transferred, pledged' = pledged, oDisturbed' = oDisturbed,
         oOverlapped' = oOverlapped, oClash' = oClash, short' = short
  PROVE  OrderInv'
<1>1. OrderTyped'
  BY DEF OrderInv, OrderTyped, WorkMatches
<1>2. \A p \in TradeOrders \ oOverlapped' : OneHolder(p)' /\ CopiesMatch(p)'
  BY DEF OrderInv, OneHolder, CopiesMatch, CopyIsRow, CallIsRow, Holds
<1>3. ASSUME NEW p \in TradeOrders \ (oDisturbed' \cup oOverlapped') PROVE FillsMatch(p)'
  <2>1. FillsMatch(p)
    BY DEF OrderInv
  <2>2. \A S : Trade!Pending(p, S)' = Trade!Pending(p, S)
    BY PendingKept
  <2> QED BY <2>1, <2>2 DEF FillsMatch
<1>4. \A h \in TradeHolders \ oClash' : ShareMatches(h)' /\ ShareBalance(h)'
  BY SharesIdle DEF SharesRest
<1> QED BY <1>1, <1>2, <1>3, <1>4 DEF OrderInv

LEMMA ResetUsedLimitStep ==
  ASSUME OrderInv, Trade!ResetUsedLimit
  PROVE  OrderInv'
BY NoOrderMoves DEF Trade!ResetUsedLimit

\* What a request comes to hold when a step sets it to y.
LEMMA CallSet ==
  ASSUME OrderTyped, NEW c \in OrderCalls, NEW y \in CallStates,
         y.op = "idle" <=> y.order = Trade!NoOrder, oCall' = [oCall EXCEPT ![c] = y]
  PROVE  /\ oCall' \in [OrderCalls -> CallStates] /\ oCall'[c] = y
         /\ \A d \in OrderCalls : oCall'[d].op = "idle" <=> oCall'[d].order = Trade!NoOrder
         /\ \A d \in OrderCalls \ {c} : oCall'[d] = oCall[d]
<1>1. oCall \in [OrderCalls -> CallStates]
      /\ \A d \in OrderCalls : oCall[d].op = "idle" <=> oCall[d].order = Trade!NoOrder
  BY DEF OrderTyped
<1>2. /\ oCall' \in [OrderCalls -> CallStates] /\ oCall'[c] = y
      /\ \A d \in OrderCalls \ {c} : oCall'[d] = oCall[d]
  BY <1>1
<1>3. ASSUME NEW d \in OrderCalls
      PROVE  oCall'[d].op = "idle" <=> oCall'[d].order = Trade!NoOrder
  <2>1. CASE d = c
    BY <2>1, <1>2
  <2>2. CASE d # c
    BY <2>2, <1>1, <1>2
  <2> QED BY <2>1, <2>2
<1> QED BY <1>2, <1>3

\* Request c, which alone may act on order o, keeps or lets it go.
LEMMA CallHolds ==
  ASSUME OrderTyped, NEW c \in OrderCalls, NEW y \in CallStates,
         y.op = "idle" <=> y.order = Trade!NoOrder, oCall' = [oCall EXCEPT ![c] = y],
         worker' = worker,
         NEW o \in TradeOrders, OneHolder(o), CopiesMatch(o),
         \/ oCall[c].order = o \/ (row'[o] = row[o] /\ y.order # o)
         \/ (/\ \A v \in Workers : ~ Holds(worker[v], o)
             /\ \A d \in OrderCalls \ {c} : oCall[d].order # o),
         CallIsRow(y, o, row'[o])
  PROVE  OneHolder(o)' /\ CopiesMatch(o)'
<1>1. oCall'[c] = y /\ \A d \in OrderCalls \ {c} : oCall'[d] = oCall[d]
  BY CallSet
<1>2. \/ (row'[o] = row[o] /\ y.order # o)
      \/ (/\ \A v \in Workers : ~ Holds(worker[v], o)
          /\ \A d \in OrderCalls \ {c} : oCall[d].order # o)
  BY DEF OneHolder
<1>3. \A v \in Workers : CopyIsRow(worker'[v], o, row'[o])
  BY <1>2 DEF CopiesMatch, CopyIsRow, Holds
<1>4. \A d \in OrderCalls : CallIsRow(oCall'[d], o, row'[o])
  <2> TAKE d \in OrderCalls
  <2>1. CASE d = c
    BY <2>1, <1>1
  <2>2. CASE d # c
    BY <2>2, <1>1, <1>2 DEF CopiesMatch, CallIsRow
  <2> QED BY <2>1, <2>2
<1>5. \A d, e \in OrderCalls : oCall'[d].order = o /\ oCall'[e].order = o => d = e
  BY <1>1, <1>2 DEF OneHolder
<1>6. \A v \in Workers, d \in OrderCalls : ~ (Holds(worker[v], o) /\ oCall'[d].order = o)
  <2> TAKE v \in Workers, d \in OrderCalls
  <2>1. CASE d = c
    BY <2>1, <1>1, <1>2
  <2>2. CASE d # c
    BY <2>2, <1>1 DEF OneHolder
  <2> QED BY <2>1, <2>2
<1>7. OneHolder(o)'
  BY <1>5, <1>6 DEF OneHolder, Holds
<1> QED BY <1>3, <1>4, <1>7 DEF CopiesMatch, CopyIsRow, CallIsRow, Holds

\* A step of request c that leaves the workers and all counts alone.
LEMMA CallActs ==
  ASSUME OrderInv, NEW c \in OrderCalls, NEW y \in CallStates,
         y.op = "idle" <=> y.order = Trade!NoOrder, oCall' = [oCall EXCEPT ![c] = y],
         row' \in [TradeOrders -> Trade!Rows], usedLimit' \in Nat, oOverlapped \subseteq oOverlapped',
         oOverlapped' \subseteq TradeOrders,
         worker' = worker, owned' = owned, approved' = approved, oPaid' = oPaid,
         recorded' = recorded, moved' = moved, commissions' = commissions,
         transferred' = transferred, pledged' = pledged, oDisturbed' = oDisturbed,
         oClash' = oClash, short' = short,
         \A o \in TradeOrders \ oOverlapped' :
           /\ \/ oCall[c].order = o \/ (row'[o] = row[o] /\ y.order # o)
              \/ (/\ \A v \in Workers : ~ Holds(worker[v], o)
                  /\ \A d \in OrderCalls \ {c} : oCall[d].order # o)
           /\ CallIsRow(y, o, row'[o])
           /\ row'[o].filled = row[o].filled /\ row'[o].charged = row[o].charged
  PROVE  OrderInv'
<1>1. OrderTyped
  BY DEF OrderInv
<1>2. OrderTyped'
  <2>1. /\ oCall' \in [OrderCalls -> CallStates]
        /\ \A d \in OrderCalls : oCall'[d].op = "idle" <=> oCall'[d].order = Trade!NoOrder
    BY <1>1, CallSet
  <2> QED BY <1>1, <2>1 DEF OrderTyped, WorkMatches
<1>3. ASSUME NEW o \in TradeOrders \ oOverlapped' PROVE OneHolder(o)' /\ CopiesMatch(o)'
  <2>1. OneHolder(o) /\ CopiesMatch(o) /\ o \in TradeOrders
    BY DEF OrderInv
  <2>2. /\ \/ oCall[c].order = o \/ (row'[o] = row[o] /\ y.order # o)
           \/ (/\ \A v \in Workers : ~ Holds(worker[v], o)
               /\ \A d \in OrderCalls \ {c} : oCall[d].order # o)
        /\ CallIsRow(y, o, row'[o])
    OBVIOUS
  <2> QED BY <1>1, <2>1, <2>2, CallHolds
<1>4. ASSUME NEW p \in TradeOrders \ (oDisturbed' \cup oOverlapped') PROVE FillsMatch(p)'
  <2>1. FillsMatch(p) /\ row'[p].filled = row[p].filled /\ row'[p].charged = row[p].charged
    BY DEF OrderInv
  <2>2. \A S : Trade!Pending(p, S)' = Trade!Pending(p, S)
    BY PendingKept
  <2> QED BY <2>1, <2>2 DEF FillsMatch
<1>5. \A h \in TradeHolders \ oClash' : ShareMatches(h)' /\ ShareBalance(h)'
  BY SharesIdle DEF SharesRest
<1> QED BY <1>2, <1>3, <1>4, <1>5 DEF OrderInv

\* Of the orders a comes to hold, those that are not overlapped are held by nobody else.
LEMMA OverlapFree ==
  ASSUME NEW a, NEW S, Trade!Overlap(a, S), NEW o \in S, o \notin oOverlapped'
  PROVE  /\ \A v \in Workers \ {a} : ~ Holds(worker[v], o)
         /\ \A d \in OrderCalls \ {a} : oCall[d].order # o
BY DEF Trade!Overlap, Trade!HeldByOther, Holds

LEMMA ReadOrderStep ==
  ASSUME OrderInv, NEW c \in OrderCalls, NEW op \in {"approve", "decline", "cancel"},
         NEW o \in TradeOrders, Trade!ReadOrder(c, op, o)
  PROVE  OrderInv'
<1>1. OrderTyped /\ row \in [TradeOrders -> Trade!Rows]
  BY DEF OrderInv, OrderTyped
<1>2. PICK y \in CallStates : y = [op |-> op, order |-> o, copy |-> row[o]]
  BY <1>1 DEF CallStates
<1>3. y.op = op /\ y.order = o /\ y.copy = row[o]
  BY <1>2
<1>4. y.op = "idle" <=> y.order = Trade!NoOrder
  BY <1>3, OrderConstants
<1>5. /\ row' = row /\ owned' = owned /\ usedLimit' = usedLimit /\ worker' = worker
      /\ oPaid' = oPaid /\ recorded' = recorded /\ moved' = moved
      /\ commissions' = commissions /\ transferred' = transferred /\ pledged' = pledged
      /\ approved' = approved /\ oDisturbed' = oDisturbed /\ oClash' = oClash /\ short' = short
      /\ oCall' = [oCall EXCEPT ![c] = y] /\ Trade!Overlap(c, {o}) /\ Trade!MayBegin(op, o)
  BY <1>2 DEF Trade!ReadOrder
<1>6. oOverlapped \subseteq oOverlapped' /\ oOverlapped' \subseteq TradeOrders
  BY <1>1, <1>5 DEF Trade!Overlap, OrderTyped
<1>7. row[o].status \in {"PENDING", "APPROVED"}
  BY <1>5 DEF Trade!MayBegin
<1>8. Workers \ {c} = Workers
  BY OrderConstants
<1>9. ASSUME NEW p \in TradeOrders \ oOverlapped'
      PROVE  /\ \/ (row'[p] = row[p] /\ y.order # p)
                \/ (/\ \A v \in Workers : ~ Holds(worker[v], p)
                    /\ \A d \in OrderCalls \ {c} : oCall[d].order # p)
             /\ CallIsRow(y, p, row'[p])
  <2>1. CASE p # o
    BY <2>1, <1>3, <1>5 DEF CallIsRow
  <2>2. CASE p = o
    <3>1. /\ \A v \in Workers : ~ Holds(worker[v], p)
          /\ \A d \in OrderCalls \ {c} : oCall[d].order # p
      <4>1. o \in {o} /\ o \notin oOverlapped'
        BY <2>2
      <4>2. /\ \A v \in Workers \ {c} : ~ Holds(worker[v], o)
            /\ \A d \in OrderCalls \ {c} : oCall[d].order # o
        BY <4>1, <1>5, OverlapFree
      <4> QED BY <4>2, <2>2, <1>8
    <3> QED BY <3>1, <2>2, <1>3, <1>5, <1>7 DEF CallIsRow
  <2> QED BY <2>1, <2>2
<1>10. usedLimit' \in Nat /\ row' \in [TradeOrders -> Trade!Rows]
  BY <1>1, <1>5 DEF OrderTyped
<1>11. \A p \in TradeOrders \ oOverlapped' :
           /\ \/ oCall[c].order = p \/ (row'[p] = row[p] /\ y.order # p)
              \/ (/\ \A v \in Workers : ~ Holds(worker[v], p)
                  /\ \A d \in OrderCalls \ {c} : oCall[d].order # p)
           /\ CallIsRow(y, p, row'[p])
           /\ row'[p].filled = row[p].filled /\ row'[p].charged = row[p].charged
  BY <1>9, <1>5
<1> QED BY <1>4, <1>5, <1>6, <1>10, <1>11, CallActs

LEMMA SaveOrderStep ==
  ASSUME OrderInv, NEW c \in OrderCalls, Trade!SaveOrder(c)
  PROVE  OrderInv'
<1>1. OrderTyped /\ row \in [TradeOrders -> Trade!Rows] /\ usedLimit \in Nat
  BY DEF OrderInv, OrderTyped
<1>2. PICK y \in CallStates : y = Trade!IdleCall
  BY NoRowTyped DEF CallStates, Trade!IdleCall
<1>3. y.op = "idle" /\ y.order = Trade!NoOrder
  BY <1>2 DEF Trade!IdleCall
<1>4. PICK o \in TradeOrders, k \in Trade!Rows : o = oCall[c].order /\ k = oCall[c].copy
  <2>1. oCall[c].op # "idle" /\ oCall[c] \in CallStates
        /\ (oCall[c].op = "idle" <=> oCall[c].order = Trade!NoOrder)
    BY <1>1 DEF Trade!SaveOrder, OrderTyped
  <2> QED BY <2>1 DEF CallStates
<1>5. PICK d \in Trade!Rows : /\ d = Trade!Reviewed(c)
                              /\ d.filled = k.filled /\ d.charged = k.charged
  <2>1. [k EXCEPT !.status = "APPROVED"] \in Trade!Rows
        /\ [k EXCEPT !.status = "APPROVED"].filled = k.filled
        /\ [k EXCEPT !.status = "APPROVED"].charged = k.charged
    BY DEF Trade!Rows
  <2>2. Trade!Reviewed(c) \in {[k EXCEPT !.status = "APPROVED"], Trade!Declined(k)}
    BY <1>4 DEF Trade!Reviewed
  <2> QED BY <2>1, <2>2, DeclinedTyped
<1>6. /\ owned' = owned /\ worker' = worker
      /\ oPaid' = oPaid /\ recorded' = recorded /\ moved' = moved
      /\ commissions' = commissions /\ transferred' = transferred /\ pledged' = pledged
      /\ approved' = approved /\ oDisturbed' = oDisturbed /\ oOverlapped' = oOverlapped
      /\ oClash' = oClash /\ short' = short
      /\ oCall' = [oCall EXCEPT ![c] = y] /\ row' \in {row, [row EXCEPT ![o] = d]}
      /\ usedLimit' = IF oCall[c].op = "approve" THEN Trade!UsedLimitAfter(o) ELSE usedLimit
  BY <1>2, <1>4, <1>5 DEF Trade!SaveOrder, Trade!history
<1>7. usedLimit' \in Nat
  BY <1>1, <1>6, OrderConstants DEF Trade!UsedLimitAfter
<1>8. /\ row' \in [TradeOrders -> Trade!Rows]
      /\ \A p \in TradeOrders \ {o} : row'[p] = row[p]
      /\ row'[o] \in {row[o], d}
  BY <1>1, <1>6
<1>9. ASSUME NEW p \in TradeOrders \ oOverlapped'
      PROVE  /\ oCall[c].order = p \/ (row'[p] = row[p] /\ y.order # p)
             /\ CallIsRow(y, p, row'[p])
             /\ row'[p].filled = row[p].filled /\ row'[p].charged = row[p].charged
  <2>1. y.order # p
    BY <1>3, OrderConstants
  <2>2. CASE p # o
    BY <2>1, <2>2, <1>8 DEF CallIsRow
  <2>3. CASE p = o
    <3>1. CallIsRow(oCall[c], p, row[p])
      BY <1>6 DEF OrderInv, CopiesMatch
    <3>2. k = row[o]
      BY <3>1, <2>3, <1>4 DEF CallIsRow
    <3>3. row'[p].filled = row[p].filled /\ row'[p].charged = row[p].charged
      BY <3>2, <2>3, <1>5, <1>8
    <3> QED BY <3>3, <2>1, <2>3, <1>4 DEF CallIsRow
  <2> QED BY <2>2, <2>3
<1>10. \A p \in TradeOrders \ oOverlapped' :
           /\ \/ oCall[c].order = p \/ (row'[p] = row[p] /\ y.order # p)
              \/ (/\ \A v \in Workers : ~ Holds(worker[v], p)
                  /\ \A e \in OrderCalls \ {c} : oCall[e].order # p)
           /\ CallIsRow(y, p, row'[p])
           /\ row'[p].filled = row[p].filled /\ row'[p].charged = row[p].charged
  BY <1>9
<1>11. y.op = "idle" <=> y.order = Trade!NoOrder
  BY <1>3
<1>12. oOverlapped \subseteq oOverlapped' /\ oOverlapped' \subseteq TradeOrders
  BY <1>1, <1>6 DEF OrderTyped
<1> QED BY <1>6, <1>7, <1>8, <1>10, <1>11, <1>12, CallActs

LEMMA PlaceOrderStep ==
  ASSUME OrderInv, NEW o \in TradeOrders, Trade!PlaceOrder(o)
  PROVE  OrderInv'
<1>1. PICK s \in {"PENDING", "APPROVED"} : Trade!PlaceRow(o, s) /\ worker' = worker
  BY DEF Trade!PlaceOrder, Trade!ResolvedStatus
<1> QED BY <1>1, PlaceRowStep

LEMMA LiquidateFundStep ==
  ASSUME OrderInv, NEW w \in Workers, NEW o \in TradeOrders, Trade!LiquidateFund(w, o)
  PROVE  OrderInv'
<1>1. CASE Trade!PlaceRow(o, "PENDING") /\ worker' = worker
  BY <1>1, PlaceRowStep
<1>2. CASE ~ (Trade!PlaceRow(o, "PENDING") /\ worker' = worker)
  BY <1>2, LiquidationStep DEF Trade!LiquidateFund
<1> QED BY <1>1, <1>2

LEMMA FindReadyStep ==
  ASSUME OrderInv, Trade!FindReadyForExecution
  PROVE  OrderInv'
<1>0. OrderTyped /\ Loop \in Workers /\ worker[Loop] = Trade!IdleWork
  BY OrderConstants DEF OrderInv, Trade!FindReadyForExecution
<1>1. PICK S \in SUBSET TradeOrders :
        /\ \A o \in S : row[o].status = "APPROVED"
        /\ worker' = [worker EXCEPT ![Loop].batch = [o \in S |-> row[o]]]
        /\ Trade!Overlap(Loop, S)
  BY DEF Trade!FindReadyForExecution, Trade!Due
<1>2. /\ row' = row /\ owned' = owned /\ usedLimit' = usedLimit /\ oCall' = oCall
      /\ oPaid' = oPaid /\ recorded' = recorded /\ moved' = moved
      /\ commissions' = commissions /\ transferred' = transferred /\ pledged' = pledged
      /\ approved' = approved /\ oDisturbed' = oDisturbed /\ oClash' = oClash /\ short' = short
  BY DEF Trade!FindReadyForExecution
<1>3. PICK b \in Batches : b = [o \in S |-> row[o]]
  <2>1. [o \in S |-> row[o]] \in [S -> Trade!Rows]
    BY <1>0 DEF OrderTyped
  <2> QED BY <2>1 DEF Batches
<1>b. DOMAIN b = S /\ \A o \in S : b[o] = row[o]
  BY <1>3
<1>4. PICK x \in WorkStates :
        /\ WorkMatches(x) /\ worker' = [worker EXCEPT ![Loop] = x]
        /\ x.at = "idle" /\ x.order = Trade!NoOrder /\ x.batch = b
  <2> DEFINE s == Work("idle", Trade!NoOrder, Trade!NoRow, 0, 0, 0, b)
  <2>1. s \in WorkStates
    BY NoRowTyped DEF Work, WorkStates, WorkSteps
  <2>2. s.at = "idle" /\ s.order = Trade!NoOrder /\ s.batch = b
    BY DEF Work
  <2>3. WorkMatches(s)
    BY <2>2, <1>b, AtSteps, OrderConstants DEF WorkMatches
  <2>4. [worker[Loop] EXCEPT !.batch = b] = s
    <3>1. worker[Loop] = Work("idle", Trade!NoOrder, Trade!NoRow, 0, 0, 0, <<>>)
      BY <1>0 DEF Trade!IdleWork, Work
    <3> QED BY <3>1, WorkSetBatch
  <2>5. worker' = [worker EXCEPT ![Loop] = [worker[Loop] EXCEPT !.batch = b]]
    BY <1>0, <1>1, <1>3 DEF OrderTyped
  <2> HIDE DEF s
  <2> QED BY <2>1, <2>2, <2>3, <2>4, <2>5
<1>5. oOverlapped \subseteq oOverlapped' /\ oOverlapped' \subseteq TradeOrders
  BY <1>0, <1>1 DEF Trade!Overlap, OrderTyped
<1>6. OrderTyped'
  BY <1>0, <1>2, <1>4, <1>5, WorkerSet DEF OrderTyped
<1>7. OrderCalls \ {Loop} = OrderCalls
  BY OrderConstants
<1>8. \A o : worker[Loop].order # o \/ o = Trade!NoOrder
  BY <1>0 DEF Trade!IdleWork
<1>9. ASSUME NEW o \in TradeOrders \ oOverlapped' PROVE OneHolder(o)' /\ CopiesMatch(o)'
  <2>1. OneHolder(o) /\ CopiesMatch(o) /\ o \in TradeOrders
    BY <1>5 DEF OrderInv
  <2>2. Lone(Loop, o) \/ (row'[o] = row[o] /\ (Holds(x, o) => Holds(worker[Loop], o)))
    <3>1. CASE o \in S
      <4>1. /\ \A v \in Workers \ {Loop} : ~ Holds(worker[v], o)
            /\ \A d \in OrderCalls \ {Loop} : oCall[d].order # o
        BY <3>1, <1>1, OverlapFree
      <4> QED BY <4>1, <1>7 DEF Lone
    <3>2. CASE o \notin S
      BY <3>2, <1>2, <1>4, <1>b, OrderConstants DEF Holds
    <3> QED BY <3>1, <3>2
  <2>3. CopyIsRow(x, o, row'[o])
    <3>1. x.order # o
      BY <1>4, OrderConstants
    <3> QED BY <3>1, <1>1, <1>2, <1>4, <1>b DEF CopyIsRow, Holds
  <2>4. WorkMatches(x) /\ worker' = [worker EXCEPT ![Loop] = x]
    BY <1>4
  <2> QED BY <2>1, <2>2, <2>3, <2>4, <1>0, <1>2, HoldersKept
<1>10. ASSUME NEW o \in TradeOrders \ (oDisturbed' \cup oOverlapped') PROVE FillsMatch(o)'
  <2>1. FillsMatch(o) /\ OneHolder(o)
    BY <1>2, <1>5 DEF OrderInv
  <2>2. ASSUME NEW T PROVE Trade!Pending(o, T)' = Trade!Pending(o, T)
    <3>1. Lone(Loop, o) \/ (Holds(x, o) => Holds(worker[Loop], o))
      <4>1. CASE o \in S
        <5>1. o \notin oOverlapped'
          OBVIOUS
        <5>2. /\ \A v \in Workers \ {Loop} : ~ Holds(worker[v], o)
              /\ \A d \in OrderCalls \ {Loop} : oCall[d].order # o
          BY <4>1, <5>1, <1>1, OverlapFree
        <5> QED BY <5>2, <1>7 DEF Lone
      <4>2. CASE o \notin S
        BY <4>2, <1>2, <1>4, <1>b, OrderConstants DEF Holds
      <4> QED BY <4>1, <4>2
    <3>2. WorkMatches(x) /\ worker' = [worker EXCEPT ![Loop] = x] /\ o \in TradeOrders
      BY <1>4
    <3>3. \/ /\ Trade!Pending(o, T) = Carried(worker[Loop], o, T)
             /\ Trade!Pending(o, T)' = Carried(x, o, T)
          \/ Trade!Pending(o, T)' = Trade!Pending(o, T)
      <4>1. PICK w \in Workers : w = Loop
        BY <1>0
      <4>2. OrderTyped /\ x \in WorkStates /\ o \in TradeOrders /\ OneHolder(o)
        BY <1>0, <1>4, <2>1
      <4>3. /\ Lone(w, o) \/ (Holds(x, o) => Holds(worker[w], o))
            /\ WorkMatches(x) /\ worker' = [worker EXCEPT ![w] = x]
        BY <3>1, <3>2, <4>1
      <4>4. \/ /\ Trade!Pending(o, T) = Carried(worker[w], o, T)
               /\ Trade!Pending(o, T)' = Carried(x, o, T)
            \/ Trade!Pending(o, T)' = Trade!Pending(o, T)
        BY ONLY <4>2, <4>3, PendingStep, ZenonT(60)
      <4> QED BY <4>1, <4>4
    <3>4. Carried(worker[Loop], o, T) = 0 /\ Carried(x, o, T) = 0
      BY <1>4, <1>8, OrderConstants DEF Carried
    <3> QED BY <3>3, <3>4
  <2> QED BY <2>1, <2>2, <1>2 DEF FillsMatch
<1>11. \A h \in TradeHolders \ oClash' : ShareMatches(h)' /\ ShareBalance(h)'
  BY <1>0, <1>2, <1>4, SharesKept DEF SharesRest
<1> QED BY <1>6, <1>9, <1>10, <1>11 DEF OrderInv

LEMMA MovedTyped ==
  ASSUME moved \in [TradeOrders -> Nat], NEW side, NEW h
  PROVE  MovedOf(side, h) \in Int
<1> DEFINE f == [o \in TradeOrders |->
                   IF TradeOrder[o].side = side /\ Trade!Holder(o) = h
                   THEN moved[o] * TradeOrder[o].size ELSE 0]
<1>1. IsFiniteSet(TradeOrders) /\ \A o \in TradeOrders : TradeOrder[o].size \in Nat
  BY OrderConstants
<1>2. f \in [TradeOrders -> Int]
  <2>1. ASSUME NEW o \in TradeOrders PROVE moved[o] * TradeOrder[o].size \in Int
    <3>1. moved[o] \in Nat /\ TradeOrder[o].size \in Nat
      BY <1>1
    <3> QED BY <3>1
  <2> QED BY <2>1
<1>3. SumFunctionOnSet(f, TradeOrders) \in Int
  BY <1>1, <1>2, SumType
<1> QED BY <1>3 DEF MovedOf

\* A step over the counter changes one ownership, that no worker is about to write back.
LEMMA CounterMoves ==
  ASSUME OrderInv, NEW h \in TradeHolders,
         owned' \in [TradeHolders -> [amount : Nat, reserved : Nat]],
         transferred' \in [TradeHolders -> Nat], pledged' \in [TradeHolders -> Nat],
         \A g \in TradeHolders \ {h} : /\ owned'[g] = owned[g] /\ transferred'[g] = transferred[g]
                                       /\ pledged'[g] = pledged[g],
         owned'[h].amount + transferred'[h] = owned[h].amount + transferred[h],
         owned[h].reserved = pledged[h] => owned'[h].reserved = pledged'[h],
         oClash' = IF Trade!WrittenByOther("otc", h) THEN oClash \cup {h} ELSE oClash,
         row' = row, usedLimit' = usedLimit, worker' = worker, oCall' = oCall, oPaid' = oPaid,
         recorded' = recorded, moved' = moved, commissions' = commissions,
         approved' = approved, oDisturbed' = oDisturbed, oOverlapped' = oOverlapped,
         short' = short
  PROVE  OrderInv'
<1>0. OrderTyped
  BY DEF OrderInv
<1>2. oClash' \subseteq TradeHolders
  BY <1>0 DEF OrderTyped
<1>3. OrderTyped'
  BY <1>0, <1>2 DEF OrderTyped, WorkMatches
<1>4. \A p \in TradeOrders \ oOverlapped' : OneHolder(p)' /\ CopiesMatch(p)'
  BY DEF OrderInv, OneHolder, CopiesMatch, CopyIsRow, CallIsRow, Holds
<1>5. ASSUME NEW p \in TradeOrders \ (oDisturbed' \cup oOverlapped') PROVE FillsMatch(p)'
  <2>1. FillsMatch(p)
    BY DEF OrderInv
  <2>2. \A S : Trade!Pending(p, S)' = Trade!Pending(p, S)
    BY PendingKept
  <2> QED BY <2>1, <2>2 DEF FillsMatch
<1>6. ASSUME NEW g \in TradeHolders \ oClash' PROVE ShareMatches(g)' /\ ShareBalance(g)'
  <2>1. g \in TradeHolders \ oClash /\ ShareMatches(g) /\ ShareBalance(g)
    BY DEF OrderInv
  <2>2. g = h => \A v \in Workers : ~ Writes(worker[v], g)
    <3>1. Workers \ {"otc"} = Workers
      BY OrderConstants
    <3> QED BY <3>1, WrittenByOthers
  <2>3. ShareMatches(g)'
    BY <2>1, <2>2 DEF ShareMatches, Writes, Trade!Holder
  <2>4. \A side : MovedOf(side, g)' = MovedOf(side, g)
    BY DEF MovedOf
  <2>5. CASE g # h
    BY <2>5, <2>1, <2>3, <2>4 DEF ShareBalance
  <2>6. CASE g = h
    <3>1. MovedOf("SELL", g) \in Int
      <4>1. moved \in [TradeOrders -> Nat]
        BY <1>0 DEF OrderTyped
      <4> QED BY <4>1, MovedTyped
    <3>2. /\ owned[h].amount \in Nat /\ transferred[h] \in Nat
          /\ owned'[h].amount \in Nat /\ transferred'[h] \in Nat
      BY <1>0 DEF OrderTyped
    <3>5. MovedOf("SELL", h) \in Int
      BY <3>1, <2>6
    <3>3. owned[h].amount + transferred[h] + MovedOf("SELL", h) = TradeOpening[h] + MovedOf("BUY", h)
          /\ owned[h].reserved = pledged[h]
      BY <2>1, <2>6 DEF ShareBalance
    <3>4. owned'[h].amount + transferred'[h] + MovedOf("SELL", h) = TradeOpening[h] + MovedOf("BUY", h)
      BY <3>2, <3>3, <3>5
    <3> QED BY <2>3, <2>4, <2>6, <3>3, <3>4 DEF ShareBalance
  <2> QED BY <2>3, <2>5, <2>6
<1> QED BY <1>3, <1>4, <1>5, <1>6 DEF OrderInv

LEMMA ReserveSharesStep ==
  ASSUME OrderInv, NEW h \in TradeHolders, Trade!ReserveShares(h)
  PROVE  OrderInv'
<1>1. OrderTyped
  BY DEF OrderInv
<1>2. PICK a \in Nat, r \in Nat, t \in Nat, k \in Nat :
        a = owned[h].amount /\ r = owned[h].reserved /\ t = transferred[h] /\ k = pledged[h]
  BY <1>1 DEF OrderTyped
<1>3. /\ owned' = [owned EXCEPT ![h].reserved = @ + 1]
      /\ pledged' = [pledged EXCEPT ![h] = @ + 1]
      /\ oClash' = IF Trade!WrittenByOther("otc", h) THEN oClash \cup {h} ELSE oClash
      /\ row' = row /\ usedLimit' = usedLimit /\ worker' = worker /\ oCall' = oCall
      /\ oPaid' = oPaid /\ recorded' = recorded /\ moved' = moved /\ commissions' = commissions
      /\ transferred' = transferred /\ approved' = approved /\ oDisturbed' = oDisturbed
      /\ oOverlapped' = oOverlapped /\ short' = short
  BY DEF Trade!ReserveShares, Trade!ClashOutside
<1>4. /\ owned' \in [TradeHolders -> [amount : Nat, reserved : Nat]]
      /\ owned'[h].amount = a /\ owned'[h].reserved = r + 1
      /\ \A g \in TradeHolders \ {h} : owned'[g] = owned[g]
  BY <1>1, <1>2, <1>3 DEF OrderTyped
<1>5. /\ pledged' \in [TradeHolders -> Nat] /\ transferred' \in [TradeHolders -> Nat]
      /\ pledged'[h] = k + 1 /\ transferred'[h] = t
      /\ \A g \in TradeHolders \ {h} : pledged'[g] = pledged[g] /\ transferred'[g] = transferred[g]
  BY <1>1, <1>2, <1>3 DEF OrderTyped
<1>6. /\ \A g \in TradeHolders \ {h} : /\ owned'[g] = owned[g] /\ transferred'[g] = transferred[g]
                                          /\ pledged'[g] = pledged[g]
      /\ owned'[h].amount + transferred'[h] = owned[h].amount + transferred[h]
      /\ owned[h].reserved = pledged[h] => owned'[h].reserved = pledged'[h]
  BY <1>2, <1>4, <1>5
<1> QED BY <1>3, <1>4, <1>5, <1>6, CounterMoves

LEMMA DeliverSharesStep ==
  ASSUME OrderInv, NEW h \in TradeHolders, Trade!DeliverShares(h)
  PROVE  OrderInv'
<1>1. OrderTyped
  BY DEF OrderInv
<1>2. PICK a \in Nat, r \in Nat, t \in Nat, k \in Nat :
        a = owned[h].amount /\ r = owned[h].reserved /\ t = transferred[h] /\ k = pledged[h]
  BY <1>1 DEF OrderTyped
<1>3. /\ owned' = [owned EXCEPT ![h].amount = @ - 1, ![h].reserved = @ - 1]
      /\ pledged' = [pledged EXCEPT ![h] = @ - 1]
      /\ transferred' = [transferred EXCEPT ![h] = @ + 1]
      /\ oClash' = IF Trade!WrittenByOther("otc", h) THEN oClash \cup {h} ELSE oClash
      /\ row' = row /\ usedLimit' = usedLimit /\ worker' = worker /\ oCall' = oCall
      /\ oPaid' = oPaid /\ recorded' = recorded /\ moved' = moved /\ commissions' = commissions
      /\ approved' = approved /\ oDisturbed' = oDisturbed
      /\ oOverlapped' = oOverlapped /\ short' = short
      /\ a > 0 /\ r > 0 /\ k > 0
  BY <1>2 DEF Trade!DeliverShares, Trade!ClashOutside
<1>4. /\ owned' \in [TradeHolders -> [amount : Nat, reserved : Nat]]
      /\ owned'[h].amount = a - 1 /\ owned'[h].reserved = r - 1
      /\ \A g \in TradeHolders \ {h} : owned'[g] = owned[g]
  BY <1>1, <1>2, <1>3 DEF OrderTyped
<1>5. /\ pledged' \in [TradeHolders -> Nat] /\ transferred' \in [TradeHolders -> Nat]
      /\ pledged'[h] = k - 1 /\ transferred'[h] = t + 1
      /\ \A g \in TradeHolders \ {h} : pledged'[g] = pledged[g] /\ transferred'[g] = transferred[g]
  BY <1>1, <1>2, <1>3 DEF OrderTyped
<1>6. \A g \in TradeHolders \ {h} : /\ owned'[g] = owned[g] /\ transferred'[g] = transferred[g]
                                     /\ pledged'[g] = pledged[g]
  BY <1>4, <1>5
<1>7. owned'[h].amount + transferred'[h] = owned[h].amount + transferred[h]
  <2>1. (a - 1) + (t + 1) = a + t
    OBVIOUS
  <2> QED BY <2>1, <1>2, <1>4, <1>5
<1>8. owned[h].reserved = pledged[h] => owned'[h].reserved = pledged'[h]
  BY <1>2, <1>4, <1>5
<1> QED BY <1>3, <1>4, <1>5, <1>6, <1>7, <1>8, CounterMoves

LEMMA OrdersInitially == Trade!Init => OrderInv
<1> SUFFICES ASSUME Trade!Init PROVE OrderInv
  OBVIOUS
<1>1. /\ row = [o \in TradeOrders |-> Trade!NoRow]
      /\ owned = [h \in TradeHolders |-> [amount |-> TradeOpening[h], reserved |-> 0]]
      /\ usedLimit = 0 /\ approved = 0
      /\ worker = [w \in Workers |-> Trade!IdleWork]
      /\ oCall = [c \in OrderCalls |-> Trade!IdleCall]
      /\ oPaid = [o \in TradeOrders |-> 0] /\ recorded = [o \in TradeOrders |-> 0]
      /\ moved = [o \in TradeOrders |-> 0] /\ commissions = [o \in TradeOrders |-> 0]
      /\ transferred = [h \in TradeHolders |-> 0] /\ pledged = [h \in TradeHolders |-> 0]
      /\ oDisturbed = {} /\ oOverlapped = {} /\ oClash = {} /\ short = {}
  BY DEF Trade!Init
<1>2. \A w \in Workers : /\ worker[w].at = "idle" /\ worker[w].order = Trade!NoOrder
                         /\ DOMAIN worker[w].batch = {} /\ worker[w].fill = 0
  <2>1. DOMAIN <<>> = {}
    OBVIOUS
  <2> QED BY <2>1, <1>1 DEF Trade!IdleWork
<1>3. worker \in [Workers -> WorkStates]
  <2>1. <<>> \in Batches
    <3>1. <<>> \in [{} -> Trade!Rows]
      OBVIOUS
    <3> QED BY <3>1 DEF Batches
  <2>2. Trade!IdleWork \in WorkStates
    BY <2>1, NoRowTyped DEF Trade!IdleWork, WorkStates, WorkSteps
  <2> QED BY <2>2, <1>1
<1>4. \A w \in Workers : WorkMatches(worker[w])
  BY <1>2, AtSteps DEF WorkMatches
<1>5. /\ oCall \in [OrderCalls -> CallStates]
      /\ \A c \in OrderCalls : oCall[c].op = "idle" /\ oCall[c].order = Trade!NoOrder
  BY <1>1, NoRowTyped DEF Trade!IdleCall, CallStates
<1>6. OrderTyped
  BY <1>1, <1>3, <1>4, <1>5, NoRowTyped, OrderConstants DEF OrderTyped
<1>7. ASSUME NEW o \in TradeOrders PROVE OneHolder(o) /\ CopiesMatch(o) /\ FillsMatch(o)
  <2>1. \A w \in Workers : ~ Holds(worker[w], o) /\ worker[w].order # o
    BY <1>2, OrderConstants DEF Holds
  <2>2. \A c \in OrderCalls : oCall[c].order # o
    BY <1>5, OrderConstants
  <2>3. OneHolder(o) /\ CopiesMatch(o)
    BY <2>1, <2>2 DEF OneHolder, CopiesMatch, CopyIsRow, CallIsRow, Holds
  <2>4. ASSUME NEW S PROVE Trade!Pending(o, S) = 0
    <3>1. {w \in Workers : worker[w].order = o /\ worker[w].at \in S} = {}
      BY <2>1
    <3> QED BY <3>1 DEF Trade!Pending
  <2>5. row[o].filled = 0 /\ row[o].charged = FALSE
    BY <1>1 DEF Trade!NoRow
  <2>6. FillsMatch(o)
    BY <1>1, <2>4, <2>5 DEF FillsMatch
  <2> QED BY <2>3, <2>6
<1>8. ASSUME NEW h \in TradeHolders PROVE ShareMatches(h) /\ ShareBalance(h)
  <2>1. ShareMatches(h)
    BY <1>2 DEF ShareMatches, Writes
  <2>2. \A side : MovedOf(side, h) = 0
    <3> TAKE side
    <3>1. PICK f : f = [o \in TradeOrders |->
                          IF TradeOrder[o].side = side /\ Trade!Holder(o) = h
                          THEN moved[o] * TradeOrder[o].size ELSE 0]
      OBVIOUS
    <3>2. ASSUME NEW o \in TradeOrders PROVE moved[o] * TradeOrder[o].size = 0
      <4>1. moved[o] = 0 /\ TradeOrder[o].size \in Nat
        BY <1>1, OrderConstants
      <4> QED BY <4>1
    <3>3. f \in [TradeOrders -> Int] /\ \A o \in TradeOrders : f[o] = 0
      BY <3>1, <3>2
    <3>4. IsFiniteSet(TradeOrders) /\ TradeOrders \in SUBSET TradeOrders
      BY OrderConstants
    <3>5. SumFunctionOnSet(f, TradeOrders) = 0
      BY ONLY <3>3, <3>4, SumOfZeros
    <3> QED BY <3>1, <3>5 DEF MovedOf
  <2>3. /\ owned[h].amount = TradeOpening[h] /\ owned[h].reserved = 0
        /\ transferred[h] = 0 /\ pledged[h] = 0 /\ TradeOpening[h] \in Nat
    BY <1>1, OrderConstants
  <2> QED BY <2>1, <2>2, <2>3 DEF ShareBalance
<1> QED BY <1>6, <1>7, <1>8 DEF OrderInv

LEMMA OrderNextKeeps ==
  ASSUME OrderInv, Trade!Next
  PROVE  OrderInv'
<1>1. ASSUME NEW w \in Workers, Trade!Execute(w) PROVE OrderInv'
  <2>1. ASSUME NEW o \in TradeOrders,
               \/ Trade!LiquidateFund(w, o) \/ Trade!TakeWithoutFill(w, o)
               \/ \E f \in 1 .. TradeOrder[o].quantity : Trade!ExecuteTradeSettlement(w, o, f)
        PROVE  OrderInv'
    BY <2>1, LiquidateFundStep, TakeWithoutFillStep, ExecuteTradeSettlementStep
  <2> QED BY <1>1, <2>1, SaveUnfilledStep, FailAfterSettlementStep, RecordTransactionStep,
             RecordProfitTaxStep, SaveFillStep, ReadOwnershipOrderStep, UpsertOwnershipStep,
             RejectShortSellStep DEF Trade!Execute
<1>2. ASSUME NEW c \in OrderCalls,
             \/ \E o \in TradeOrders, op \in {"approve", "decline", "cancel"} :
                  Trade!ReadOrder(c, op, o)
             \/ Trade!SaveOrder(c)
      PROVE  OrderInv'
  BY <1>2, ReadOrderStep, SaveOrderStep
<1>3. ASSUME NEW h \in TradeHolders, Trade!ReserveShares(h) \/ Trade!DeliverShares(h)
      PROVE  OrderInv'
  BY <1>3, ReserveSharesStep, DeliverSharesStep
<1>4. ASSUME NEW o \in TradeOrders, Trade!PlaceOrder(o) PROVE OrderInv'
  BY <1>4, PlaceOrderStep
<1> QED BY <1>1, <1>2, <1>3, <1>4, ResetUsedLimitStep, FindReadyStep DEF Trade!Next

LEMMA OrderStep == OrderInv /\ [Trade!Next]_tradeVars => OrderInv'
<1>1. ASSUME OrderInv, UNCHANGED tradeVars PROVE OrderInv'
  <2>1. usedLimit \in Nat /\ approved \in Nat
    BY <1>1 DEF OrderInv, OrderTyped
  <2> QED BY <1>1, <2>1, NoOrderMoves DEF tradeVars
<1> QED BY <1>1, OrderNextKeeps

\* What has been declined has no holder, so that no step writes or settles it.
FinalOrders ==
    \A o \in TradeOrders \ oOverlapped' :
        row[o].status = "DECLINED" => row'[o] = row[o] /\ oPaid'[o] = oPaid[o]

LEMMA DeclinedFree ==
  ASSUME OrderInv, NEW o \in TradeOrders \ oOverlapped, row[o].status = "DECLINED"
  PROVE  /\ \A w \in Workers : ~ Holds(worker[w], o)
         /\ \A c \in OrderCalls : oCall[c].order # o
BY DEF OrderInv, CopiesMatch, CopyIsRow, CallIsRow

LEMMA FinalStep ==
  ASSUME OrderInv, Trade!Next
  PROVE  FinalOrders
<1> SUFFICES ASSUME NEW o \in TradeOrders \ oOverlapped', row[o].status = "DECLINED"
             PROVE  row'[o] = row[o] /\ oPaid'[o] = oPaid[o]
  BY DEF FinalOrders
<1>0. OrderTyped
  BY DEF OrderInv
<1>1. oOverlapped \subseteq oOverlapped'
  <2>1. ASSUME NEW w \in Workers, Trade!Execute(w) PROVE oOverlapped \subseteq oOverlapped'
    <3>1. ASSUME NEW p, Trade!LiquidateFund(w, p) \/ Trade!TakeWithoutFill(w, p)
          PROVE  oOverlapped \subseteq oOverlapped'
      BY <3>1 DEF Trade!LiquidateFund, Trade!PlaceRow, Trade!TakeWithoutFill, Trade!history
    <3>2. ASSUME NEW p, NEW f, Trade!ExecuteTradeSettlement(w, p, f)
          PROVE  oOverlapped \subseteq oOverlapped'
      BY <3>2 DEF Trade!ExecuteTradeSettlement
    <3>3. CASE Trade!SaveUnfilled(w) \/ Trade!FailAfterSettlement(w) \/ Trade!RecordTransaction(w)
               \/ Trade!RecordProfitTax(w)
      BY <3>3 DEF Trade!SaveUnfilled, Trade!FailAfterSettlement, Trade!RecordTransaction,
                  Trade!RecordProfitTax, Trade!history
    <3>4. CASE Trade!SaveFill(w) \/ Trade!ReadOwnership(w) \/ Trade!UpsertOwnership(w)
               \/ Trade!RejectShortSell(w)
      BY <3>4 DEF Trade!SaveFill, Trade!ReadOwnership, Trade!UpsertOwnership,
                  Trade!RejectShortSell, Trade!history
    <3> QED BY <2>1, <3>1, <3>2, <3>3, <3>4 DEF Trade!Execute
  <2>2. ASSUME NEW c, Trade!SaveOrder(c) \/ \E p, op : Trade!ReadOrder(c, op, p)
        PROVE  oOverlapped \subseteq oOverlapped'
    BY <2>2 DEF Trade!SaveOrder, Trade!ReadOrder, Trade!Overlap, Trade!history
  <2>3. ASSUME NEW p, \/ Trade!PlaceOrder(p) \/ Trade!ReserveShares(p) \/ Trade!DeliverShares(p)
                      \/ Trade!ResetUsedLimit \/ Trade!FindReadyForExecution
        PROVE  oOverlapped \subseteq oOverlapped'
    BY <2>3 DEF Trade!PlaceOrder, Trade!PlaceRow, Trade!ReserveShares, Trade!DeliverShares,
                Trade!ResetUsedLimit, Trade!FindReadyForExecution, Trade!Overlap
  <2> QED BY <2>1, <2>2, <2>3 DEF Trade!Next
<1>2. /\ \A w \in Workers : ~ Holds(worker[w], o)
      /\ \A c \in OrderCalls : oCall[c].order # o
  BY <1>1, DeclinedFree
<1>3. /\ \A w \in Workers : worker[w].order # o /\ o \notin DOMAIN worker[w].batch
      /\ \A c \in OrderCalls : oCall[c].order # o
      /\ row \in [TradeOrders -> Trade!Rows] /\ oPaid \in [TradeOrders -> Nat]
  BY <1>0, <1>2 DEF Holds, OrderTyped
<1>4. ASSUME NEW p \in TradeOrders, NEW s, Trade!PlaceRow(p, s)
      PROVE  row'[o] = row[o] /\ oPaid'[o] = oPaid[o]
  BY <1>3, <1>4 DEF Trade!PlaceRow
<1>5. ASSUME NEW w \in Workers, Trade!Execute(w) PROVE row'[o] = row[o] /\ oPaid'[o] = oPaid[o]
  <2>1. ASSUME NEW p \in TradeOrders, Trade!LiquidateFund(w, p)
        PROVE  row'[o] = row[o] /\ oPaid'[o] = oPaid[o]
    BY <2>1, <1>4 DEF Trade!LiquidateFund
  <2>2. ASSUME NEW p \in TradeOrders, Trade!TakeWithoutFill(w, p)
        PROVE  row'[o] = row[o] /\ oPaid'[o] = oPaid[o]
    BY <2>2 DEF Trade!TakeWithoutFill, Trade!history
  <2>3. ASSUME NEW p \in TradeOrders, NEW f, Trade!ExecuteTradeSettlement(w, p, f)
        PROVE  row'[o] = row[o] /\ oPaid'[o] = oPaid[o]
    BY <2>3, <1>3 DEF Trade!ExecuteTradeSettlement, Trade!Takable
  <2>4. CASE Trade!SaveUnfilled(w)
    <3>1. PICK p, d : p = worker[w].order /\ row' \in {row, [row EXCEPT ![p] = d]} /\ oPaid' = oPaid
      BY <2>4 DEF Trade!SaveUnfilled, Trade!history
    <3> QED BY <3>1, <1>3
  <2>5. CASE Trade!SaveFill(w)
    <3>1. PICK p, d : p = worker[w].order /\ row' = [row EXCEPT ![p] = d] /\ oPaid' = oPaid
      BY <2>5 DEF Trade!SaveFill, Trade!history
    <3> QED BY <3>1, <1>3
  <2>6. CASE Trade!FailAfterSettlement(w) \/ Trade!RecordTransaction(w) \/ Trade!RecordProfitTax(w)
             \/ Trade!ReadOwnership(w) \/ Trade!UpsertOwnership(w) \/ Trade!RejectShortSell(w)
    BY <2>6 DEF Trade!FailAfterSettlement, Trade!RecordTransaction, Trade!RecordProfitTax,
                Trade!ReadOwnership, Trade!UpsertOwnership, Trade!RejectShortSell, Trade!history
  <2> QED BY <1>5, <2>1, <2>2, <2>3, <2>4, <2>5, <2>6 DEF Trade!Execute
<1>6. ASSUME NEW c \in OrderCalls, Trade!SaveOrder(c)
      PROVE  row'[o] = row[o] /\ oPaid'[o] = oPaid[o]
  <2>1. PICK p, d : p = oCall[c].order /\ row' \in {row, [row EXCEPT ![p] = d]} /\ oPaid' = oPaid
    BY <1>6 DEF Trade!SaveOrder, Trade!history
  <2> QED BY <2>1, <1>3
<1>7. ASSUME NEW c \in OrderCalls, NEW op, NEW p, Trade!ReadOrder(c, op, p)
      PROVE  row'[o] = row[o] /\ oPaid'[o] = oPaid[o]
  BY <1>7 DEF Trade!ReadOrder
<1>8. ASSUME NEW h, Trade!ReserveShares(h) \/ Trade!DeliverShares(h)
      PROVE  row'[o] = row[o] /\ oPaid'[o] = oPaid[o]
  BY <1>8 DEF Trade!ReserveShares, Trade!DeliverShares
<1>9. CASE Trade!ResetUsedLimit \/ Trade!FindReadyForExecution
  BY <1>9 DEF Trade!ResetUsedLimit, Trade!FindReadyForExecution
<1>10. ASSUME NEW p \in TradeOrders, Trade!PlaceOrder(p)
       PROVE  row'[o] = row[o] /\ oPaid'[o] = oPaid[o]
  BY <1>10, <1>4 DEF Trade!PlaceOrder
<1> QED BY <1>5, <1>6, <1>7, <1>8, <1>9, <1>10 DEF Trade!Next

-----------------------------------------------------------------------------
(* Investment funds *)

FundSteps == {"idle", "invested", "upsert", "check", "withdraw", "complete", "redeem", "close"}
FundCopies == [at : FundSteps, client : FundClients \cup {Fund!NoClient},
               id : Others \cup {"none"}, amount : Nat, copy : Nat, nav : Nat \ {0}]
FundRows == [status : {"NONE", "PENDING_LIQUIDATION", "COMPLETED"},
             client : FundClients \cup {Fund!NoClient}, amount : Nat]
Incoming == {"invested", "upsert"}
Outgoing == {"redeem"}
PaidSteps == {"redeem", "close"}

\* What actor a may hold.
CopyMatches(a, x) ==
    /\ x.at # "idle" => x.client \in FundClients
    /\ x.at \in {"check", "withdraw", "complete", "redeem", "close"} => x.id \in Others
    /\ x.at \in {"idle", "invested", "upsert"} => x.id = "none"
    /\ x.at \in Incoming => a \in Pair
    /\ x.at = "redeem" => x.amount \div x.nav <= x.copy
    /\ x.at = "idle" => x.client = Fund!NoClient

FundTyped ==
    /\ Fund!FundTypeOK
    /\ actor \in [Fund!Actors -> FundCopies] /\ redemption \in [Others -> FundRows]
    /\ \A a \in Fund!Actors : CopyMatches(a, actor[a])

\* One actor works on a position, and the copy it holds is what the position has.
PositionMatches(c) ==
    /\ \A a \in Fund!Actors : Fund!HoldsCopy(a, c) /\ actor[a].at # "close" => actor[a].copy = units[c]
    /\ \A a, b \in Fund!Actors : Fund!HoldsCopy(a, c) /\ Fund!HoldsCopy(b, c) => a = b

UnitsBalance(c) ==
    units[c] + Fund!InProgress(c, Incoming) + redeemed[c] = bought[c] + Fund!InProgress(c, Outgoing)

\* One actor works on a redemption: a request before its row is there, or the job.
RedemptionsMatch ==
    /\ \A a, b \in Fund!Actors : actor[a].id \in Others /\ actor[a].id = actor[b].id => a = b
    /\ \A a \in Fund!Actors : actor[a].id \in Others =>
         IF a = Fund!Job
         THEN redemption[actor[a].id].status = "PENDING_LIQUIDATION" /\ actor[a].id \notin todo
         ELSE redemption[actor[a].id].status = "NONE"
    /\ \A r \in todo : redemption[r].status = "PENDING_LIQUIDATION"

PaidBy(r) == {a \in Fund!Actors : actor[a].id = r /\ actor[a].at \in PaidSteps}
PaidOnce(r) == paidOut[r] = IF redemption[r].status = "COMPLETED" THEN 1 ELSE Cardinality(PaidBy(r))

FundInv ==
    /\ FundTyped
    /\ \A c \in FundClients \ fClash : PositionMatches(c)
    /\ \A c \in FundClients \ (fDisturbed \cup fClash) : UnitsBalance(c)
    /\ RedemptionsMatch
    /\ \A r \in Others \ fDisturbed : PaidOnce(r)

LEMMA FundConstants ==
  /\ Navs \subseteq Nat \ {0} /\ FundAmounts \subseteq Nat \ {0} /\ Fund!Job \notin Pair
  /\ MaxLiquid \in Nat /\ MaxFundUnits \in Nat
  /\ IsFiniteSet(Fund!Actors) /\ Fund!Actors = Pair \cup {Fund!Job}
  /\ Fund!NoClient \notin FundClients /\ "none" \notin Others
<1>1. Fund!FundsAssumption
  BY TradingAssumption
<1>2. Fund!IsFiniteSet(Pair) => IsFiniteSet(Pair)
  BY DEF Fund!IsFiniteSet, IsFiniteSet
<1>3. IsFiniteSet(Pair) => IsFiniteSet(Pair \cup {Fund!Job})
  BY FS_AddElement
<1> QED BY <1>1, <1>2, <1>3 DEF Fund!FundsAssumption, Fund!Actors

LEMMA FundImplied == FundInv => Fund!UnitsExact
<1> SUFFICES ASSUME FundInv PROVE Fund!UnitsExact
  OBVIOUS
<1>1. ASSUME NEW r \in Others \ fDisturbed
      PROVE  paidOut[r] = IF redemption[r].status = "COMPLETED" THEN 1
               ELSE Fund!Cardinality({a \in Fund!Actors :
                      actor[a].id = r /\ actor[a].at \in {"redeem", "close"}})
  <2>1. Fund!Cardinality(PaidBy(r)) = Cardinality(PaidBy(r))
    BY DEF Fund!Cardinality, Cardinality
  <2> QED BY <2>1 DEF FundInv, PaidOnce, PaidBy, PaidSteps
<1> QED BY <1>1 DEF FundInv, UnitsBalance, Fund!UnitsExact, Incoming, Outgoing

LEMMA FundSameSum == \A f, S : Fund!SumFunctionOnSet(f, S) = SumFunctionOnSet(f, S)
BY DEF Fund!SumFunctionOnSet, Fund!FoldFunctionOnSet, Fund!MapThenFoldSet,
       SumFunctionOnSet, FoldFunctionOnSet, MapThenFoldSet

-----------------------------------------------------------------------------
LEMMA FundTypes ==
  ASSUME FundTyped
  PROVE  /\ liquid \in 0 .. MaxLiquid /\ units \in [FundClients -> Nat]
         /\ bought \in [FundClients -> Nat] /\ redeemed \in [FundClients -> Nat]
         /\ paidOut \in [Others -> Nat] /\ todo \subseteq Others
         /\ fDisturbed \subseteq FundClients \cup Others /\ fClash \subseteq FundClients
         /\ actor \in [Fund!Actors -> FundCopies] /\ redemption \in [Others -> FundRows]
BY DEF FundTyped, Fund!FundTypeOK

LEMMA CopyTyped ==
  ASSUME NEW x \in FundCopies
  PROVE  /\ x.at \in FundSteps /\ x.client \in FundClients \cup {Fund!NoClient}
         /\ x.id \in Others \cup {"none"} /\ x.amount \in Nat /\ x.copy \in Nat
         /\ x.nav \in Nat \ {0} /\ x.amount \div x.nav \in Nat
         /\ x = [at |-> x.at, client |-> x.client, id |-> x.id, amount |-> x.amount,
                 copy |-> x.copy, nav |-> x.nav]
<1>1. x.amount \in Nat /\ x.nav \in Nat \ {0}
  BY DEF FundCopies
<1>2. x.amount \div x.nav \in Nat
  BY <1>1
<1> QED BY <1>1, <1>2 DEF FundCopies

LEMMA RowTypedFund ==
  ASSUME NEW r \in FundRows
  PROVE  /\ r.status \in {"NONE", "PENDING_LIQUIDATION", "COMPLETED"}
         /\ r.client \in FundClients \cup {Fund!NoClient} /\ r.amount \in Nat
BY DEF FundRows

\* The units a copy has in steps s.
Part(x, c, s) == IF x.client = c /\ x.at \in s THEN x.amount \div x.nav ELSE 0

\* One actor changes its copy: what is in progress changes by its part.
LEMMA ProgressMoves ==
  ASSUME FundTyped, NEW a \in Fund!Actors, NEW x \in FundCopies,
         actor' = [actor EXCEPT ![a] = x], NEW c, NEW s
  PROVE  /\ Fund!InProgress(c, s) \in Int /\ Fund!InProgress(c, s)' \in Int
         /\ Fund!InProgress(c, s)' = Fund!InProgress(c, s) - Part(actor[a], c, s) + Part(x, c, s)
<1> DEFINE f == [b \in Fund!Actors |-> IF actor[b].client = c /\ actor[b].at \in s
                                       THEN actor[b].amount \div actor[b].nav ELSE 0]
           g == [b \in Fund!Actors |-> IF actor'[b].client = c /\ actor'[b].at \in s
                                       THEN actor'[b].amount \div actor'[b].nav ELSE 0]
<1>0. actor \in [Fund!Actors -> FundCopies] /\ IsFiniteSet(Fund!Actors)
  BY FundTypes, FundConstants
<1>1. actor' \in [Fund!Actors -> FundCopies] /\ actor'[a] = x
      /\ \A b \in Fund!Actors \ {a} : actor'[b] = actor[b]
  BY <1>0
<1>2. \A b \in Fund!Actors : /\ actor[b].amount \div actor[b].nav \in Nat
                             /\ actor'[b].amount \div actor'[b].nav \in Nat
  BY <1>0, <1>1, CopyTyped
<1>3. f \in [Fund!Actors -> Int] /\ g \in [Fund!Actors -> Int]
  BY <1>2
<1>4. /\ f[a] = Part(actor[a], c, s) /\ g[a] = Part(x, c, s)
      /\ \A b \in Fund!Actors \ {a} : f[b] = g[b]
  BY <1>1 DEF Part
<1>5. /\ Fund!InProgress(c, s) = SumFunctionOnSet(f, Fund!Actors)
      /\ Fund!InProgress(c, s)' = SumFunctionOnSet(g, Fund!Actors)
  <2>1. Fund!InProgress(c, s) = Fund!SumFunctionOnSet(f, Fund!Actors)
    BY DEF Fund!InProgress
  <2>2. Fund!InProgress(c, s)' = Fund!SumFunctionOnSet(g, Fund!Actors)
    BY DEF Fund!InProgress
  <2> QED BY <2>1, <2>2, FundSameSum
<1> HIDE DEF f, g
<1>6. SumFunctionOnSet(g, Fund!Actors) = SumFunctionOnSet(f, Fund!Actors) - f[a] + g[a]
  <2>1. Fund!Actors \in SUBSET Fund!Actors /\ Fund!Actors \subseteq Fund!Actors
    OBVIOUS
  <2> QED BY <1>0, <1>3, <1>4, <2>1, SumUpdated
<1>7. SumFunctionOnSet(f, Fund!Actors) \in Int /\ SumFunctionOnSet(g, Fund!Actors) \in Int
  BY <1>0, <1>3, SumType
<1> QED BY <1>4, <1>5, <1>6, <1>7

LEMMA PartTyped == ASSUME NEW x \in FundCopies, NEW c, NEW s PROVE Part(x, c, s) \in Nat
BY CopyTyped DEF Part

LEMMA FundProgressTyped ==
  ASSUME FundTyped, NEW c, NEW s PROVE Fund!InProgress(c, s) \in Int
<1> DEFINE f == [b \in Fund!Actors |-> IF actor[b].client = c /\ actor[b].at \in s
                                       THEN actor[b].amount \div actor[b].nav ELSE 0]
<1>0. actor \in [Fund!Actors -> FundCopies] /\ IsFiniteSet(Fund!Actors)
  BY FundTypes, FundConstants
<1>2. \A b \in Fund!Actors : actor[b].amount \div actor[b].nav \in Nat
  BY <1>0, CopyTyped
<1>3. f \in [Fund!Actors -> Int]
  BY <1>2
<1>5. Fund!InProgress(c, s) = Fund!SumFunctionOnSet(f, Fund!Actors)
  BY DEF Fund!InProgress
<1> HIDE DEF f
<1> QED BY <1>0, <1>3, <1>5, FundSameSum, SumType

\* One actor works on, alone on the position that it writes.
LEMMA PositionsStep ==
  ASSUME FundInv, NEW a \in Fund!Actors, NEW x \in FundCopies, CopyMatches(a, x),
         actor' = [actor EXCEPT ![a] = x], fClash \subseteq fClash',
         \A c \in FundClients \ fClash' :
           /\ x.client = c /\ x.at # "invested" =>
                Fund!HoldsCopy(a, c) \/ \A b \in Fund!Actors \ {a} : ~ Fund!HoldsCopy(b, c)
           /\ x.client = c /\ x.at \notin {"invested", "close"} => x.copy = units'[c]
           /\ units'[c] = units[c] \/ Fund!HoldsCopy(a, c)
  PROVE  \A c \in FundClients \ fClash' : PositionMatches(c)'
<1> SUFFICES ASSUME NEW c \in FundClients \ fClash' PROVE PositionMatches(c)'
  OBVIOUS
<1>0. actor \in [Fund!Actors -> FundCopies]
  BY FundTypes DEF FundInv
<1>1. /\ actor'[a] = x /\ \A b \in Fund!Actors \ {a} : actor'[b] = actor[b]
  BY <1>0
<1>2. /\ \A b \in Fund!Actors : Fund!HoldsCopy(b, c) /\ actor[b].at # "close" => actor[b].copy = units[c]
      /\ \A b, d \in Fund!Actors : Fund!HoldsCopy(b, c) /\ Fund!HoldsCopy(d, c) => b = d
  BY DEF FundInv, PositionMatches
<1>3. /\ \A b \in Fund!Actors \ {a} : Fund!HoldsCopy(b, c)' <=> Fund!HoldsCopy(b, c)
      /\ Fund!HoldsCopy(a, c)' <=> (x.client = c /\ x.at # "invested")
  BY <1>1 DEF Fund!HoldsCopy
<1>4. ASSUME NEW b \in Fund!Actors, Fund!HoldsCopy(b, c)', actor'[b].at # "close"
      PROVE  actor'[b].copy = units'[c]
  <2>1. CASE b = a
    BY <1>1, <1>3, <1>4, <2>1
  <2>2. CASE b # a
    <3>1. ~ Fund!HoldsCopy(a, c) /\ Fund!HoldsCopy(b, c)
      BY <1>2, <1>3, <1>4, <2>2
    <3> QED BY <1>1, <1>2, <1>4, <2>2, <3>1
  <2> QED BY <2>1, <2>2
<1>5. ASSUME NEW b \in Fund!Actors, NEW d \in Fund!Actors,
             Fund!HoldsCopy(b, c)', Fund!HoldsCopy(d, c)', b # d
      PROVE  FALSE
  <2>1. CASE b # a /\ d # a
    BY <1>2, <1>3, <1>5, <2>1
  <2>2. CASE b = a
    BY <1>2, <1>3, <1>5, <2>2
  <2>3. CASE d = a
    BY <1>2, <1>3, <1>5, <2>3
  <2> QED BY <2>1, <2>2, <2>3
<1> QED BY <1>4, <1>5 DEF PositionMatches

LEMMA UnitsStep ==
  ASSUME FundInv, NEW a \in Fund!Actors, NEW x \in FundCopies,
         actor' = [actor EXCEPT ![a] = x],
         fClash \subseteq fClash', fDisturbed \subseteq fDisturbed',
         units' \in [FundClients -> Nat], bought' \in [FundClients -> Nat],
         redeemed' \in [FundClients -> Nat],
         \A c \in FundClients \ (fDisturbed' \cup fClash') :
           (units'[c] - units[c]) + (Part(x, c, Incoming) - Part(actor[a], c, Incoming))
             + (redeemed'[c] - redeemed[c])
           = (bought'[c] - bought[c]) + (Part(x, c, Outgoing) - Part(actor[a], c, Outgoing))
  PROVE  \A c \in FundClients \ (fDisturbed' \cup fClash') : UnitsBalance(c)'
<1> SUFFICES ASSUME NEW c \in FundClients \ (fDisturbed' \cup fClash') PROVE UnitsBalance(c)'
  OBVIOUS
<1>0. FundTyped /\ units \in [FundClients -> Nat] /\ bought \in [FundClients -> Nat]
      /\ redeemed \in [FundClients -> Nat] /\ actor[a] \in FundCopies
  BY FundTypes DEF FundInv
<1>1. UnitsBalance(c)
  BY DEF FundInv
<1>2. \A s : /\ Fund!InProgress(c, s) \in Int /\ Fund!InProgress(c, s)' \in Int
             /\ Fund!InProgress(c, s)' = Fund!InProgress(c, s) - Part(actor[a], c, s) + Part(x, c, s)
             /\ Part(actor[a], c, s) \in Nat /\ Part(x, c, s) \in Nat
  <2> SUFFICES ASSUME NEW s
               PROVE  /\ Fund!InProgress(c, s) \in Int /\ Fund!InProgress(c, s)' \in Int
                      /\ Fund!InProgress(c, s)'
                           = Fund!InProgress(c, s) - Part(actor[a], c, s) + Part(x, c, s)
                      /\ Part(actor[a], c, s) \in Nat /\ Part(x, c, s) \in Nat
    OBVIOUS
  <2>1. Part(actor[a], c, s) \in Nat /\ Part(x, c, s) \in Nat
    BY <1>0, PartTyped
  <2>2. Fund!InProgress(c, s) \in Int
    BY <1>0, FundProgressTyped
  <2>3. FundTyped /\ a \in Fund!Actors /\ x \in FundCopies /\ actor' = [actor EXCEPT ![a] = x]
    BY <1>0
  <2>4. Fund!InProgress(c, s)' = Fund!InProgress(c, s) - Part(actor[a], c, s) + Part(x, c, s)
    BY ONLY <2>3, ProgressMoves, ZenonT(60)
  <2>5. Fund!InProgress(c, s)' \in Int
    BY ONLY <2>1, <2>2, <2>4
  <2> QED BY <2>1, <2>2, <2>4, <2>5
<1>3. PICK p \in Int, q \in Int, p1 \in Int, q1 \in Int, i \in Nat, i1 \in Nat, o \in Nat, o1 \in Nat :
        /\ p = Fund!InProgress(c, Incoming) /\ p1 = Fund!InProgress(c, Incoming)'
        /\ q = Fund!InProgress(c, Outgoing) /\ q1 = Fund!InProgress(c, Outgoing)'
        /\ i = Part(actor[a], c, Incoming) /\ i1 = Part(x, c, Incoming)
        /\ o = Part(actor[a], c, Outgoing) /\ o1 = Part(x, c, Outgoing)
  BY <1>2
<1>4. p1 = p - i + i1 /\ q1 = q - o + o1
  BY <1>2, <1>3
<1>5. units[c] + p + redeemed[c] = bought[c] + q
  BY <1>1, <1>3 DEF UnitsBalance
<1>6. (units'[c] - units[c]) + (i1 - i) + (redeemed'[c] - redeemed[c])
        = (bought'[c] - bought[c]) + (o1 - o)
  BY <1>3
<1>7. units'[c] + p1 + redeemed'[c] = bought'[c] + q1
  BY <1>0, <1>4, <1>5, <1>6
<1> QED BY <1>3, <1>7 DEF UnitsBalance

\* One actor works on, alone on its redemption.
LEMMA RedemptionsStep ==
  ASSUME FundInv, NEW a \in Fund!Actors, NEW x \in FundCopies,
         actor' = [actor EXCEPT ![a] = x],
         x.id \in Others => \A b \in Fund!Actors \ {a} : actor[b].id # x.id,
         x.id \in Others =>
           IF a = Fund!Job THEN redemption'[x.id].status = "PENDING_LIQUIDATION" /\ x.id \notin todo'
           ELSE redemption'[x.id].status = "NONE",
         \A r \in Others : redemption'[r].status = redemption[r].status
                             \/ (actor[a].id = r /\ x.id = "none" /\ r \notin todo'),
         todo' \subseteq todo
  PROVE  RedemptionsMatch'
<1>0. actor \in [Fund!Actors -> FundCopies] /\ todo \subseteq Others /\ "none" \notin Others
  BY FundTypes, FundConstants DEF FundInv
<1>1. actor'[a] = x /\ \A b \in Fund!Actors \ {a} : actor'[b] = actor[b]
  BY <1>0
<1>2. RedemptionsMatch
  BY DEF FundInv
<1>3. ASSUME NEW b \in Fund!Actors, NEW d \in Fund!Actors,
             actor'[b].id \in Others, actor'[b].id = actor'[d].id, b # d
      PROVE  FALSE
  <2>1. CASE b # a /\ d # a
    BY <1>1, <1>2, <1>3, <2>1 DEF RedemptionsMatch
  <2>2. CASE b = a
    BY <1>1, <1>3, <2>2
  <2>3. CASE d = a
    BY <1>1, <1>3, <2>3
  <2> QED BY <2>1, <2>2, <2>3
<1>4. ASSUME NEW b \in Fund!Actors, actor'[b].id \in Others
      PROVE  IF b = Fund!Job
             THEN redemption'[actor'[b].id].status = "PENDING_LIQUIDATION" /\ actor'[b].id \notin todo'
             ELSE redemption'[actor'[b].id].status = "NONE"
  <2>1. CASE b = a
    BY <1>1, <1>4, <2>1
  <2>2. CASE b # a
    <3>1. actor[b].id # actor[a].id
      BY <1>1, <1>2, <1>4, <2>2 DEF RedemptionsMatch
    <3>2. redemption'[actor[b].id].status = redemption[actor[b].id].status
      BY <1>1, <1>4, <2>2, <3>1
    <3> QED BY <1>1, <1>2, <1>4, <2>2, <3>2 DEF RedemptionsMatch
  <2> QED BY <2>1, <2>2
<1>5. \A r \in todo' : redemption'[r].status = "PENDING_LIQUIDATION"
  BY <1>0, <1>2 DEF RedemptionsMatch
<1> QED BY <1>3, <1>4, <1>5 DEF RedemptionsMatch

\* Who is paid for a redemption does not change.
LEMMA PaidByKept ==
  ASSUME FundTyped, NEW a \in Fund!Actors, NEW x \in FundCopies,
         actor' = [actor EXCEPT ![a] = x], NEW r,
         (x.id = r /\ x.at \in PaidSteps) <=> (actor[a].id = r /\ actor[a].at \in PaidSteps)
  PROVE  PaidBy(r)' = PaidBy(r)
<1>1. actor'[a] = x /\ \A b \in Fund!Actors \ {a} : actor'[b] = actor[b]
  BY FundTypes
<1>2. \A b \in Fund!Actors :
        (actor'[b].id = r /\ actor'[b].at \in PaidSteps) <=> (actor[b].id = r /\ actor[b].at \in PaidSteps)
  BY <1>1
<1> QED BY <1>2 DEF PaidBy

\* The redemption that an actor is paid for is paid by nobody else.
LEMMA PaidByOne ==
  ASSUME FundInv, NEW a \in Fund!Actors, actor[a].id \in Others
  PROVE  /\ actor[a].at \in PaidSteps => PaidBy(actor[a].id) = {a}
         /\ actor[a].at \notin PaidSteps => PaidBy(actor[a].id) = {}
<1>1. \A b \in Fund!Actors : actor[b].id = actor[a].id => b = a
  BY DEF FundInv, RedemptionsMatch
<1> QED BY <1>1 DEF PaidBy

\* A step of an actor that leaves the redemptions alone.
LEMMA FundStepOf ==
  ASSUME FundInv, NEW a \in Fund!Actors, NEW x \in FundCopies, CopyMatches(a, x),
         actor' = [actor EXCEPT ![a] = x],
         Fund!FundTypeOK', redemption' \in [Others -> FundRows],
         \A c \in FundClients \ fClash' : PositionMatches(c)',
         \A c \in FundClients \ (fDisturbed' \cup fClash') : UnitsBalance(c)',
         RedemptionsMatch',
         \A r \in Others \ fDisturbed' : PaidOnce(r)'
  PROVE  FundInv'
<1>1. actor \in [Fund!Actors -> FundCopies] /\ \A b \in Fund!Actors : CopyMatches(b, actor[b])
  BY DEF FundInv, FundTyped
<1>2. actor' \in [Fund!Actors -> FundCopies] /\ actor'[a] = x
      /\ \A b \in Fund!Actors \ {a} : actor'[b] = actor[b]
  BY <1>1
<1>3. \A b \in Fund!Actors : CopyMatches(b, actor'[b])
  BY <1>1, <1>2
<1>4. FundTyped'
  BY <1>2, <1>3 DEF FundTyped, CopyMatches
<1> QED BY <1>4 DEF FundInv

\* The type invariant, from the parts that a step changes.
LEMMA FundTypeKept ==
  ASSUME FundInv, NEW a \in Fund!Actors, NEW x \in FundCopies, CopyMatches(a, x),
         actor' = [actor EXCEPT ![a] = x],
         liquid' \in 0 .. MaxLiquid, units' \in [FundClients -> Nat],
         redemption' \in [Others -> FundRows],
         \A r \in Others : redemption'[r].status # "NONE" => redemption'[r].client \in FundClients,
         todo' \subseteq Others,
         bought' \in [FundClients -> Nat], redeemed' \in [FundClients -> Nat],
         paidOut' \in [Others -> Nat],
         fDisturbed' \subseteq FundClients \cup Others, fClash' \subseteq FundClients
  PROVE  Fund!FundTypeOK'
<1>1. actor \in [Fund!Actors -> FundCopies] /\ \A b \in Fund!Actors : CopyMatches(b, actor[b])
  BY DEF FundInv, FundTyped
<1>2. actor' \in [Fund!Actors -> FundCopies] /\ actor'[a] = x
      /\ \A b \in Fund!Actors \ {a} : actor'[b] = actor[b]
  BY <1>1
<1>3. \A b \in Fund!Actors :
        /\ actor'[b].at \in {"idle", "invested", "upsert", "check", "withdraw", "complete",
                             "redeem", "close"}
        /\ actor'[b].at # "idle" => actor'[b].client \in FundClients /\ actor'[b].copy \in Nat
  BY <1>1, <1>2, CopyTyped DEF CopyMatches, FundSteps
<1>4. \A r \in Others :
        /\ redemption'[r].status \in {"NONE", "PENDING_LIQUIDATION", "COMPLETED"}
        /\ redemption'[r].status # "NONE" => redemption'[r].client \in FundClients
  BY RowTypedFund
<1>5. {bought', redeemed'} \subseteq [FundClients -> Nat]
  OBVIOUS
<1> QED BY <1>3, <1>4, <1>5 DEF Fund!FundTypeOK

LEMMA ActorWrites ==
  ASSUME FundTyped, NEW a \in Fund!Actors
  PROVE  /\ actor[a] \in FundCopies /\ CopyMatches(a, actor[a])
         /\ Fund!Idle \in FundCopies /\ CopyMatches(a, Fund!Idle)
         /\ Fund!Idle = [at |-> "idle", client |-> Fund!NoClient, id |-> "none", amount |-> 0,
                         copy |-> 0, nav |-> 1]
         /\ \A c \in FundClients : \A s : Part(Fund!Idle, c, s) = 0
         /\ \A s : Fund!Goes(a, s) =
              [actor EXCEPT ![a] = [at |-> s, client |-> actor[a].client, id |-> actor[a].id,
                                    amount |-> actor[a].amount, copy |-> actor[a].copy,
                                    nav |-> actor[a].nav]]
         /\ Fund!Ends(a) = [actor EXCEPT ![a] = Fund!Idle]
<1>1. actor[a] \in FundCopies /\ CopyMatches(a, actor[a]) /\ actor \in [Fund!Actors -> FundCopies]
  BY DEF FundTyped
<1>2. Fund!Idle = [at |-> "idle", client |-> Fund!NoClient, id |-> "none", amount |-> 0,
                   copy |-> 0, nav |-> 1]
  BY DEF Fund!Idle
<1>3. Fund!Idle \in FundCopies /\ CopyMatches(a, Fund!Idle)
  BY <1>2 DEF FundCopies, FundSteps, CopyMatches, Incoming
<1>4. \A c \in FundClients : \A s : Part(Fund!Idle, c, s) = 0
  BY <1>2, FundConstants DEF Part
<1>5. ASSUME NEW s
      PROVE  [actor[a] EXCEPT !.at = s] =
               [at |-> s, client |-> actor[a].client, id |-> actor[a].id,
                amount |-> actor[a].amount, copy |-> actor[a].copy, nav |-> actor[a].nav]
  BY <1>1, CopyTyped
<1> QED BY <1>1, <1>2, <1>3, <1>4, <1>5 DEF Fund!Goes, Fund!Ends

\* A step of a request or the job that pays nothing and writes nothing.
LEMMA QuietFundSteps ==
  ASSUME FundInv, NEW a \in Fund!Actors,
         \/ Fund!Refuse(a) \/ Fund!FailAfterPayment(a)
         \/ (\E nav \in Navs : Fund!CheckAvailable(a, nav)) \/ Fund!StartPayout(a)
  PROVE  FundInv'
<1>0. FundTyped
  BY DEF FundInv
<1>t. /\ actor[a] \in FundCopies /\ CopyMatches(a, actor[a])
      /\ liquid \in 0 .. MaxLiquid /\ units \in [FundClients -> Nat]
      /\ bought \in [FundClients -> Nat] /\ redeemed \in [FundClients -> Nat]
      /\ paidOut \in [Others -> Nat] /\ todo \subseteq Others
      /\ fDisturbed \subseteq FundClients \cup Others /\ fClash \subseteq FundClients
      /\ redemption \in [Others -> FundRows]
  BY <1>0, ActorWrites, FundTypes
<1>1. UNCHANGED <<liquid, units, redemption, todo, bought, redeemed, paidOut, fClash>>
  BY DEF Fund!Refuse, Fund!FailAfterPayment, Fund!CheckAvailable, Fund!StartPayout, Fund!history
<1>2. \E x \in FundCopies :
        /\ actor' = [actor EXCEPT ![a] = x] /\ CopyMatches(a, x)
        /\ x # Fund!Idle => /\ actor[a].at \in {"check", "withdraw", "complete"}
                            /\ x.at \in {"withdraw", "complete"}
                            /\ x.client = actor[a].client /\ x.id = actor[a].id
                            /\ x.copy = actor[a].copy
        /\ IF actor[a].at \in {"check", "withdraw", "complete"} THEN fDisturbed' = fDisturbed
           ELSE fDisturbed' = fDisturbed \cup ({actor[a].client, actor[a].id} \cap (FundClients \cup Others))
  <2>1. CASE Fund!Refuse(a)
    BY <1>0, <2>1, ActorWrites DEF Fund!Refuse, Fund!history
  <2>2. CASE Fund!FailAfterPayment(a)
    BY <1>0, <2>2, ActorWrites DEF Fund!FailAfterPayment, Fund!Disturbs
  <2>3. CASE (\E nav \in Navs : Fund!CheckAvailable(a, nav)) \/ Fund!StartPayout(a)
    <3>1. PICK s \in {"withdraw", "complete"} :
            /\ actor[a].at \in {"check", "withdraw"} /\ actor' = Fund!Goes(a, s)
            /\ fDisturbed' = fDisturbed
      BY <2>3 DEF Fund!CheckAvailable, Fund!StartPayout, Fund!history
    <3> DEFINE x == [at |-> s, client |-> actor[a].client, id |-> actor[a].id,
                     amount |-> actor[a].amount, copy |-> actor[a].copy, nav |-> actor[a].nav]
    <3>2. x \in FundCopies
      BY <1>t, CopyTyped DEF FundCopies, FundSteps
    <3>3. CopyMatches(a, x)
      BY <1>t, <3>1 DEF CopyMatches, Incoming
    <3>4. actor' = [actor EXCEPT ![a] = x]
      BY <1>0, <3>1, ActorWrites
    <3> QED BY <3>1, <3>2, <3>3, <3>4
  <2> QED BY <2>1, <2>2, <2>3
<1>3. PICK x \in FundCopies : <1>2!(x)
  BY <1>2
<1>i. x = Fund!Idle => /\ x.at = "idle" /\ x.client = Fund!NoClient /\ x.id = "none"
                       /\ x.client \notin FundClients
  BY <1>0, ActorWrites, FundConstants
<1>d. fDisturbed \subseteq fDisturbed' /\ fDisturbed' \subseteq FundClients \cup Others
  BY <1>t, <1>3
<1>4. Fund!FundTypeOK'
  <2>1. \A r \in Others : redemption[r].status # "NONE" => redemption[r].client \in FundClients
    BY <1>0 DEF FundTyped, Fund!FundTypeOK
  <2> QED BY <1>t, <1>1, <1>3, <1>d, <2>1, FundTypeKept
<1>5. \A c \in FundClients \ fClash' : PositionMatches(c)'
  <2>1. ASSUME NEW c \in FundClients \ fClash'
        PROVE  /\ x.client = c /\ x.at # "invested" => Fund!HoldsCopy(a, c)
               /\ x.client = c /\ x.at \notin {"invested", "close"} => x.copy = units'[c]
    <3>1. PositionMatches(c)
      BY <1>1 DEF FundInv
    <3>2. x.client = c => x # Fund!Idle
      BY <1>i
    <3> QED BY <1>1, <1>3, <3>1, <3>2 DEF PositionMatches, Fund!HoldsCopy
  <2> QED BY <1>1, <1>3, <2>1, PositionsStep
<1>6. \A c \in FundClients \ (fDisturbed' \cup fClash') : UnitsBalance(c)'
  <2>1. ASSUME NEW c \in FundClients \ (fDisturbed' \cup fClash')
        PROVE  /\ Part(x, c, Incoming) = 0 /\ Part(x, c, Outgoing) = 0
               /\ Part(actor[a], c, Incoming) = 0 /\ Part(actor[a], c, Outgoing) = 0
    <3>1. Part(x, c, Incoming) = 0 /\ Part(x, c, Outgoing) = 0
      BY <1>3, <1>i DEF Part, Incoming, Outgoing
    <3>2. actor[a].client = c => actor[a].at \in {"check", "withdraw", "complete"}
      BY <1>3
    <3> QED BY <3>1, <3>2 DEF Part, Incoming, Outgoing
  <2>2. ASSUME NEW c \in FundClients \ (fDisturbed' \cup fClash')
        PROVE  (units'[c] - units[c]) + (Part(x, c, Incoming) - Part(actor[a], c, Incoming))
                 + (redeemed'[c] - redeemed[c])
               = (bought'[c] - bought[c]) + (Part(x, c, Outgoing) - Part(actor[a], c, Outgoing))
    BY <1>t, <1>1, <2>1
  <2> QED BY <1>t, <1>1, <1>3, <1>d, <2>2, UnitsStep
<1>7. RedemptionsMatch'
  <2>1. RedemptionsMatch
    BY DEF FundInv
  <2>2. x.id \in Others => x.id = actor[a].id
    BY <1>3, <1>i, FundConstants
  <2>3. /\ x.id \in Others => \A b \in Fund!Actors \ {a} : actor[b].id # x.id
        /\ x.id \in Others =>
             IF a = Fund!Job THEN redemption'[x.id].status = "PENDING_LIQUIDATION" /\ x.id \notin todo'
             ELSE redemption'[x.id].status = "NONE"
    BY <1>1, <2>1, <2>2 DEF RedemptionsMatch
  <2> QED BY <1>1, <1>3, <2>3, RedemptionsStep
<1>8. \A r \in Others \ fDisturbed' : PaidOnce(r)'
  <2> SUFFICES ASSUME NEW r \in Others \ fDisturbed' PROVE PaidOnce(r)'
    OBVIOUS
  <2>1. ~ (x.id = r /\ x.at \in PaidSteps)
    BY <1>3, <1>i DEF PaidSteps
  <2>2. ~ (actor[a].id = r /\ actor[a].at \in PaidSteps)
    BY <1>3 DEF PaidSteps
  <2>3. PaidBy(r)' = PaidBy(r)
    BY <1>0, <1>3, <2>1, <2>2, PaidByKept
  <2>4. PaidOnce(r)
    BY <1>d DEF FundInv
  <2> QED BY <1>1, <2>3, <2>4 DEF PaidOnce
<1> QED BY <1>1, <1>t, <1>3, <1>4, <1>5, <1>6, <1>7, <1>8, FundStepOf

\* The redemptions are left alone by an actor that has none.
LEMMA NoRedemptionTouched ==
  ASSUME FundInv, NEW a \in Fund!Actors, NEW x \in FundCopies,
         actor' = [actor EXCEPT ![a] = x], UNCHANGED <<redemption, todo, paidOut>>,
         fDisturbed \subseteq fDisturbed',
         x.id = "none" \/ (x.id = actor[a].id /\ ~ (x.at \in PaidSteps /\ actor[a].at \notin PaidSteps)),
         actor[a].at \in PaidSteps /\ actor[a].id \notin fDisturbed' => x.id = actor[a].id /\ x.at \in PaidSteps
  PROVE  RedemptionsMatch' /\ \A r \in Others \ fDisturbed' : PaidOnce(r)'
<1>0. FundTyped /\ RedemptionsMatch /\ "none" \notin Others
  BY FundConstants DEF FundInv
<1>1. RedemptionsMatch'
  <2>1. /\ x.id \in Others => \A b \in Fund!Actors \ {a} : actor[b].id # x.id
        /\ x.id \in Others =>
             IF a = Fund!Job THEN redemption'[x.id].status = "PENDING_LIQUIDATION" /\ x.id \notin todo'
             ELSE redemption'[x.id].status = "NONE"
    BY <1>0 DEF RedemptionsMatch
  <2> QED BY <2>1, RedemptionsStep
<1>2. ASSUME NEW r \in Others \ fDisturbed' PROVE PaidOnce(r)'
  <2>1. (x.id = r /\ x.at \in PaidSteps) <=> (actor[a].id = r /\ actor[a].at \in PaidSteps)
    BY <1>0
  <2>2. PaidBy(r)' = PaidBy(r)
    BY <1>0, <2>1, PaidByKept
  <2>3. PaidOnce(r)
    BY DEF FundInv
  <2> QED BY <2>2, <2>3 DEF PaidOnce
<1> QED BY <1>1, <1>2

\* Copies with several fields changed.
LEMMA CopyInvested ==
  ASSUME NEW c, NEW m, NEW n
  PROVE  [Fund!Idle EXCEPT !.at = "invested", !.client = c, !.amount = m, !.nav = n] =
           [at |-> "invested", client |-> c, id |-> "none", amount |-> m, copy |-> 0, nav |-> n]
<1>1. [Fund!Idle EXCEPT !.at = "invested"] =
        [at |-> "invested", client |-> Fund!NoClient, id |-> "none", amount |-> 0, copy |-> 0, nav |-> 1]
  BY DEF Fund!Idle
<1>2. [[at |-> "invested", client |-> Fund!NoClient, id |-> "none", amount |-> 0, copy |-> 0,
        nav |-> 1] EXCEPT !.client = c] =
        [at |-> "invested", client |-> c, id |-> "none", amount |-> 0, copy |-> 0, nav |-> 1]
  OBVIOUS
<1>3. [[at |-> "invested", client |-> c, id |-> "none", amount |-> 0, copy |-> 0, nav |-> 1]
        EXCEPT !.amount = m] =
        [at |-> "invested", client |-> c, id |-> "none", amount |-> m, copy |-> 0, nav |-> 1]
  OBVIOUS
<1>4. [[at |-> "invested", client |-> c, id |-> "none", amount |-> m, copy |-> 0, nav |-> 1]
        EXCEPT !.nav = n] =
        [at |-> "invested", client |-> c, id |-> "none", amount |-> m, copy |-> 0, nav |-> n]
  OBVIOUS
<1> QED BY <1>1, <1>2, <1>3, <1>4

LEMMA CopyRead ==
  ASSUME FundTyped, NEW a \in Fund!Actors, Fund!RecordInvestment(a)
  PROVE  actor' = [actor EXCEPT ![a] =
                     [at |-> "upsert", client |-> actor[a].client, id |-> actor[a].id,
                      amount |-> actor[a].amount, copy |-> units[actor[a].client],
                      nav |-> actor[a].nav]]
<1> DEFINE y == [at |-> "upsert", client |-> actor[a].client, id |-> actor[a].id,
                 amount |-> actor[a].amount, copy |-> actor[a].copy, nav |-> actor[a].nav]
           n == units[actor[a].client]
<1>0. actor \in [Fund!Actors -> FundCopies] /\ actor[a] \in FundCopies
  BY FundTypes
<1>1. [actor[a] EXCEPT !.at = "upsert"] = y
  BY <1>0, CopyTyped
<1>2. [y EXCEPT !.copy = n] =
        [at |-> "upsert", client |-> actor[a].client, id |-> actor[a].id,
         amount |-> actor[a].amount, copy |-> n, nav |-> actor[a].nav]
  OBVIOUS
<1>3. [actor EXCEPT ![a].at = "upsert"] = [actor EXCEPT ![a] = y]
  BY <1>0, <1>1
<1>4. [[actor EXCEPT ![a] = y] EXCEPT ![a].copy = n] = [actor EXCEPT ![a] = [y EXCEPT !.copy = n]]
  BY <1>0
<1>5. actor' = [actor EXCEPT ![a].at = "upsert", ![a].copy = n]
  BY DEF Fund!RecordInvestment
<1> QED BY <1>2, <1>3, <1>4, <1>5

LEMMA CopyPaid ==
  ASSUME FundTyped, NEW a \in Fund!Actors, NEW nav \in Navs,
         actor' = [actor EXCEPT ![a].at = "redeem", ![a].nav = nav]
  PROVE  actor' = [actor EXCEPT ![a] =
                     [at |-> "redeem", client |-> actor[a].client, id |-> actor[a].id,
                      amount |-> actor[a].amount, copy |-> actor[a].copy, nav |-> nav]]
<1> DEFINE y == [at |-> "redeem", client |-> actor[a].client, id |-> actor[a].id,
                 amount |-> actor[a].amount, copy |-> actor[a].copy, nav |-> actor[a].nav]
<1>0. actor \in [Fund!Actors -> FundCopies] /\ actor[a] \in FundCopies
  BY FundTypes
<1>1. [actor[a] EXCEPT !.at = "redeem"] = y
  BY <1>0, CopyTyped
<1>2. [y EXCEPT !.nav = nav] =
        [at |-> "redeem", client |-> actor[a].client, id |-> actor[a].id,
         amount |-> actor[a].amount, copy |-> actor[a].copy, nav |-> nav]
  OBVIOUS
<1>3. [actor EXCEPT ![a].at = "redeem"] = [actor EXCEPT ![a] = y]
  BY <1>0, <1>1
<1>4. [[actor EXCEPT ![a] = y] EXCEPT ![a].nav = nav] = [actor EXCEPT ![a] = [y EXCEPT !.nav = nav]]
  BY <1>0
<1> QED BY <1>2, <1>3, <1>4

LEMMA PaidIn ==
  ASSUME FundInv, NEW a \in Pair, NEW c \in FundClients, NEW m \in FundAmounts, NEW nav \in Navs,
         Fund!PayIn(a, c, m, nav)
  PROVE  FundInv'
<1> DEFINE new == [at |-> "invested", client |-> c, id |-> "none", amount |-> m, copy |-> 0,
                   nav |-> nav]
<1>0. FundTyped /\ a \in Fund!Actors
  BY FundConstants DEF FundInv
<1>c. m \in Nat /\ nav \in Nat \ {0} /\ MaxLiquid \in Nat /\ m \div nav \in Nat
  <2>1. m \in Nat /\ nav \in Nat \ {0} /\ MaxLiquid \in Nat
    BY FundConstants
  <2> QED BY <2>1
<1>t. /\ actor \in [Fund!Actors -> FundCopies]
      /\ liquid \in 0 .. MaxLiquid /\ units \in [FundClients -> Nat]
      /\ bought \in [FundClients -> Nat] /\ redeemed \in [FundClients -> Nat]
      /\ paidOut \in [Others -> Nat] /\ todo \subseteq Others
      /\ fDisturbed \subseteq FundClients \cup Others /\ fClash \subseteq FundClients
      /\ redemption \in [Others -> FundRows]
  BY <1>0, ActorWrites, FundTypes
<1>1. /\ actor[a] = Fund!Idle /\ liquid' = liquid + m /\ liquid + m <= MaxLiquid
      /\ bought' = [bought EXCEPT ![c] = @ + m \div nav]
      /\ UNCHANGED <<units, redemption, todo, redeemed, paidOut, fClash>>
  BY DEF Fund!PayIn
<1>i. /\ actor[a].at = "idle" /\ actor[a].id = "none" /\ actor[a].client = Fund!NoClient
      /\ \A b \in FundClients : \A s : Part(actor[a], b, s) = 0
      /\ CopyMatches(a, actor[a])
  BY <1>0, <1>1, ActorWrites
<1>2. \E x \in FundCopies :
        /\ actor' = [actor EXCEPT ![a] = x]
        /\ \/ x = new /\ fDisturbed' = fDisturbed
           \/ /\ x = actor[a] /\ fDisturbed \subseteq fDisturbed' /\ c \in fDisturbed'
              /\ fDisturbed' \subseteq FundClients \cup Others
  <2>1. CASE /\ actor' = [actor EXCEPT ![a] = [Fund!Idle EXCEPT
                            !.at = "invested", !.client = c, !.amount = m, !.nav = nav]]
             /\ UNCHANGED fDisturbed
    <3>1. [Fund!Idle EXCEPT !.at = "invested", !.client = c, !.amount = m, !.nav = nav] = new
      BY CopyInvested
    <3>2. new \in FundCopies
      BY <1>c DEF FundCopies, FundSteps
    <3> QED BY <2>1, <3>1, <3>2
  <2>2. CASE Fund!Disturbs(c, "none") /\ UNCHANGED actor
    <3>1. actor' = [actor EXCEPT ![a] = actor[a]] /\ actor[a] \in FundCopies
      BY <1>0, <1>t, <2>2
    <3>2. /\ fDisturbed \subseteq fDisturbed' /\ c \in fDisturbed'
          /\ fDisturbed' \subseteq FundClients \cup Others
      BY <1>t, <2>2 DEF Fund!Disturbs
    <3> QED BY <3>1, <3>2
  <2> QED BY <2>1, <2>2 DEF Fund!PayIn
<1>3. PICK x \in FundCopies : <1>2!(x)
  BY <1>2
<1>m. /\ CopyMatches(a, x) /\ x.id = "none" /\ x.at \in {"invested", "idle"}
      /\ x.client \in FundClients => x.at = "invested"
  BY <1>3, <1>i, FundConstants DEF CopyMatches, Incoming
<1>d. fDisturbed \subseteq fDisturbed' /\ fDisturbed' \subseteq FundClients \cup Others
  BY <1>t, <1>3
<1>4. Fund!FundTypeOK'
  <2>1. \A r \in Others : redemption[r].status # "NONE" => redemption[r].client \in FundClients
    BY <1>0 DEF FundTyped, Fund!FundTypeOK
  <2>2. liquid' \in 0 .. MaxLiquid /\ bought' \in [FundClients -> Nat]
    BY <1>t, <1>c, <1>1
  <2> QED BY <1>0, <1>t, <1>1, <1>3, <1>m, <1>d, <2>1, <2>2, FundTypeKept
<1>5. \A b \in FundClients \ fClash' : PositionMatches(b)'
  BY <1>0, <1>1, <1>3, <1>m, PositionsStep
<1>6. \A b \in FundClients \ (fDisturbed' \cup fClash') : UnitsBalance(b)'
  <2>1. ASSUME NEW b \in FundClients \ (fDisturbed' \cup fClash')
        PROVE  (units'[b] - units[b]) + (Part(x, b, Incoming) - Part(actor[a], b, Incoming))
                 + (redeemed'[b] - redeemed[b])
               = (bought'[b] - bought[b]) + (Part(x, b, Outgoing) - Part(actor[a], b, Outgoing))
    <3>1. Part(actor[a], b, Incoming) = 0 /\ Part(actor[a], b, Outgoing) = 0
      BY <1>i
    <3>2. Part(x, b, Outgoing) = 0
      BY <1>m DEF Part, Outgoing
    <3>3. Part(x, b, Incoming) = IF b = c THEN m \div nav ELSE 0
      <4>1. CASE x = new
        BY <4>1 DEF Part, Incoming
      <4>2. CASE x # new
        BY <1>3, <1>i, <3>1, <4>2
      <4> QED BY <4>1, <4>2
    <3>4. bought'[b] = IF b = c THEN bought[b] + m \div nav ELSE bought[b]
      BY <1>t, <1>1
    <3>5. units'[b] - units[b] = 0 /\ redeemed'[b] - redeemed[b] = 0
      BY <1>t, <1>1
    <3>6. bought[b] \in Nat
      BY <1>t
    <3> QED BY <1>c, <3>1, <3>2, <3>3, <3>4, <3>5, <3>6
  <2>2. bought' \in [FundClients -> Nat]
    BY <1>t, <1>c, <1>1
  <2> QED BY <1>0, <1>t, <1>1, <1>3, <1>d, <2>1, <2>2, UnitsStep
<1>7. RedemptionsMatch' /\ \A r \in Others \ fDisturbed' : PaidOnce(r)'
  BY <1>0, <1>1, <1>3, <1>i, <1>m, <1>d, NoRedemptionTouched DEF PaidSteps
<1> QED BY <1>0, <1>1, <1>t, <1>3, <1>m, <1>4, <1>5, <1>6, <1>7, FundStepOf

\* An actor that reads a position no other holds is alone on it.
LEMMA ReadAlone ==
  ASSUME NEW a \in Fund!Actors, NEW c \in FundClients, fClash \subseteq FundClients,
         Fund!ReadsPosition(a, c)
  PROVE  /\ fClash \subseteq fClash' /\ fClash' \subseteq FundClients
         /\ c \notin fClash' => \A b \in Fund!Actors \ {a} : ~ Fund!HoldsCopy(b, c)
BY DEF Fund!ReadsPosition

\* An investment is recorded, and the position read.
LEMMA RecordedInvestment ==
  ASSUME FundInv, NEW a \in Pair, Fund!RecordInvestment(a)
  PROVE  FundInv'
<1> DEFINE c == actor[a].client
           x == [at |-> "upsert", client |-> actor[a].client, id |-> actor[a].id,
                 amount |-> actor[a].amount, copy |-> units[c], nav |-> actor[a].nav]
<1>0. FundTyped /\ a \in Fund!Actors
  BY FundConstants DEF FundInv
<1>t. /\ actor \in [Fund!Actors -> FundCopies] /\ actor[a] \in FundCopies
      /\ CopyMatches(a, actor[a])
      /\ liquid \in 0 .. MaxLiquid /\ units \in [FundClients -> Nat]
      /\ bought \in [FundClients -> Nat] /\ redeemed \in [FundClients -> Nat]
      /\ paidOut \in [Others -> Nat] /\ todo \subseteq Others
      /\ fDisturbed \subseteq FundClients \cup Others /\ fClash \subseteq FundClients
      /\ redemption \in [Others -> FundRows]
  BY <1>0, ActorWrites, FundTypes
<1>1. /\ actor[a].at = "invested" /\ c \in FundClients /\ actor[a].id = "none"
      /\ Fund!ReadsPosition(a, c)
      /\ UNCHANGED <<liquid, units, redemption, todo, bought, redeemed, paidOut, fDisturbed>>
  BY <1>t DEF Fund!RecordInvestment, CopyMatches
<1>2. actor' = [actor EXCEPT ![a] = x]
  BY <1>0, CopyRead
<1>3. x \in FundCopies /\ CopyMatches(a, x)
  <2>1. units[c] \in Nat
    BY <1>t, <1>1
  <2>2. x \in FundCopies
    BY <1>t, <2>1, CopyTyped DEF FundCopies, FundSteps
  <2> QED BY <2>2, <1>1 DEF CopyMatches, Incoming
<1>4. /\ fClash \subseteq fClash' /\ fClash' \subseteq FundClients
      /\ c \notin fClash' => \A b \in Fund!Actors \ {a} : ~ Fund!HoldsCopy(b, c)
  BY <1>0, <1>t, <1>1, ReadAlone
<1>x. x.at = "upsert" /\ x.client = c /\ x.id = "none" /\ x.copy = units[c]
      /\ x.amount = actor[a].amount /\ x.nav = actor[a].nav
  BY <1>1
<1> HIDE DEF x
<1>5. Fund!FundTypeOK'
  <2>1. \A r \in Others : redemption[r].status # "NONE" => redemption[r].client \in FundClients
    BY <1>0 DEF FundTyped, Fund!FundTypeOK
  <2> QED BY <1>0, <1>t, <1>1, <1>2, <1>3, <1>4, <2>1, FundTypeKept
<1>6. \A b \in FundClients \ fClash' : PositionMatches(b)'
  <2>1. \A b \in FundClients \ fClash' :
          /\ x.client = b /\ x.at # "invested" =>
               Fund!HoldsCopy(a, b) \/ \A d \in Fund!Actors \ {a} : ~ Fund!HoldsCopy(d, b)
          /\ x.client = b /\ x.at \notin {"invested", "close"} => x.copy = units'[b]
          /\ units'[b] = units[b] \/ Fund!HoldsCopy(a, b)
    BY <1>1, <1>4, <1>x
  <2> QED BY <1>0, <1>2, <1>3, <1>4, <2>1, PositionsStep
<1>7. \A b \in FundClients \ (fDisturbed' \cup fClash') : UnitsBalance(b)'
  <2>1. ASSUME NEW b \in FundClients \ (fDisturbed' \cup fClash')
        PROVE  (units'[b] - units[b]) + (Part(x, b, Incoming) - Part(actor[a], b, Incoming))
                 + (redeemed'[b] - redeemed[b])
               = (bought'[b] - bought[b]) + (Part(x, b, Outgoing) - Part(actor[a], b, Outgoing))
    <3>1. /\ Part(x, b, Incoming) = Part(actor[a], b, Incoming)
          /\ Part(x, b, Outgoing) = 0 /\ Part(actor[a], b, Outgoing) = 0
      BY <1>1, <1>x DEF Part, Incoming, Outgoing
    <3>2. Part(x, b, Incoming) \in Nat
      BY <1>3, PartTyped
    <3> QED BY <1>t, <1>1, <3>1, <3>2
  <2> QED BY <1>0, <1>t, <1>1, <1>2, <1>3, <1>4, <2>1, UnitsStep
<1>8. RedemptionsMatch' /\ \A r \in Others \ fDisturbed' : PaidOnce(r)'
  BY <1>0, <1>1, <1>2, <1>3, <1>x, NoRedemptionTouched DEF PaidSteps
<1> QED BY <1>0, <1>t, <1>1, <1>2, <1>3, <1>5, <1>6, <1>7, <1>8, FundStepOf

\* The position is written with the units of an investment.
LEMMA PositionUpserted ==
  ASSUME FundInv, NEW a \in Pair, Fund!UpsertPosition(a)
  PROVE  FundInv'
<1> DEFINE c == actor[a].client
           x == Fund!Idle
           u == actor[a].amount \div actor[a].nav
<1>0. FundTyped /\ a \in Fund!Actors
  BY FundConstants DEF FundInv
<1>t. /\ actor \in [Fund!Actors -> FundCopies] /\ actor[a] \in FundCopies
      /\ CopyMatches(a, actor[a])
      /\ liquid \in 0 .. MaxLiquid /\ units \in [FundClients -> Nat]
      /\ bought \in [FundClients -> Nat] /\ redeemed \in [FundClients -> Nat]
      /\ paidOut \in [Others -> Nat] /\ todo \subseteq Others
      /\ fDisturbed \subseteq FundClients \cup Others /\ fClash \subseteq FundClients
      /\ redemption \in [Others -> FundRows]
  BY <1>0, ActorWrites, FundTypes
<1>1. /\ actor[a].at = "upsert" /\ c \in FundClients /\ actor[a].id = "none"
      /\ units' = [units EXCEPT ![c] = actor[a].copy + u]
      /\ UNCHANGED <<liquid, redemption, todo, bought, redeemed, paidOut, fDisturbed, fClash>>
  BY <1>t DEF Fund!UpsertPosition, Fund!Increased, Fund!history, CopyMatches
<1>2. actor' = [actor EXCEPT ![a] = x] /\ x \in FundCopies /\ CopyMatches(a, x)
  BY <1>0, ActorWrites DEF Fund!UpsertPosition
<1>x. /\ x.at = "idle" /\ x.client = Fund!NoClient /\ x.id = "none" /\ x.client \notin FundClients
      /\ \A b \in FundClients : \A s : Part(x, b, s) = 0
  BY <1>0, ActorWrites, FundConstants
<1>3. u \in Nat /\ actor[a].copy \in Nat
  BY <1>t, CopyTyped
<1>4. units' \in [FundClients -> Nat]
  BY <1>t, <1>1, <1>3
<1> HIDE DEF x, u
<1>5. Fund!FundTypeOK'
  <2>1. \A r \in Others : redemption[r].status # "NONE" => redemption[r].client \in FundClients
    BY <1>0 DEF FundTyped, Fund!FundTypeOK
  <2> QED BY <1>0, <1>t, <1>1, <1>2, <1>4, <2>1, FundTypeKept
<1>h. Fund!HoldsCopy(a, c)
  BY <1>1 DEF Fund!HoldsCopy
<1>6. \A b \in FundClients \ fClash' : PositionMatches(b)'
  <2>1. \A b \in FundClients \ fClash' :
          /\ x.client = b /\ x.at # "invested" =>
               Fund!HoldsCopy(a, b) \/ \A d \in Fund!Actors \ {a} : ~ Fund!HoldsCopy(d, b)
          /\ x.client = b /\ x.at \notin {"invested", "close"} => x.copy = units'[b]
          /\ units'[b] = units[b] \/ Fund!HoldsCopy(a, b)
    BY <1>t, <1>1, <1>h, <1>x
  <2> QED BY <1>0, <1>1, <1>2, <2>1, PositionsStep
<1>7. \A b \in FundClients \ (fDisturbed' \cup fClash') : UnitsBalance(b)'
  <2>1. ASSUME NEW b \in FundClients \ (fDisturbed' \cup fClash')
        PROVE  (units'[b] - units[b]) + (Part(x, b, Incoming) - Part(actor[a], b, Incoming))
                 + (redeemed'[b] - redeemed[b])
               = (bought'[b] - bought[b]) + (Part(x, b, Outgoing) - Part(actor[a], b, Outgoing))
    <3>1. /\ Part(x, b, Incoming) = 0 /\ Part(x, b, Outgoing) = 0
          /\ Part(actor[a], b, Outgoing) = 0
      BY <1>1, <1>x DEF Part, Outgoing
    <3>2. Part(actor[a], b, Incoming) = IF b = c THEN u ELSE 0
      BY <1>1 DEF Part, Incoming, u
    <3>3. units'[b] - units[b] = IF b = c THEN u ELSE 0
      <4>1. CASE b = c
        <5>1. actor[a].copy = units[b]
          BY <1>0, <1>1, <1>h, <4>1 DEF FundInv, PositionMatches
        <5> QED BY <1>t, <1>1, <1>3, <4>1, <5>1
      <4>2. CASE b # c
        BY <1>t, <1>1, <4>2
      <4> QED BY <4>1, <4>2
    <3> QED BY <1>t, <1>1, <1>3, <3>1, <3>2, <3>3
  <2> QED BY <1>0, <1>t, <1>1, <1>2, <1>4, <2>1, UnitsStep
<1>8. RedemptionsMatch' /\ \A r \in Others \ fDisturbed' : PaidOnce(r)'
  BY <1>0, <1>1, <1>2, <1>x, NoRedemptionTouched DEF PaidSteps
<1> QED BY <1>0, <1>t, <1>1, <1>2, <1>4, <1>5, <1>6, <1>7, <1>8, FundStepOf

\* An idle actor takes a redemption that nobody works on.
LEMMA RedemptionTaken ==
  ASSUME FundInv, NEW a \in Fund!Actors, NEW s \in {"check", "complete"},
         NEW c \in FundClients, NEW r \in Others, NEW m \in Nat,
         actor[a] = Fund!Idle,
         actor' = [actor EXCEPT ![a] = [Fund!Idle EXCEPT
                     !.at = s, !.client = c, !.id = r, !.amount = m, !.copy = units[c]]],
         Fund!ReadsPosition(a, c), todo' \subseteq todo,
         UNCHANGED <<liquid, units, redemption, bought, redeemed, paidOut, fDisturbed>>,
         \A b \in Fund!Actors \ {a} : actor[b].id # r,
         IF a = Fund!Job THEN redemption[r].status = "PENDING_LIQUIDATION" /\ r \notin todo'
         ELSE redemption[r].status = "NONE"
  PROVE  FundInv'
<1> DEFINE x == [at |-> s, client |-> c, id |-> r, amount |-> m, copy |-> units[c], nav |-> 1]
<1>0. FundTyped /\ "none" \notin Others
  BY FundConstants DEF FundInv
<1>t. /\ actor \in [Fund!Actors -> FundCopies] /\ actor[a] \in FundCopies
      /\ liquid \in 0 .. MaxLiquid /\ units \in [FundClients -> Nat]
      /\ bought \in [FundClients -> Nat] /\ redeemed \in [FundClients -> Nat]
      /\ paidOut \in [Others -> Nat] /\ todo \subseteq Others
      /\ fDisturbed \subseteq FundClients \cup Others /\ fClash \subseteq FundClients
      /\ redemption \in [Others -> FundRows]
  BY <1>0, ActorWrites, FundTypes
<1>2. actor' = [actor EXCEPT ![a] = x]
  <2>1. [Fund!Idle EXCEPT !.at = s] =
          [at |-> s, client |-> Fund!NoClient, id |-> "none", amount |-> 0, copy |-> 0, nav |-> 1]
    BY DEF Fund!Idle
  <2>2. [[at |-> s, client |-> Fund!NoClient, id |-> "none", amount |-> 0, copy |-> 0, nav |-> 1]
          EXCEPT !.client = c] =
          [at |-> s, client |-> c, id |-> "none", amount |-> 0, copy |-> 0, nav |-> 1]
    OBVIOUS
  <2>3. [[at |-> s, client |-> c, id |-> "none", amount |-> 0, copy |-> 0, nav |-> 1]
          EXCEPT !.id = r] =
          [at |-> s, client |-> c, id |-> r, amount |-> 0, copy |-> 0, nav |-> 1]
    OBVIOUS
  <2>4. [[at |-> s, client |-> c, id |-> r, amount |-> 0, copy |-> 0, nav |-> 1] EXCEPT !.amount = m] =
          [at |-> s, client |-> c, id |-> r, amount |-> m, copy |-> 0, nav |-> 1]
    OBVIOUS
  <2>5. [[at |-> s, client |-> c, id |-> r, amount |-> m, copy |-> 0, nav |-> 1] EXCEPT !.copy = units[c]] =
          [at |-> s, client |-> c, id |-> r, amount |-> m, copy |-> units[c], nav |-> 1]
    OBVIOUS
  <2>6. [Fund!Idle EXCEPT !.at = s, !.client = c, !.id = r] =
          [at |-> s, client |-> c, id |-> r, amount |-> 0, copy |-> 0, nav |-> 1]
    BY <2>1, <2>2, <2>3
  <2>7. [Fund!Idle EXCEPT !.at = s, !.client = c, !.id = r, !.amount = m] =
          [at |-> s, client |-> c, id |-> r, amount |-> m, copy |-> 0, nav |-> 1]
    BY <2>4, <2>6
  <2> QED BY <2>5, <2>7
<1>3. x \in FundCopies /\ CopyMatches(a, x)
  <2>1. units[c] \in Nat
    BY <1>t
  <2>2. x \in FundCopies
    BY <2>1 DEF FundCopies, FundSteps
  <2> QED BY <2>2 DEF CopyMatches, Incoming
<1>4. /\ fClash \subseteq fClash' /\ fClash' \subseteq FundClients
      /\ c \notin fClash' => \A b \in Fund!Actors \ {a} : ~ Fund!HoldsCopy(b, c)
  BY <1>t, ReadAlone
<1>x. x.at \in {"check", "complete"} /\ x.client = c /\ x.id = r /\ x.copy = units[c]
  OBVIOUS
<1>i. /\ actor[a].at = "idle" /\ actor[a].id = "none"
      /\ \A b \in FundClients : \A p : Part(actor[a], b, p) = 0
  BY <1>0, ActorWrites
<1>p. \A b \in FundClients : Part(x, b, Incoming) = 0 /\ Part(x, b, Outgoing) = 0
  BY <1>x DEF Part, Incoming, Outgoing
<1> HIDE DEF x
<1>5. Fund!FundTypeOK'
  <2>1. \A q \in Others : redemption[q].status # "NONE" => redemption[q].client \in FundClients
    BY <1>0 DEF FundTyped, Fund!FundTypeOK
  <2>2. todo' \subseteq Others
    BY <1>t
  <2> QED BY <1>0, <1>t, <1>2, <1>3, <1>4, <2>1, <2>2, FundTypeKept
<1>6. \A b \in FundClients \ fClash' : PositionMatches(b)'
  <2>1. \A b \in FundClients \ fClash' :
          /\ x.client = b /\ x.at # "invested" =>
               Fund!HoldsCopy(a, b) \/ \A d \in Fund!Actors \ {a} : ~ Fund!HoldsCopy(d, b)
          /\ x.client = b /\ x.at \notin {"invested", "close"} => x.copy = units'[b]
          /\ units'[b] = units[b] \/ Fund!HoldsCopy(a, b)
    BY <1>4, <1>x
  <2> QED BY <1>2, <1>3, <1>4, <2>1, PositionsStep
<1>7. \A b \in FundClients \ (fDisturbed' \cup fClash') : UnitsBalance(b)'
  <2>1. ASSUME NEW b \in FundClients \ (fDisturbed' \cup fClash')
        PROVE  (units'[b] - units[b]) + (Part(x, b, Incoming) - Part(actor[a], b, Incoming))
                 + (redeemed'[b] - redeemed[b])
               = (bought'[b] - bought[b]) + (Part(x, b, Outgoing) - Part(actor[a], b, Outgoing))
    <3>1. Part(actor[a], b, Incoming) = 0 /\ Part(actor[a], b, Outgoing) = 0
      BY <1>i
    <3> QED BY <1>t, <1>p, <3>1
  <2> QED BY <1>t, <1>2, <1>3, <1>4, <2>1, UnitsStep
<1>8. RedemptionsMatch'
  <2>1. /\ x.id \in Others => \A b \in Fund!Actors \ {a} : actor[b].id # x.id
        /\ x.id \in Others =>
             IF a = Fund!Job THEN redemption'[x.id].status = "PENDING_LIQUIDATION" /\ x.id \notin todo'
             ELSE redemption'[x.id].status = "NONE"
    BY <1>x
  <2>2. \A q \in Others : redemption'[q].status = redemption[q].status
    OBVIOUS
  <2> QED BY <1>2, <1>3, <2>1, <2>2, RedemptionsStep
<1>9. ASSUME NEW q \in Others \ fDisturbed' PROVE PaidOnce(q)'
  <2>1. ~ (x.id = q /\ x.at \in PaidSteps) /\ ~ (actor[a].id = q /\ actor[a].at \in PaidSteps)
    BY <1>0, <1>x, <1>i DEF PaidSteps
  <2>2. PaidBy(q)' = PaidBy(q)
    BY <1>0, <1>2, <1>3, <2>1, PaidByKept
  <2>3. PaidOnce(q)
    BY DEF FundInv
  <2> QED BY <2>2, <2>3 DEF PaidOnce
<1> QED BY <1>t, <1>2, <1>3, <1>5, <1>6, <1>7, <1>8, <1>9, FundStepOf

LEMMA WithdrawalBegun ==
  ASSUME FundInv, NEW a \in Pair, NEW c \in FundClients, NEW r \in Others, NEW m \in FundAmounts,
         Fund!BeginWithdrawal(a, c, r, m)
  PROVE  FundInv'
<1>0. FundTyped /\ a \in Fund!Actors /\ m \in Nat /\ a # Fund!Job
  BY FundConstants DEF FundInv
<1>1. /\ actor[a] = Fund!Idle /\ Fund!Free(r) /\ Fund!ReadsPosition(a, c)
      /\ UNCHANGED <<liquid, units, redemption, todo, bought, redeemed, paidOut, fDisturbed>>
  BY DEF Fund!BeginWithdrawal
<1>2. actor' = [actor EXCEPT ![a] = [Fund!Idle EXCEPT
                  !.at = "check", !.client = c, !.id = r, !.amount = m, !.copy = units[c]]]
  BY DEF Fund!BeginWithdrawal
<1>3. redemption[r].status = "NONE" /\ \A b \in Fund!Actors : actor[b].id # r
  BY <1>1 DEF Fund!Free
<1>4. "check" \in {"check", "complete"} /\ todo' \subseteq todo
  BY <1>1
<1> QED BY <1>0, <1>1, <1>2, <1>3, <1>4, RedemptionTaken

LEMMA PendingProcessed ==
  ASSUME FundInv, NEW r \in Others, NEW nav \in Navs, Fund!ProcessPending(r, nav)
  PROVE  FundInv'
<1> DEFINE c == redemption[r].client
           m == redemption[r].amount
<1>0. FundTyped /\ Fund!Job \in Fund!Actors /\ redemption[r] \in FundRows /\ RedemptionsMatch
      /\ actor \in [Fund!Actors -> FundCopies] /\ "none" \notin Others
  BY FundConstants, FundTypes DEF FundInv
<1>1. /\ actor[Fund!Job] = Fund!Idle /\ r \in todo /\ todo' = todo \ {r}
      /\ Fund!ReadsPosition(Fund!Job, c)
      /\ UNCHANGED <<liquid, units, redemption, bought, redeemed, paidOut, fDisturbed>>
  BY DEF Fund!ProcessPending
<1>2. actor' = [actor EXCEPT ![Fund!Job] = [Fund!Idle EXCEPT
                  !.at = "complete", !.client = c, !.id = r, !.amount = m, !.copy = units[c]]]
  BY DEF Fund!ProcessPending
<1>3. redemption[r].status = "PENDING_LIQUIDATION" /\ m \in Nat /\ c \in FundClients
  BY <1>0, <1>1, RowTypedFund DEF FundTyped, Fund!FundTypeOK, RedemptionsMatch
<1>4. \A b \in Fund!Actors \ {Fund!Job} : actor[b].id # r
  BY <1>0, <1>3 DEF RedemptionsMatch
<1>5. "complete" \in {"check", "complete"} /\ todo' \subseteq todo /\ r \notin todo'
  BY <1>1
<1> HIDE DEF c, m
<1> QED BY <1>0, <1>1, <1>2, <1>3, <1>4, <1>5, RedemptionTaken

\* A redemption is recorded, pending or completed, and its actor ends.
LEMMA RedemptionRecorded ==
  ASSUME FundInv, NEW a \in Fund!Actors,
         Fund!CloseRedemption(a) \/ (a \in Pair /\ Fund!CreatePending(a))
  PROVE  FundInv'
<1> DEFINE c == actor[a].client
           r == actor[a].id
           x == Fund!Idle
<1>0. FundTyped /\ RedemptionsMatch /\ "none" \notin Others
  BY FundConstants DEF FundInv
<1>t. /\ actor \in [Fund!Actors -> FundCopies] /\ actor[a] \in FundCopies
      /\ CopyMatches(a, actor[a])
      /\ liquid \in 0 .. MaxLiquid /\ units \in [FundClients -> Nat]
      /\ bought \in [FundClients -> Nat] /\ redeemed \in [FundClients -> Nat]
      /\ paidOut \in [Others -> Nat] /\ todo \subseteq Others
      /\ fDisturbed \subseteq FundClients \cup Others /\ fClash \subseteq FundClients
      /\ redemption \in [Others -> FundRows]
  BY <1>0, ActorWrites, FundTypes
<1>1. /\ actor[a].at \in {"withdraw", "close"}
      /\ UNCHANGED <<liquid, units, todo, bought, redeemed, paidOut, fDisturbed, fClash>>
  BY DEF Fund!CloseRedemption, Fund!CreatePending, Fund!history
<1>2. actor' = [actor EXCEPT ![a] = x] /\ x \in FundCopies /\ CopyMatches(a, x)
  BY <1>0, ActorWrites DEF Fund!CloseRedemption, Fund!CreatePending
<1>3. c \in FundClients /\ r \in Others /\ actor[a].amount \in Nat
  BY <1>t, <1>1, CopyTyped DEF CopyMatches
<1>x. /\ x.at = "idle" /\ x.client = Fund!NoClient /\ x.id = "none" /\ x.client \notin FundClients
      /\ \A b \in FundClients : \A s : Part(x, b, s) = 0
  BY <1>0, ActorWrites, FundConstants
<1>r. PICK y \in FundRows :
        /\ redemption' = [redemption EXCEPT ![r] = y] /\ y.client = c
        /\ y.status = IF actor[a].at = "close" THEN "COMPLETED" ELSE "PENDING_LIQUIDATION"
        /\ actor[a].at = "withdraw" => a # Fund!Job
  <2>1. CASE Fund!CloseRedemption(a)
    <3>1. redemption' = [redemption EXCEPT ![r] =
                           [status |-> "COMPLETED", client |-> c, amount |-> actor[a].amount]]
          /\ actor[a].at = "close"
      BY <2>1 DEF Fund!CloseRedemption
    <3>2. [status |-> "COMPLETED", client |-> c, amount |-> actor[a].amount] \in FundRows
      BY <1>3 DEF FundRows
    <3> QED BY <3>1, <3>2
  <2>2. CASE a \in Pair /\ Fund!CreatePending(a)
    <3>1. redemption' = [redemption EXCEPT ![r] =
                           [status |-> "PENDING_LIQUIDATION", client |-> c,
                            amount |-> actor[a].amount]]
          /\ actor[a].at = "withdraw"
      BY <2>2 DEF Fund!CreatePending
    <3>2. [status |-> "PENDING_LIQUIDATION", client |-> c, amount |-> actor[a].amount] \in FundRows
      BY <1>3 DEF FundRows
    <3> QED BY <2>2, <3>1, <3>2, FundConstants
  <2> QED BY <2>1, <2>2
<1> HIDE DEF x
<1>4. /\ redemption' \in [Others -> FundRows] /\ redemption'[r] = y
      /\ \A q \in Others \ {r} : redemption'[q] = redemption[q]
  BY <1>t, <1>r, <1>3
<1>5. Fund!FundTypeOK'
  <2>1. \A q \in Others : redemption'[q].status # "NONE" => redemption'[q].client \in FundClients
    BY <1>0, <1>3, <1>4, <1>r DEF FundTyped, Fund!FundTypeOK
  <2> QED BY <1>t, <1>1, <1>2, <1>4, <2>1, FundTypeKept
<1>6. \A b \in FundClients \ fClash' : PositionMatches(b)'
  BY <1>1, <1>2, <1>x, PositionsStep
<1>7. \A b \in FundClients \ (fDisturbed' \cup fClash') : UnitsBalance(b)'
  <2>1. ASSUME NEW b \in FundClients \ (fDisturbed' \cup fClash')
        PROVE  (units'[b] - units[b]) + (Part(x, b, Incoming) - Part(actor[a], b, Incoming))
                 + (redeemed'[b] - redeemed[b])
               = (bought'[b] - bought[b]) + (Part(x, b, Outgoing) - Part(actor[a], b, Outgoing))
    <3>1. /\ Part(x, b, Incoming) = 0 /\ Part(x, b, Outgoing) = 0
          /\ Part(actor[a], b, Incoming) = 0 /\ Part(actor[a], b, Outgoing) = 0
      BY <1>1, <1>x DEF Part, Incoming, Outgoing
    <3> QED BY <1>t, <1>1, <3>1
  <2> QED BY <1>t, <1>1, <1>2, <2>1, UnitsStep
<1>s. actor[a].at = "withdraw" => redemption[r].status = "NONE"
  BY <1>0, <1>3, <1>r DEF RedemptionsMatch
<1>n. r \notin todo
  BY <1>0, <1>3 DEF RedemptionsMatch
<1>8. RedemptionsMatch'
  <2>1. \A q \in Others : redemption'[q].status = redemption[q].status
                            \/ (actor[a].id = q /\ x.id = "none" /\ q \notin todo')
    BY <1>1, <1>4, <1>n, <1>x
  <2> QED BY <1>0, <1>1, <1>2, <1>x, <2>1, RedemptionsStep
<1>p. /\ actor[a].at = "close" => PaidBy(r) = {a}
      /\ actor[a].at = "withdraw" => PaidBy(r) = {}
  BY <1>3, PaidByOne DEF PaidSteps
<1>9. ASSUME NEW q \in Others \ fDisturbed' PROVE PaidOnce(q)'
  <2>1. PaidOnce(q)
    BY <1>1 DEF FundInv
  <2>2. CASE q # r
    <3>1. PaidBy(q)' = PaidBy(q)
      BY <1>0, <1>2, <1>x, <2>2, PaidByKept
    <3> QED BY <1>1, <1>4, <2>1, <2>2, <3>1 DEF PaidOnce
  <2>3. CASE q = r /\ actor[a].at = "close"
    <3>1. paidOut[q] = 1
      <4>1. Cardinality({a}) = 1
        BY FS_Singleton
      <4> QED BY <1>p, <2>1, <2>3, <4>1 DEF PaidOnce
    <3> QED BY <1>1, <1>4, <1>r, <2>3, <3>1 DEF PaidOnce
  <2>4. CASE q = r /\ actor[a].at = "withdraw"
    <3>1. PaidBy(q)' = PaidBy(q)
      BY <1>0, <1>2, <1>x, <2>4, PaidByKept DEF PaidSteps
    <3> QED BY <1>1, <1>4, <1>r, <1>s, <2>1, <2>4, <3>1 DEF PaidOnce
  <2> QED BY <1>1, <2>2, <2>3, <2>4
<1> QED BY <1>t, <1>2, <1>4, <1>5, <1>6, <1>7, <1>8, <1>9, FundStepOf

\* The position is written without the units of a redemption.
LEMMA RedemptionApplied ==
  ASSUME FundInv, NEW a \in Fund!Actors, Fund!ApplyRedemption(a)
  PROVE  FundInv'
<1> DEFINE c == actor[a].client
           x == [at |-> "close", client |-> actor[a].client, id |-> actor[a].id,
                 amount |-> actor[a].amount, copy |-> actor[a].copy, nav |-> actor[a].nav]
           u == actor[a].amount \div actor[a].nav
<1>0. FundTyped
  BY DEF FundInv
<1>t. /\ actor \in [Fund!Actors -> FundCopies] /\ actor[a] \in FundCopies
      /\ CopyMatches(a, actor[a])
      /\ liquid \in 0 .. MaxLiquid /\ units \in [FundClients -> Nat]
      /\ bought \in [FundClients -> Nat] /\ redeemed \in [FundClients -> Nat]
      /\ paidOut \in [Others -> Nat] /\ todo \subseteq Others
      /\ fDisturbed \subseteq FundClients \cup Others /\ fClash \subseteq FundClients
      /\ redemption \in [Others -> FundRows]
  BY <1>0, ActorWrites, FundTypes
<1>1. /\ actor[a].at = "redeem" /\ c \in FundClients /\ actor[a].id \in Others
      /\ u <= actor[a].copy
      /\ units' = [units EXCEPT ![c] = Fund!Reduced(actor[a].copy, actor[a].amount, actor[a].nav)]
      /\ UNCHANGED <<liquid, redemption, todo, bought, redeemed, paidOut, fDisturbed, fClash>>
  BY <1>t DEF Fund!ApplyRedemption, Fund!history, CopyMatches
<1>2. actor' = [actor EXCEPT ![a] = x]
  BY <1>0, ActorWrites DEF Fund!ApplyRedemption
<1>3. u \in Nat /\ actor[a].copy \in Nat
  BY <1>t, CopyTyped
<1>u. Fund!Reduced(actor[a].copy, actor[a].amount, actor[a].nav) = actor[a].copy - u
      /\ actor[a].copy - u \in Nat
  BY <1>1, <1>3 DEF Fund!Reduced
<1>4. units' \in [FundClients -> Nat] /\ units'[c] = actor[a].copy - u
      /\ \A b \in FundClients \ {c} : units'[b] = units[b]
  BY <1>t, <1>1, <1>u
<1>5. x \in FundCopies /\ CopyMatches(a, x)
  <2>1. x \in FundCopies
    BY <1>t, CopyTyped DEF FundCopies, FundSteps
  <2> QED BY <2>1, <1>1 DEF CopyMatches, Incoming
<1>x. x.at = "close" /\ x.client = c /\ x.id = actor[a].id
  BY <1>1
<1> HIDE DEF x, u
<1>6. Fund!FundTypeOK'
  <2>1. \A r \in Others : redemption[r].status # "NONE" => redemption[r].client \in FundClients
    BY <1>0 DEF FundTyped, Fund!FundTypeOK
  <2> QED BY <1>t, <1>1, <1>2, <1>4, <1>5, <2>1, FundTypeKept
<1>h. Fund!HoldsCopy(a, c)
  BY <1>1 DEF Fund!HoldsCopy
<1>7. \A b \in FundClients \ fClash' : PositionMatches(b)'
  <2>1. \A b \in FundClients \ fClash' :
          /\ x.client = b /\ x.at # "invested" =>
               Fund!HoldsCopy(a, b) \/ \A d \in Fund!Actors \ {a} : ~ Fund!HoldsCopy(d, b)
          /\ x.client = b /\ x.at \notin {"invested", "close"} => x.copy = units'[b]
          /\ units'[b] = units[b] \/ Fund!HoldsCopy(a, b)
    BY <1>4, <1>h, <1>x
  <2> QED BY <1>1, <1>2, <1>5, <2>1, PositionsStep
<1>8. \A b \in FundClients \ (fDisturbed' \cup fClash') : UnitsBalance(b)'
  <2>1. ASSUME NEW b \in FundClients \ (fDisturbed' \cup fClash')
        PROVE  (units'[b] - units[b]) + (Part(x, b, Incoming) - Part(actor[a], b, Incoming))
                 + (redeemed'[b] - redeemed[b])
               = (bought'[b] - bought[b]) + (Part(x, b, Outgoing) - Part(actor[a], b, Outgoing))
    <3>1. /\ Part(x, b, Incoming) = 0 /\ Part(x, b, Outgoing) = 0
          /\ Part(actor[a], b, Incoming) = 0
      BY <1>1, <1>x DEF Part, Incoming, Outgoing
    <3>2. Part(actor[a], b, Outgoing) = IF b = c THEN u ELSE 0
      BY <1>1 DEF Part, Outgoing, u
    <3>3. units'[b] - units[b] = IF b = c THEN 0 - u ELSE 0
      <4>1. CASE b = c
        <5>1. actor[a].copy = units[b]
          BY <1>1, <1>h, <4>1 DEF FundInv, PositionMatches
        <5> QED BY <1>t, <1>3, <1>4, <4>1, <5>1
      <4>2. CASE b # c
        BY <1>t, <1>4, <4>2
      <4> QED BY <4>1, <4>2
    <3> QED BY <1>t, <1>1, <1>3, <3>1, <3>2, <3>3
  <2> QED BY <1>t, <1>1, <1>2, <1>4, <1>5, <2>1, UnitsStep
<1>9. RedemptionsMatch' /\ \A r \in Others \ fDisturbed' : PaidOnce(r)'
  BY <1>1, <1>2, <1>5, <1>x, NoRedemptionTouched DEF PaidSteps
<1> QED BY <1>t, <1>1, <1>2, <1>4, <1>5, <1>6, <1>7, <1>8, <1>9, FundStepOf

\* A redemption is paid out.
LEMMA RedemptionPaid ==
  ASSUME FundInv, NEW a \in Fund!Actors, NEW nav \in Navs, Fund!PayOut(a, nav)
  PROVE  FundInv'
<1> DEFINE c == actor[a].client
           r == actor[a].id
           m == actor[a].amount
           k == actor[a].copy
           u == m \div nav
           new == [at |-> "redeem", client |-> c, id |-> r, amount |-> m, copy |-> k, nav |-> nav]
<1>0. FundTyped /\ RedemptionsMatch /\ "none" \notin Others
  BY FundConstants DEF FundInv
<1>t. /\ actor \in [Fund!Actors -> FundCopies] /\ actor[a] \in FundCopies
      /\ CopyMatches(a, actor[a])
      /\ liquid \in 0 .. MaxLiquid /\ units \in [FundClients -> Nat]
      /\ bought \in [FundClients -> Nat] /\ redeemed \in [FundClients -> Nat]
      /\ paidOut \in [Others -> Nat] /\ todo \subseteq Others
      /\ fDisturbed \subseteq FundClients \cup Others /\ fClash \subseteq FundClients
      /\ redemption \in [Others -> FundRows]
  BY <1>0, ActorWrites, FundTypes
<1>1. /\ actor[a].at = "complete" /\ c \in FundClients /\ r \in Others
      /\ m <= k * nav /\ liquid >= m /\ liquid' = liquid - m
      /\ redeemed' = [redeemed EXCEPT ![c] = @ + u]
      /\ paidOut' = [paidOut EXCEPT ![r] = @ + 1]
      /\ UNCHANGED <<units, redemption, todo, bought, fClash>>
  BY <1>t DEF Fund!PayOut, Fund!Covers, CopyMatches
<1>2. m \in Nat /\ k \in Nat /\ nav \in Nat \ {0} /\ MaxLiquid \in Nat
  BY <1>t, CopyTyped, FundConstants
<1>3. u \in Nat /\ u <= k
  <2>1. m \in Nat /\ k \in Nat /\ nav \in Nat \ {0} /\ m <= k * nav
    BY <1>1, <1>2
  <2>2. u \in Nat
    BY <2>1
  <2>3. nav * u <= m
    BY <2>1
  <2>4. nav * u <= nav * k
    BY <2>1, <2>2, <2>3
  <2> QED BY <2>1, <2>2, <2>4
<1>4. /\ liquid' \in 0 .. MaxLiquid /\ redeemed' \in [FundClients -> Nat]
      /\ paidOut' \in [Others -> Nat] /\ paidOut'[r] = paidOut[r] + 1
      /\ \A q \in Others \ {r} : paidOut'[q] = paidOut[q]
  BY <1>t, <1>1, <1>2, <1>3
<1>5. \E x \in FundCopies :
        /\ actor' = [actor EXCEPT ![a] = x] /\ CopyMatches(a, x)
        /\ \/ x = new /\ fDisturbed' = fDisturbed
           \/ /\ x = Fund!Idle /\ fDisturbed \subseteq fDisturbed' /\ {c, r} \subseteq fDisturbed'
              /\ fDisturbed' \subseteq FundClients \cup Others
  <2>1. CASE actor' = [actor EXCEPT ![a].at = "redeem", ![a].nav = nav] /\ UNCHANGED fDisturbed
    <3>1. actor' = [actor EXCEPT ![a] = new]
      BY <1>0, <2>1, CopyPaid
    <3>2. new \in FundCopies
      BY <1>t, <1>2, CopyTyped DEF FundCopies, FundSteps
    <3>3. CopyMatches(a, new)
      BY <1>1, <1>3 DEF CopyMatches, Incoming
    <3> QED BY <2>1, <3>1, <3>2, <3>3
  <2>2. CASE actor' = Fund!Ends(a) /\ Fund!Disturbs(c, r)
    <3>1. fDisturbed' = fDisturbed \cup ({c, r} \cap (FundClients \cup Others))
      BY <2>2 DEF Fund!Disturbs
    <3>2. fDisturbed \subseteq fDisturbed' /\ {c, r} \subseteq fDisturbed'
          /\ fDisturbed' \subseteq FundClients \cup Others
      BY <1>t, <1>1, <3>1
    <3> QED BY <1>0, <2>2, <3>2, ActorWrites
  <2> QED BY <2>1, <2>2 DEF Fund!PayOut
<1>6. PICK x \in FundCopies : <1>5!(x)
  BY <1>5
<1>i. x = Fund!Idle => x.at = "idle" /\ x.client \notin FundClients /\ x.id = "none"
  BY <1>0, ActorWrites, FundConstants
<1>n. x = new => x.at = "redeem" /\ x.client = c /\ x.id = r /\ x.copy = k
                 /\ x.amount = m /\ x.nav = nav
  OBVIOUS
<1>d. fDisturbed \subseteq fDisturbed' /\ fDisturbed' \subseteq FundClients \cup Others
  BY <1>t, <1>6
<1> HIDE DEF new, u
<1>7. Fund!FundTypeOK'
  <2>1. \A q \in Others : redemption[q].status # "NONE" => redemption[q].client \in FundClients
    BY <1>0 DEF FundTyped, Fund!FundTypeOK
  <2> QED BY <1>t, <1>1, <1>4, <1>6, <1>d, <2>1, FundTypeKept
<1>h. Fund!HoldsCopy(a, c)
  BY <1>1 DEF Fund!HoldsCopy
<1>8. \A b \in FundClients \ fClash' : PositionMatches(b)'
  <2>1. ASSUME NEW b \in FundClients \ fClash'
        PROVE  /\ x.client = b /\ x.at # "invested" => Fund!HoldsCopy(a, b)
               /\ x.client = b /\ x.at \notin {"invested", "close"} => x.copy = units'[b]
    <3>1. PositionMatches(b)
      BY <1>1 DEF FundInv
    <3>2. x.client = b => x = new /\ b = c
      BY <1>6, <1>i, <1>n
    <3>3. b = c => k = units[b]
      BY <1>1, <1>h, <3>1 DEF PositionMatches
    <3> QED BY <1>1, <1>h, <1>n, <3>2, <3>3
  <2> QED BY <1>1, <1>6, <2>1, PositionsStep
<1>9. \A b \in FundClients \ (fDisturbed' \cup fClash') : UnitsBalance(b)'
  <2>1. ASSUME NEW b \in FundClients \ (fDisturbed' \cup fClash')
        PROVE  (units'[b] - units[b]) + (Part(x, b, Incoming) - Part(actor[a], b, Incoming))
                 + (redeemed'[b] - redeemed[b])
               = (bought'[b] - bought[b]) + (Part(x, b, Outgoing) - Part(actor[a], b, Outgoing))
    <3>1. /\ Part(actor[a], b, Incoming) = 0 /\ Part(actor[a], b, Outgoing) = 0
          /\ Part(x, b, Incoming) = 0
      BY <1>1, <1>6, <1>i, <1>n DEF Part, Incoming, Outgoing
    <3>2. Part(x, b, Outgoing) = IF b = c THEN u ELSE 0
      <4>1. CASE x = new
        BY <1>n, <4>1 DEF Part, Outgoing, u
      <4>2. CASE x # new
        <5>1. b # c
          BY <1>6, <4>2
        <5> QED BY <1>6, <1>i, <4>2, <5>1 DEF Part
      <4> QED BY <4>1, <4>2
    <3>3. redeemed'[b] - redeemed[b] = IF b = c THEN u ELSE 0
      BY <1>t, <1>1, <1>3
    <3> QED BY <1>t, <1>1, <1>3, <3>1, <3>2, <3>3
  <2> QED BY <1>t, <1>1, <1>4, <1>6, <1>d, <2>1, UnitsStep
<1>10. RedemptionsMatch'
  <2>1. x.id \in Others => x.id = r
    BY <1>0, <1>6, <1>i, <1>n
  <2>2. /\ x.id \in Others => \A b \in Fund!Actors \ {a} : actor[b].id # x.id
        /\ x.id \in Others =>
             IF a = Fund!Job THEN redemption'[x.id].status = "PENDING_LIQUIDATION" /\ x.id \notin todo'
             ELSE redemption'[x.id].status = "NONE"
    BY <1>0, <1>1, <2>1 DEF RedemptionsMatch
  <2> QED BY <1>1, <1>6, <2>2, RedemptionsStep
<1>11. ASSUME NEW q \in Others \ fDisturbed' PROVE PaidOnce(q)'
  <2>1. PaidOnce(q)
    BY <1>d DEF FundInv
  <2>2. CASE q # r
    <3>1. PaidBy(q)' = PaidBy(q)
      BY <1>0, <1>6, <1>i, <1>n, <2>2, PaidByKept
    <3> QED BY <1>1, <1>4, <2>1, <2>2, <3>1 DEF PaidOnce
  <2>3. CASE q = r
    <3>1. x = new
      BY <1>6, <2>3
    <3>2. PaidBy(q) = {} /\ redemption[q].status # "COMPLETED"
      BY <1>0, <1>1, <2>3, PaidByOne DEF PaidSteps, RedemptionsMatch
    <3>3. PaidBy(q)' = {a}
      <4>1. \A b \in Fund!Actors \ {a} : actor'[b] = actor[b]
        BY <1>t, <1>6
      <4>2. actor'[a] = x
        BY <1>t, <1>6
      <4>3. x.id = q /\ x.at \in PaidSteps
        BY <1>n, <2>3, <3>1 DEF PaidSteps
      <4> QED BY <3>2, <4>1, <4>2, <4>3 DEF PaidBy
    <3>4. Cardinality({}) = 0 /\ Cardinality({a}) = 1
      BY FS_EmptySet, FS_Singleton
    <3>5. paidOut[q] = 0
      BY <2>1, <3>2, <3>4 DEF PaidOnce
    <3>6. paidOut'[q] = 1
      BY <1>4, <2>3, <3>5
    <3> QED BY <1>1, <3>2, <3>3, <3>4, <3>6 DEF PaidOnce
  <2> QED BY <2>2, <2>3
<1>12. /\ redemption' \in [Others -> FundRows] /\ actor' = [actor EXCEPT ![a] = x]
       /\ CopyMatches(a, x)
  BY <1>t, <1>1, <1>6
<1> QED BY <1>7, <1>8, <1>9, <1>10, <1>11, <1>12, FundStepOf

\* A step that no actor takes.
LEMMA FundPassive ==
  ASSUME FundInv,
         \/ \E m \in FundAmounts : Fund!SellSecurities(m)
         \/ Fund!FindPending
         \/ \E r \in Others : Fund!SkipPending(r)
         \/ UNCHANGED poolVars
  PROVE  FundInv'
<1>0. FundTyped /\ RedemptionsMatch /\ "none" \notin Others
  BY FundConstants DEF FundInv
<1>t. /\ liquid \in 0 .. MaxLiquid /\ todo \subseteq Others
  BY <1>0, FundTypes
<1>1. UNCHANGED <<units, redemption, actor, bought, redeemed, paidOut, fDisturbed, fClash>>
  BY DEF Fund!SellSecurities, Fund!FindPending, Fund!SkipPending, poolVars, Fund!history
<1>2. liquid' \in 0 .. MaxLiquid
  <2>1. CASE \E m \in FundAmounts : Fund!SellSecurities(m)
    BY <1>t, <2>1, FundConstants DEF Fund!SellSecurities
  <2>2. CASE UNCHANGED liquid
    BY <1>t, <2>2
  <2> QED BY <2>1, <2>2 DEF Fund!FindPending, Fund!SkipPending, poolVars
<1>3. /\ todo' \subseteq Others /\ \A r \in todo' : redemption[r].status = "PENDING_LIQUIDATION"
      /\ todo' \subseteq todo \/ actor[Fund!Job] = Fund!Idle
  <2>1. CASE Fund!FindPending
    BY <2>1 DEF Fund!FindPending, Fund!ToPay
  <2>2. CASE todo' \subseteq todo
    BY <1>0, <1>t, <2>2 DEF RedemptionsMatch
  <2> QED BY <2>1, <2>2 DEF Fund!SellSecurities, Fund!SkipPending, poolVars
<1>4. RedemptionsMatch'
  <2>1. \A a \in Fund!Actors : actor[a].id \in Others /\ a = Fund!Job =>
          actor[a].id \notin todo'
    BY <1>0, <1>3 DEF RedemptionsMatch, Fund!Idle
  <2> QED BY <1>0, <1>1, <1>3, <2>1 DEF RedemptionsMatch
<1>5. FundTyped'
  <2>1. Fund!FundTypeOK'
    BY <1>0, <1>1, <1>2, <1>3 DEF FundTyped, Fund!FundTypeOK
  <2> QED BY <1>0, <1>1, <2>1 DEF FundTyped, CopyMatches
<1>6. \A c \in FundClients \ fClash' : PositionMatches(c)'
  BY <1>1 DEF FundInv, PositionMatches, Fund!HoldsCopy
<1>7. ASSUME NEW c \in FundClients \ (fDisturbed' \cup fClash') PROVE UnitsBalance(c)'
  <2>1. UnitsBalance(c)
    BY <1>1 DEF FundInv
  <2>2. Fund!InProgress(c, Incoming)' = Fund!InProgress(c, Incoming)
        /\ Fund!InProgress(c, Outgoing)' = Fund!InProgress(c, Outgoing)
    BY <1>1 DEF Fund!InProgress
  <2> QED BY <1>1, <2>1, <2>2 DEF UnitsBalance
<1>8. ASSUME NEW r \in Others \ fDisturbed' PROVE PaidOnce(r)'
  BY <1>1 DEF FundInv, PaidOnce, PaidBy
<1> QED BY <1>4, <1>5, <1>6, <1>7, <1>8 DEF FundInv

LEMMA FundStep == FundInv /\ [Fund!Next]_poolVars => FundInv'
<1> SUFFICES ASSUME FundInv, [Fund!Next]_poolVars PROVE FundInv'
  OBVIOUS
<1>1. ASSUME NEW a \in Pair, Fund!Invest(a) PROVE FundInv'
  BY <1>1, PaidIn, RecordedInvestment, PositionUpserted DEF Fund!Invest
<1>2. ASSUME NEW a \in Pair, Fund!Withdraw(a) PROVE FundInv'
  <2>0. a \in Fund!Actors
    BY FundConstants
  <2>1. CASE \E c \in FundClients, r \in Others, m \in FundAmounts : Fund!BeginWithdrawal(a, c, r, m)
    BY <2>1, WithdrawalBegun
  <2>2. CASE \E nav \in Navs : Fund!CheckAvailable(a, nav)
    BY <2>0, <2>2, QuietFundSteps
  <2>3. CASE Fund!StartPayout(a)
    BY <2>0, <2>3, QuietFundSteps
  <2>4. CASE Fund!CreatePending(a)
    BY <2>0, <2>4, RedemptionRecorded
  <2> QED BY <1>2, <2>1, <2>2, <2>3, <2>4 DEF Fund!Withdraw
<1>3. ASSUME NEW a \in Fund!Actors, Fund!Complete(a) PROVE FundInv'
  <2>1. CASE \E nav \in Navs : Fund!PayOut(a, nav)
    BY <2>1, RedemptionPaid
  <2>2. CASE Fund!ApplyRedemption(a)
    BY <2>2, RedemptionApplied
  <2>3. CASE Fund!CloseRedemption(a)
    BY <2>3, RedemptionRecorded
  <2>4. CASE Fund!Refuse(a) \/ Fund!FailAfterPayment(a)
    BY <2>4, QuietFundSteps
  <2> QED BY <1>3, <2>1, <2>2, <2>3, <2>4 DEF Fund!Complete
<1>4. ASSUME NEW r \in Others, NEW nav \in Navs, Fund!ProcessPending(r, nav) PROVE FundInv'
  BY <1>4, PendingProcessed
<1>5. CASE \/ \E m \in FundAmounts : Fund!SellSecurities(m)
           \/ Fund!FindPending
           \/ \E r \in Others : Fund!SkipPending(r)
           \/ UNCHANGED poolVars
  BY <1>5, FundPassive
<1> QED BY <1>1, <1>2, <1>3, <1>4, <1>5 DEF Fund!Next

LEMMA FundInitially == Fund!Init => FundInv
<1> SUFFICES ASSUME Fund!Init PROVE FundInv
  OBVIOUS
<1>1. /\ liquid = 0 /\ units = [c \in FundClients |-> 0]
      /\ redemption = [r \in Others |-> Fund!NoRedemption]
      /\ actor = [a \in Fund!Actors |-> Fund!Idle] /\ todo = {}
      /\ bought = [c \in FundClients |-> 0] /\ redeemed = [c \in FundClients |-> 0]
      /\ paidOut = [r \in Others |-> 0] /\ fDisturbed = {} /\ fClash = {}
  BY DEF Fund!Init
<1>2. Fund!Idle = [at |-> "idle", client |-> Fund!NoClient, id |-> "none", amount |-> 0,
                   copy |-> 0, nav |-> 1]
  BY DEF Fund!Idle
<1>3. Fund!Idle \in FundCopies /\ \A a \in Fund!Actors : CopyMatches(a, Fund!Idle)
  BY <1>2 DEF FundCopies, FundSteps, CopyMatches, Incoming
<1>4. Fund!NoRedemption \in FundRows /\ Fund!NoRedemption.status = "NONE"
  BY DEF FundRows, Fund!NoRedemption
<1>5. FundTyped
  <2>1. {bought, redeemed} \subseteq [FundClients -> Nat] /\ paidOut \in [Others -> Nat]
    BY <1>1
  <2>2. liquid \in 0 .. MaxLiquid /\ units \in [FundClients -> Nat]
    BY <1>1, FundConstants
  <2>3. Fund!FundTypeOK
    BY <1>1, <1>2, <1>4, <2>1, <2>2 DEF Fund!FundTypeOK
  <2> QED BY <1>1, <1>3, <1>4, <2>3 DEF FundTyped
<1>6. ASSUME NEW c \in FundClients PROVE PositionMatches(c) /\ UnitsBalance(c)
  <2>1. \A a \in Fund!Actors : actor[a].client # c
    BY <1>1, <1>2, FundConstants
  <2>2. PositionMatches(c)
    BY <2>1 DEF PositionMatches, Fund!HoldsCopy
  <2>3. \A s : Fund!InProgress(c, s) = 0
    <3> SUFFICES ASSUME NEW s PROVE Fund!InProgress(c, s) = 0
      OBVIOUS
    <3> DEFINE f == [b \in Fund!Actors |-> IF actor[b].client = c /\ actor[b].at \in s
                                           THEN actor[b].amount \div actor[b].nav ELSE 0]
    <3>1. f \in [Fund!Actors -> Int] /\ \A b \in Fund!Actors : f[b] = 0
      BY <2>1
    <3>2. Fund!InProgress(c, s) = Fund!SumFunctionOnSet(f, Fund!Actors)
      BY DEF Fund!InProgress
    <3> HIDE DEF f
    <3>3. SumFunctionOnSet(f, Fund!Actors) = 0
      BY <3>1, FundConstants, SumOfZeros
    <3> QED BY <3>2, <3>3, FundSameSum
  <2>4. UnitsBalance(c)
    BY <1>1, <2>3 DEF UnitsBalance
  <2> QED BY <2>2, <2>4
<1>7. RedemptionsMatch
  BY <1>1, <1>2, FundConstants DEF RedemptionsMatch
<1>8. ASSUME NEW r \in Others PROVE PaidOnce(r)
  <2>1. PaidBy(r) = {}
    BY <1>1, <1>2 DEF PaidBy, PaidSteps
  <2> QED BY <1>1, <1>4, <2>1, FS_EmptySet DEF PaidOnce
<1> QED BY <1>5, <1>6, <1>7, <1>8 DEF FundInv

-----------------------------------------------------------------------------
(* The theorems *)

\* What a step of the whole does to orders, options and funds.
LEMMA ShareSteps ==
  ASSUME [TradingNext]_tradingVars
  PROVE  [Trade!Next]_tradeVars /\ [Exercise!Next]_optionVars /\ [Fund!Next]_poolVars
BY DEF TradingNext, RunAgreement, RunOrders, RunTaxes, RunFund, RunRecurring, RunAlerts,
       RunDividends, RunIdentity, RunActuary, RunSessions, RunOptions, TradeNext, tradingVars

\* OrderInv holds throughout: the copies of an order that a worker or a request holds are
\* the row, and every fill is counted where it has arrived (order_service.go).
THEOREM OrderInvariant == TradingSpec => []OrderInv
<1>1. TradingInit => OrderInv
  BY OrdersInitially DEF TradingInit
<1>2. OrderInv /\ [TradingNext]_tradingVars => OrderInv'
  BY ShareSteps, OrderStep
<1> QED BY <1>1, <1>2, PTL DEF TradingSpec

\* OptionInv holds throughout: a request for the exercise of an option is about to write
\* what the rows hold (portfolio_service.go).
THEOREM OptionInvariant == TradingSpec => []OptionInv
<1>1. TradingInit => OptionInv
  BY OptionInitially DEF TradingInit
<1>2. OptionInv /\ [TradingNext]_tradingVars => OptionInv'
  BY ShareSteps, OptionStep
<1> QED BY <1>1, <1>2, PTL DEF TradingSpec

\* The bank, the transactions, the order and the ownership count the same fills of an
\* order, unless a step of one failed or two actors held it, and the commission is taken
\* with the first (OrderService.executeOrder).
THEOREM FillsAlwaysAgree == TradingSpec => []FillsAgree
<1>1. OrderInv => FillsAgree
  BY FillsImplied DEF FillsAgree
<1> QED BY <1>1, OrderInvariant, PTL

\* The shares of a holder change by what was bought, sold, exercised and delivered, as
\* long as nobody overwrote them (updateOwnership, SettleOtcOptionExercise).
THEOREM SharesAlwaysExact == TradingSpec => []SharesExact
<1>1. OrderInv /\ OptionInv => SharesExact
  BY SharesImplied DEF SharesExact, OptionInv
<1> QED BY <1>1, OrderInvariant, OptionInvariant, PTL

\* An order that is declined or cancelled stays so and no fill of it is settled any more,
\* unless an executor held a copy of it when that was saved (DeclineOrder, CancelOrder).
THEOREM DeclinedStaysFinal == TradingSpec => DeclinedIsFinal
<1>1. OrderInv /\ [TradingNext]_tradingVars => [FinalOrders]_<<row, oPaid>>
  <2> SUFFICES ASSUME OrderInv, [TradingNext]_tradingVars PROVE [FinalOrders]_<<row, oPaid>>
    OBVIOUS
  <2>1. CASE Trade!Next
    BY <2>1, FinalStep
  <2>2. CASE UNCHANGED tradeVars
    BY <2>2 DEF tradeVars
  <2> QED BY <2>1, <2>2, ShareSteps
<1>2. [][FinalOrders]_<<row, oPaid>> => DeclinedIsFinal
  BY PTL DEF DeclinedIsFinal, Trade!DeclinedIsFinal, FinalOrders
<1> QED BY <1>1, <1>2, OrderInvariant, PTL DEF TradingSpec

\* FundInv holds throughout: one actor works on a position, and what it has still to add,
\* to take or to pay makes up for the units (investment_fund_service.go).
THEOREM FundInvariant == TradingSpec => []FundInv
<1>1. TradingInit => FundInv
  BY FundInitially DEF TradingInit
<1>2. FundInv /\ [TradingNext]_tradingVars => FundInv'
  BY ShareSteps, FundStep
<1> QED BY <1>1, <1>2, PTL DEF TradingSpec

\* The units of a client of a fund are those paid for less those paid out, and a
\* redemption is paid out once, as long as no write overlapped (InvestmentFundService).
THEOREM UnitsAlwaysExact == TradingSpec => []UnitsExact
<1>1. FundInv => UnitsExact
  BY FundImplied DEF UnitsExact
<1> QED BY <1>1, FundInvariant, PTL
=============================================================================
