---------------------------- MODULE OtcAgreement ----------------------------
(***************************************************************************)
(* Negotiation of OTC offers and their agreement: OtcOfferService and       *)
(* OtcDealProcessingService.FinalizeAgreement of trading-service, and the   *)
(* publishing of shares (OTCService.PublishAsset).                          *)
(*                                                                          *)
(* All offers are about the shares of one stock that one seller has         *)
(* published.  A requester is one HTTP request.  A request reads the offer  *)
(* without a lock, decides, and writes the row it has read back as a whole; *)
(* only FinalizeAgreement works in transactions that lock the offer and the *)
(* seller's ownership, one before the premium is paid and one after.  Such  *)
(* a transaction is one action here, every other read and write is its own. *)
(***************************************************************************)
EXTENDS Integers, FiniteSets, Functions

CONSTANTS
    Offers,          \* rows of otc_offers, each of a buyer of its own; as many
                     \* as there are bound how often CreateOffer is called
    Terms,           \* what a party may propose: records [amount, premium]
    Requesters,      \* HTTP requests on offers, each made once
    Publishers,      \* HTTP requests that publish shares, each made once
    Portions,        \* how many shares such a request may publish
    Owned,           \* shares the seller owns
    OpeningPublic,   \* and has published at the start
    StalePublish,    \* TRUE: a publication may write what it read earlier
    Faults           \* what may fail, see below

\* "crash": the process dies, or the client's cancelled context ends a request;
\* "lost_answer": banking executes a payment and its answer is lost;
\* "failed_commit": a transaction is rolled back; "lost_ack": it is committed
\* and reports an error all the same.
AllFaults == {"crash", "lost_answer", "failed_commit", "lost_ack"}

ASSUME AgreementAssumption ==
    /\ IsFiniteSet(Offers) /\ Offers # {} /\ IsFiniteSet(Requesters)
    /\ \A t \in Terms : t.amount \in Nat \ {0} /\ t.premium \in Nat \ {0}
    /\ Portions \subseteq Nat
    /\ Owned \in Nat /\ OpeningPublic \in 0 .. Owned
    /\ StalePublish \in BOOLEAN
    /\ Faults \subseteq AllFaults

VARIABLES
    offer,       \* the otc_offers row of each offer
    agreement,   \* the terms of the contract made from an offer
    public,      \* AssetOwnership.PublicAmount of the seller
    reserved,    \* AssetOwnership.ReservedAmount of the seller
    paid,        \* premium the buyer of each offer has paid, net of refunds
    pc,          \* where each request is
    target,      \* the offer it is about
    wanted,      \* the terms it proposes
    seen,        \* the offer as it has read it
    snapshot,    \* the terms FinalizeAgreement charges for
    publisher,   \* where each publication is
    read         \* the ownership amounts it has read

rowVars       == <<offer, agreement>>
ownershipVars == <<public, reserved>>
requestVars   == <<pc, target, wanted, seen, snapshot>>
publishVars   == <<publisher, read>>
vars          == <<rowVars, ownershipVars, paid, requestVars, publishVars>>

NoTerms == [amount |-> 0, premium |-> 0]
NoOffer == [status |-> "NONE", terms |-> NoTerms, account |-> FALSE,
            modifiedBy |-> "buyer", contract |-> FALSE]

Parties == {"buyer", "seller"}

\* "account" tells whether SellerAccountNumber is set, "contract" whether
\* OptionContractID is.
Rows == [status : {"NONE", "ACTIVE", "ACCEPTED", "REJECTED"},
         terms : Terms \cup {NoTerms}, account : BOOLEAN,
         modifiedBy : Parties, contract : BOOLEAN]

\* A request holds a premium that it must turn into a contract or give back
\* at "tx2" and "compensate"; at "abandoned" it has ended with that undone.
Holding == {"tx2", "compensate", "abandoned"}
Places  == {"new", "insert", "check", "save", "account", "accept", "tx1", "pay",
            "done"} \cup Holding

AgreementTypeOK ==
    /\ offer \in [Offers -> Rows]
    /\ agreement \in [Offers -> Terms \cup {NoTerms}]
    /\ public \in Nat /\ reserved \in Nat
    /\ paid \in [Offers -> Int]
    /\ pc \in [Requesters -> Places]
    /\ target \in [Requesters -> Offers]
    /\ wanted \in [Requesters -> Rows]
    /\ seen \in [Requesters -> Rows]
    /\ snapshot \in [Requesters -> Terms \cup {NoTerms}]
    /\ publisher \in [Publishers -> {"new", "write", "done"}]
    /\ read \in [Publishers -> [public : Nat, reserved : Nat]]

Init ==
    /\ offer = [o \in Offers |-> NoOffer]
    /\ agreement = [o \in Offers |-> NoTerms]
    /\ public = OpeningPublic
    /\ reserved = 0
    /\ paid = [o \in Offers |-> 0]
    /\ pc = [r \in Requesters |-> "new"]
    /\ target = [r \in Requesters |-> CHOOSE o \in Offers : TRUE]
    /\ wanted = [r \in Requesters |-> NoOffer]
    /\ seen = [r \in Requesters |-> NoOffer]
    /\ snapshot = [r \in Requesters |-> NoTerms]
    /\ publisher = [p \in Publishers |-> "new"]
    /\ read = [p \in Publishers |-> [public |-> 0, reserved |-> 0]]

-----------------------------------------------------------------------------
(* Capacity of the seller *)

Agreed(o) == agreement[o] # NoTerms

Negotiated(except) == SumFunctionOnSet([o \in Offers |->
    IF o # except /\ offer[o].status = "ACTIVE" THEN offer[o].terms.amount ELSE 0], Offers)

Contracted == SumFunctionOnSet([o \in Offers |-> agreement[o].amount], Offers)

\* validateSellerCapacity: unlocked reads of the published shares, the other
\* active offers and the active contracts.
HasCapacity(except, terms) == public >= Negotiated(except) + Contracted + terms.amount

\* The checks each transaction of FinalizeAgreement begins with, on the rows
\* it has locked: validateSellerCapacityForActivation is the last of them.
MayActivate(o) ==
    /\ offer[o].status = "ACTIVE"
    /\ offer[o].account
    /\ public >= reserved + Negotiated(o) + offer[o].terms.amount

-----------------------------------------------------------------------------
(* Requests: helpers *)

Go(r, place) == pc' = [pc EXCEPT ![r] = place]

SaveRow(o, row) == offer' = [offer EXCEPT ![o] = row]

-----------------------------------------------------------------------------
(* CreateOffer *)

\* A request whose check fails ends without a trace; it need not be taken.
CheckNewOffer(r, terms) ==
    /\ pc[r] = "new"
    /\ \E o \in Offers : /\ offer[o].status = "NONE"
                         /\ HasCapacity(o, terms)
    /\ wanted' = [wanted EXCEPT ![r] = [NoOffer EXCEPT !.status = "ACTIVE", !.terms = terms]]
    /\ Go(r, "insert")
    /\ UNCHANGED <<rowVars, ownershipVars, paid, target, seen, snapshot, publishVars>>

InsertOffer(r, o) ==
    /\ pc[r] = "insert" /\ offer[o].status = "NONE"
    /\ SaveRow(o, wanted[r])
    /\ target' = [target EXCEPT ![r] = o]
    /\ Go(r, "done")
    /\ UNCHANGED <<agreement, ownershipVars, paid, wanted, seen, snapshot, publishVars>>

-----------------------------------------------------------------------------
(* SendCounterOffer and RejectOffer *)

Load(r, o, place) ==
    /\ pc[r] = "new" /\ offer[o].status = "ACTIVE"
    /\ target' = [target EXCEPT ![r] = o]
    /\ seen' = [seen EXCEPT ![r] = offer[o]]
    /\ Go(r, place)
    /\ UNCHANGED <<rowVars, ownershipVars, paid, snapshot, publishVars>>

\* The row a party writes back: the one it has read, with its own terms and,
\* from the seller's first move on, his account.
Countered(row, party, terms) ==
    [row EXCEPT !.terms = terms, !.modifiedBy = party,
                !.account = row.account \/ party = "seller"]

\* Only the party whose turn it is may counter, and only a seller's terms are
\* checked against his capacity.
Counter(r, o, party, terms) ==
    /\ offer[o].modifiedBy # party
    /\ Load(r, o, IF party = "seller" THEN "check" ELSE "save")
    /\ wanted' = [wanted EXCEPT ![r] = Countered(offer[o], party, terms)]

CheckCounter(r) ==
    /\ pc[r] = "check"
    /\ Go(r, IF HasCapacity(target[r], wanted[r].terms) THEN "save" ELSE "done")
    /\ UNCHANGED <<rowVars, ownershipVars, paid, target, wanted, seen, snapshot, publishVars>>

\* Mutant of Reject: the status a contract has in place of the offer's.
RejectCancels(r, o, party) ==
    /\ Load(r, o, "save")
    /\ wanted' = [wanted EXCEPT ![r] = [offer[o] EXCEPT !.status = "CANCELLED", !.modifiedBy = party]]

\* Either party may reject at any time.
Reject(r, o, party) ==
    /\ Load(r, o, "save")
    /\ wanted' = [wanted EXCEPT ![r] = [offer[o] EXCEPT !.status = "REJECTED", !.modifiedBy = party]]

Save(r) ==
    /\ pc[r] = "save"
    /\ SaveRow(target[r], wanted[r])
    /\ Go(r, "done")
    /\ UNCHANGED <<agreement, ownershipVars, paid, target, wanted, seen, snapshot, publishVars>>

-----------------------------------------------------------------------------
(* AcceptOffer *)

\* The party opposite to ModifiedBy accepts.  The seller brings his account
\* along when the offer lacks it; a buyer cannot accept such an offer.
Accept(r, o, party) ==
    /\ offer[o].modifiedBy # party
    /\ offer[o].account \/ party = "seller"
    /\ Load(r, o, IF offer[o].account THEN "accept" ELSE "account")
    /\ wanted' = [wanted EXCEPT ![r] = [offer[o] EXCEPT !.account = TRUE]]

SaveAccount(r) ==
    /\ pc[r] = "account"
    /\ SaveRow(target[r], wanted[r])
    /\ Go(r, "accept")
    /\ UNCHANGED <<agreement, ownershipVars, paid, target, wanted, seen, snapshot, publishVars>>

CheckAccepted(r) ==
    /\ pc[r] = "accept"
    /\ Go(r, IF HasCapacity(target[r], wanted[r].terms) THEN "tx1" ELSE "done")
    /\ UNCHANGED <<rowVars, ownershipVars, paid, target, wanted, seen, snapshot, publishVars>>

-----------------------------------------------------------------------------
(* FinalizeAgreement *)

\* The first transaction: an offer that has its contract already is returned
\* as it is, one that cannot be activated is refused, both without payment.
Validate(r) ==
    LET o == target[r]
    IN  /\ pc[r] = "tx1"
        /\ snapshot' = [snapshot EXCEPT ![r] = offer[o].terms]
        /\ Go(r, IF MayActivate(o) THEN "pay" ELSE "done")
        /\ UNCHANGED <<rowVars, ownershipVars, paid, target, wanted, seen, publishVars>>

Transfer(r, amount) == paid' = [paid EXCEPT ![target[r]] = @ + amount]

\* Mutant of PayPremium: an error of the payment does not end the request.
PayPremiumIgnoresErrors(r) ==
    /\ pc[r] = "pay"
    /\ Go(r, "tx2")
    /\ \/ Transfer(r, snapshot[r].premium)
       \/ UNCHANGED paid
    /\ UNCHANGED <<rowVars, ownershipVars, target, wanted, seen, snapshot, publishVars>>

\* Banking pays or refuses.  An error ends the request, also when it only
\* means that the answer is lost.
PayPremium(r) ==
    /\ pc[r] = "pay"
    /\ \/ Transfer(r, snapshot[r].premium) /\ Go(r, "tx2")
       \/ UNCHANGED paid /\ Go(r, "done")
       \/ /\ "lost_answer" \in Faults
          /\ Transfer(r, snapshot[r].premium) /\ Go(r, "abandoned")
    /\ UNCHANGED <<rowVars, ownershipVars, target, wanted, seen, snapshot, publishVars>>

\* Mutant of MakeContract: the shares of the terms first proposed are reserved.
MakeContractReservesOne(o, party) ==
    /\ ~Agreed(o)
    /\ agreement' = [agreement EXCEPT ![o] = offer[o].terms]
    /\ reserved' = reserved + 1
    /\ SaveRow(o, [offer[o] EXCEPT !.status = "ACCEPTED", !.contract = TRUE, !.modifiedBy = party])

\* The contract takes its terms from the row the second transaction has
\* locked.  One offer has one contract: a second one fails on a unique index.
MakeContract(o, party) ==
    /\ ~Agreed(o)
    /\ agreement' = [agreement EXCEPT ![o] = offer[o].terms]
    /\ reserved' = reserved + offer[o].terms.amount
    /\ SaveRow(o, [offer[o] EXCEPT !.status = "ACCEPTED", !.contract = TRUE, !.modifiedBy = party])

\* Mutant of MayMakeContract: the capacity is checked before the payment only.
TrustsFirstCheck(o) == offer[o].status = "ACTIVE" /\ offer[o].account /\ ~Agreed(o)

MayMakeContract(o) == MayActivate(o) /\ ~Agreed(o)

AlreadyAccepted(o) == offer[o].status = "ACCEPTED" /\ offer[o].contract

Other(party) == IF party = "buyer" THEN "seller" ELSE "buyer"

\* A transaction that reports an error is taken for one that has failed.
AfterCommit == IF "lost_ack" \in Faults THEN {"done", "compensate"} ELSE {"done"}

\* The second transaction.
Activate(r) ==
    LET o        == target[r]
        acceptor == Other(seen[r].modifiedBy)
    IN  /\ pc[r] = "tx2"
        /\ \/ /\ AlreadyAccepted(o)
              /\ Go(r, "done")
              /\ UNCHANGED <<rowVars, reserved>>
           \/ /\ ~AlreadyAccepted(o) /\ MayMakeContract(o)
              /\ MakeContract(o, acceptor)
              /\ \E place \in AfterCommit : Go(r, place)
           \/ /\ \/ ~AlreadyAccepted(o) /\ ~MayMakeContract(o)
                 \/ "failed_commit" \in Faults
              /\ Go(r, "compensate")
              /\ UNCHANGED <<rowVars, reserved>>
        /\ UNCHANGED <<public, paid, target, wanted, seen, snapshot, publishVars>>

\* Mutant of Compensate: what is given back is the premium of the offer now.
CompensateCurrentPremium(r) ==
    /\ pc[r] = "compensate"
    /\ \/ Transfer(r, -offer[target[r]].terms.premium) /\ Go(r, "done")
       \/ UNCHANGED paid /\ Go(r, "abandoned")
    /\ UNCHANGED <<rowVars, ownershipVars, target, wanted, seen, snapshot, publishVars>>

\* compensatePremiumTransfer: the seller pays the premium back, if he can.
Compensate(r) ==
    /\ pc[r] = "compensate"
    /\ \/ Transfer(r, -snapshot[r].premium) /\ Go(r, "done")
       \/ UNCHANGED paid /\ Go(r, "abandoned")
    /\ UNCHANGED <<rowVars, ownershipVars, target, wanted, seen, snapshot, publishVars>>

-----------------------------------------------------------------------------
(* PublishAsset and failures *)

ReadOwnership(p) ==
    /\ publisher[p] = "new"
    /\ publisher' = [publisher EXCEPT ![p] = "write"]
    /\ read' = [read EXCEPT ![p] = [public |-> public, reserved |-> reserved]]
    /\ UNCHANGED <<rowVars, ownershipVars, paid, requestVars>>

\* The write puts back the reserved amount that was read.
WritePublished(p, portion) ==
    /\ publisher[p] = "write"
    /\ StalePublish \/ read[p] = [public |-> public, reserved |-> reserved]
    /\ read[p].public + portion <= Owned - read[p].reserved
    /\ public' = read[p].public + portion
    /\ reserved' = read[p].reserved
    /\ publisher' = [publisher EXCEPT ![p] = "done"]
    /\ UNCHANGED <<rowVars, paid, requestVars, read>>

\* Nothing resumes a request that ends half-way.
Crash(r) ==
    /\ "crash" \in Faults
    /\ pc[r] \notin {"new", "done", "abandoned"}
    /\ Go(r, IF pc[r] \in Holding THEN "abandoned" ELSE "done")
    /\ UNCHANGED <<rowVars, ownershipVars, paid, target, wanted, seen, snapshot, publishVars>>

-----------------------------------------------------------------------------
Negotiate(r) ==
    \/ \E t \in Terms : CheckNewOffer(r, t)
    \/ \E o \in Offers : InsertOffer(r, o)
    \/ \E o \in Offers, party \in Parties, t \in Terms : Counter(r, o, party, t)
    \/ CheckCounter(r)
    \/ \E o \in Offers, party \in Parties : Reject(r, o, party)
    \/ Save(r)

Agree(r) ==
    \/ \E o \in Offers, party \in Parties : Accept(r, o, party)
    \/ SaveAccount(r)
    \/ CheckAccepted(r)
    \/ Validate(r)
    \/ PayPremium(r)
    \/ Activate(r)
    \/ Compensate(r)

Publish(p) == ReadOwnership(p) \/ \E n \in Portions : WritePublished(p, n)

Next ==
    \/ \E r \in Requesters : Negotiate(r) \/ Agree(r) \/ Crash(r)
    \/ \E p \in Publishers : Publish(p)

Spec == Init /\ [][Next]_vars

-----------------------------------------------------------------------------
(* Properties *)

Undone(o) == SumFunctionOnSet([r \in Requesters |->
    IF target[r] = o /\ pc[r] \in Holding THEN snapshot[r].premium ELSE 0], Requesters)

\* Without a contract the buyer has paid exactly the premiums of the requests
\* that are still between the payment and its end, or were stopped there: no
\* request that returns leaves a premium behind it, however requests, counter-
\* offers and rejections overlap.
UnagreedIsRefunded == \A o \in Offers : ~Agreed(o) => paid[o] = Undone(o)

\* A contract is paid for by its buyer, over and above what is still to be
\* given back; whole-row saves that reopen or reject the offer behind it, and
\* further acceptances that are refused or charged, do not take that away.
ContractIsPaid == \A o \in Offers : Agreed(o) => paid[o] > Undone(o)

\* The shares of all contracts are covered by the shares the seller has
\* published, although requests check the capacity on unlocked reads.
ContractsCovered == Contracted <= public

\* ReservedAmount is exactly what the contracts are about: the assumption the
\* exercise saga starts from.
ReservedIsContracted == reserved = Contracted

Quiet == \A r \in Requesters : pc[r] \in {"new", "done"}

\* The premium that is recorded in the contract is the one that was paid.
PremiumPaidOnce ==
    Quiet => \A o \in Offers : Agreed(o) => paid[o] = agreement[o].premium
=============================================================================
