---------------------------- MODULE InterbankDeal ----------------------------
(***************************************************************************)
(* One option negotiated between a buyer and a seller of different banks:   *)
(* both banks keep a row of the negotiation, the bank opposite the one that *)
(* accepts coordinates the transaction that makes the contract, and the     *)
(* buyer's bank the one that exercises it.  Every attempt is a transaction  *)
(* of its own, while its postings of cash and its reservation of shares are *)
(* named after the contract and so are shared by all the attempts.          *)
(*                                                                          *)
(* How messages are leased, repeated and answered is InterbankPayment's     *)
(* subject: here a message is delivered any number of times until it is     *)
(* marked as sent, or given up, and a bank handles it once at a time.       *)
(***************************************************************************)
EXTENDS Integers, FiniteSets

CONSTANTS
    Attempts,      \* transactions that may be formed
    Terms,         \* offers: the number of shares, which here is the premium too
    Owned,         \* shares that the seller publishes
    DealFaults,    \* "crash", "lost_answer", "failed_commit": what may go wrong
    MaxDealFaults   \* and how often, all in all

DealAssumption ==
    /\ Terms \subseteq Nat \ {0} /\ Terms # {} /\ Owned \in Nat /\ MaxDealFaults \in Nat
    /\ DealFaults \subseteq {"crash", "lost_answer", "failed_commit"}

DealBanks == {"buyer", "seller"}
Other(b) == IF b = "buyer" THEN "seller" ELSE "buyer"

VARIABLES
    negotiation,  \* PeerNegotiation of each bank
    saving,       \* the row that a request of each bank's user is about to save
    expiring,     \* the row that the expiry job of each bank is about to save
    contract,     \* PeerContract of each bank
    attempt,      \* the transactions: what they do, by which terms, who coordinates
    dealRecord,   \* status of each PreparedTransaction in each bank
    stage,        \* how far the handler of a transaction is in each bank
    vote,         \* the participant's answer to NEW_TX, as its inbox keeps it
    dealOutbox,   \* messages of the coordinators that are to be sent
    dealPosting,  \* InterbankCashPosting of each kind of transaction in each bank
    reservation,  \* PeerOtcShareReservation of the seller
    shares,       \* the seller's ownership: amount and reserved
    credit,       \* PeerOtcShareCredit of the buyer: shares received
    due,          \* whether the settlement date has passed
    raced,        \* what has overlapped with a transaction under way
    dealFaults    \* how many faults there have been

rowVars   == <<negotiation, saving, expiring>>
txVars    == <<attempt, dealRecord, stage, vote, dealOutbox>>
assetVars == <<dealPosting, reservation, shares, credit>>
dealVars  == <<rowVars, contract, txVars, assetVars, due, raced, dealFaults>>

-----------------------------------------------------------------------------
Negotiations ==
    [status : {"ONGOING", "ACCEPTED", "CANCELLED", "EXPIRED"}, terms : Terms, by : DealBanks]
Nothing    == [status |-> "NONE", terms |-> 0]
Contracts  == [status : {"ACTIVE", "EXERCISED", "EXPIRED"}, terms : Terms] \cup {Nothing}
Reservations ==
    [status : {"NONE", "ACTIVE", "RELEASED", "CONSUMED"}, amount : Terms \cup {0}]
Kinds      == {"accept", "exercise"}
NoAttempt  == [kind |-> "none", terms |-> 0, by |-> "buyer"]
NoNegotiation == [status |-> "NONE", terms |-> 0, by |-> "buyer"]
DealMessages == Attempts \X {"NEW", "COMMIT", "ROLLBACK"}
Stages     == {"idle", "cash", "asset", "confirm", "enqueue", "refuse", "undo", "pay", "deliver"}
Statuses   == {"NONE", "PREPARED", "COMMITTED", "ROLLED_BACK"}

DealTypeOK ==
    /\ negotiation \in [DealBanks -> Negotiations]
    /\ {saving, expiring} \subseteq [DealBanks -> Negotiations \cup {NoNegotiation}]
    /\ contract \in [DealBanks -> Contracts]
    /\ attempt \in [Attempts -> [kind : Kinds, terms : Terms, by : DealBanks] \cup {NoAttempt}]
    /\ dealRecord \in [DealBanks -> [Attempts -> Statuses \cup {"PREPARING"}]]
    /\ stage \in [DealBanks -> [Attempts -> Stages]]
    /\ vote \in [Attempts -> {"none", "YES", "NO"}]
    /\ dealOutbox \subseteq DealMessages
    /\ dealPosting \in [Kinds -> [DealBanks -> [status : Statuses, amount : Terms \cup {0}]]]
    /\ reservation \in Reservations
    /\ shares \in [amount : 0..Owned, reserved : 0..Owned]
    /\ credit \in Terms \cup {0}
    /\ due \in BOOLEAN
    /\ raced \subseteq Kinds \cup {"counter", "expiry", "commit"}
    /\ dealFaults \in 0..MaxDealFaults

\* The row that an offer of bank by makes of a negotiation.
Proposed(t, by) == [status |-> "ONGOING", terms |-> t, by |-> by]

\* The seller's bank stores the offer first, then the buyer's bank its mirror of it.
CreateFromPeer(t)      == Proposed(t, "buyer")
CreateForLocalBuyer(t) == CreateFromPeer(t)

\* The buyer has made an offer.
Offered(t) ==
    /\ negotiation = [b \in DealBanks |->
                        IF b = "seller" THEN CreateFromPeer(t) ELSE CreateForLocalBuyer(t)]
    /\ contract = [b \in DealBanks |-> Nothing]
    /\ dealPosting = [k \in Kinds |-> [b \in DealBanks |-> [status |-> "NONE", amount |-> 0]]]
    /\ reservation = [status |-> "NONE", amount |-> 0]
    /\ shares = [amount |-> Owned, reserved |-> 0]

\* Or an attempt that is over has made the contract.
Agreed(t) ==
    /\ t <= Owned
    /\ negotiation = [b \in DealBanks |-> [status |-> "ACCEPTED", terms |-> t, by |-> "buyer"]]
    /\ contract = [b \in DealBanks |-> [status |-> "ACTIVE", terms |-> t]]
    /\ dealPosting = [k \in Kinds |-> [b \in DealBanks |->
                    IF k = "accept" THEN [status |-> "COMMITTED", amount |-> t]
                                    ELSE [status |-> "NONE", amount |-> 0]]]
    /\ reservation = [status |-> "ACTIVE", amount |-> t]
    /\ shares = [amount |-> Owned, reserved |-> t]

DealInit ==
    /\ \E t \in Terms : Offered(t) \/ Agreed(t)
    /\ saving = [b \in DealBanks |-> NoNegotiation] /\ expiring = saving
    /\ attempt = [x \in Attempts |-> NoAttempt]
    /\ dealRecord = [b \in DealBanks |-> [x \in Attempts |-> "NONE"]]
    /\ stage = [b \in DealBanks |-> [x \in Attempts |-> "idle"]]
    /\ vote = [x \in Attempts |-> "none"]
    /\ dealOutbox = {}
    /\ credit = 0
    /\ due = FALSE
    /\ raced = {}
    /\ dealFaults = 0

-----------------------------------------------------------------------------
Coordinator(x) == attempt[x].by
Participant(x) == Other(attempt[x].by)
Cash(b, x)     == dealPosting[attempt[x].kind][b]
InStage(b, x, s)    == stage[b][x] = s
GoStage(b, x, s)    == stage' = [stage EXCEPT ![b][x] = s]
Save(b, x, s)  == dealRecord' = [dealRecord EXCEPT ![b][x] = s]
\* COMMIT and ROLLBACK of a posting keep the amount it was made for.
SetCash(b, x, s) == dealPosting' = [dealPosting EXCEPT ![attempt[x].kind][b].status = s]

NoFault     == UNCHANGED dealFaults
DealFault(kind) == kind \in DealFaults /\ dealFaults < MaxDealFaults /\ dealFaults' = dealFaults + 1

\* Something is still going to be done for the transaction.
Live(x) ==
    \/ \E b \in DealBanks : stage[b][x] # "idle"
    \/ \E m \in dealOutbox : m[1] = x

\* The seller's bank has found the contract in order for the transaction.
Open(k, x) == attempt[x].kind = k /\ dealRecord["seller"][x] \in {"PREPARING", "PREPARED"}

UnderWay(k) == \E x \in Attempts : attempt[x].kind = k /\ Live(x)
Races(k, what) == raced' = IF UnderWay(k) THEN raced \cup {what} ELSE raced

-----------------------------------------------------------------------------
(* The negotiation                                                          *)

\* Whose turn it is may counter an offer that stands.
MayCounter(b, row) == row.status = "ONGOING" /\ row.by # b

\* Bank p stores the counter-offer of the other one.
UpdateCounter(p, t) ==
    /\ MayCounter(Other(p), negotiation[p])
    /\ negotiation' = [negotiation EXCEPT ![p] = Proposed(t, Other(p))]

\* A counter-offer of the user of bank b: the other bank stores it, then b saves
\* the row that it has read before.
Counter(b, t) ==
    /\ saving[b] = NoNegotiation /\ MayCounter(b, negotiation[b])
    /\ UpdateCounter(Other(b), t)
    /\ saving' = [saving EXCEPT ![b] = Proposed(t, b)]
    /\ Races("accept", "counter")
    /\ UNCHANGED <<expiring, contract, txVars, assetVars, due, dealFaults>>

Cancelled(row) == IF row.status = "ONGOING" THEN [row EXCEPT !.status = "CANCELLED"] ELSE row

\* Bank p leaves a negotiation alone that does not stand any more.
Close(p) == negotiation' = [negotiation EXCEPT ![p] = Cancelled(@)]

Withdraw(b) ==
    /\ saving[b] = NoNegotiation /\ \E c \in DealBanks : negotiation[c].status = "ONGOING"
    /\ Close(Other(b))
    /\ saving' = IF negotiation[b].status = "ONGOING"
                 THEN [saving EXCEPT ![b] = Cancelled(negotiation[b])] ELSE saving
    /\ UNCHANGED <<expiring, contract, txVars, assetVars, due, raced, dealFaults>>

\* The row is saved as a whole, over what has happened to it since it was read.
SaveRow(b) ==
    /\ saving[b] # NoNegotiation
    /\ negotiation' = [negotiation EXCEPT ![b] = saving[b]]
    /\ saving' = [saving EXCEPT ![b] = NoNegotiation]
    /\ Races("accept", "counter")
    /\ UNCHANGED <<expiring, contract, txVars, assetVars, due, dealFaults>>

LoseRow(b) ==
    /\ DealFault("lost_answer") /\ saving[b] # NoNegotiation
    /\ saving' = [saving EXCEPT ![b] = NoNegotiation]
    /\ UNCHANGED <<negotiation, expiring, contract, txVars, assetVars, due, raced>>

\* The transaction is formed and its intent is recorded: phase 1 of the prepare.
Form(x, kind, terms, b) ==
    /\ attempt[x] = NoAttempt
    /\ attempt' = [attempt EXCEPT ![x] = [kind |-> kind, terms |-> terms, by |-> b]]
    /\ Save(b, x, "PREPARING") /\ GoStage(b, x, "cash")
    /\ Races(kind, kind)
    /\ UNCHANGED <<rowVars, contract, vote, dealOutbox, assetVars, due, dealFaults>>

Acceptable(b, acceptor) ==
    \/ negotiation[b].status = "ONGOING" /\ negotiation[b].by # acceptor
    \/ negotiation[b].status = "ACCEPTED"

\* AcceptAsLocal at bank b forwards to AcceptFromPeer of the other one.
Accept(b, x) ==
    /\ \A c \in DealBanks : Acceptable(c, b) /\ contract[c] = Nothing
    /\ Form(x, "accept", negotiation[Other(b)].terms, Other(b))

Exercise(x) ==
    /\ contract["buyer"].status = "ACTIVE" /\ ~due
    /\ Form(x, "exercise", contract["buyer"].terms, "buyer")

-----------------------------------------------------------------------------
(* Preparing: cash first, then the shares, then the record                   *)

\* NEW_TX reaches the participant, which has no answer for it in its inbox.
DeliverNewTx(x) ==
    LET p == Participant(x) IN
    /\ <<x, "NEW">> \in dealOutbox /\ vote[x] = "none" /\ InStage(p, x, "idle")
    /\ \/ /\ dealRecord[p][x] \in {"NONE", "PREPARING"}
          /\ Save(p, x, "PREPARING") /\ GoStage(p, x, "cash")
          /\ UNCHANGED vote
       \/ /\ dealRecord[p][x] \in {"PREPARED", "COMMITTED"}
          /\ vote' = [vote EXCEPT ![x] = "YES"]
          /\ UNCHANGED <<dealRecord, stage>>
       \/ /\ dealRecord[p][x] = "ROLLED_BACK"
          /\ vote' = [vote EXCEPT ![x] = "NO"]
          /\ UNCHANGED <<dealRecord, stage>>
    /\ UNCHANGED <<rowVars, contract, attempt, dealOutbox, assetVars, due, raced, dealFaults>>

\* InterbankCashService.Prepare under the name of the contract: a repetition is
\* answered as before, a posting that is rolled back is prepared again, other
\* parameters are a conflict.  Any call may fail, of want of money or without it.
Known(b, x) == Cash(b, x).amount = attempt[x].terms
Fresh(b, x) == Cash(b, x).status = "NONE" \/ (Cash(b, x).status = "ROLLED_BACK" /\ Known(b, x))

HoldCash(b, x) ==
    dealPosting' = [dealPosting EXCEPT ![attempt[x].kind][b] =
                      [status |-> "PREPARED", amount |-> attempt[x].terms]]

PrepareCash(b, x) ==
    /\ InStage(b, x, "cash")
    /\ \/ /\ Fresh(b, x) /\ HoldCash(b, x)
          /\ \/ GoStage(b, x, "asset") /\ NoFault
             \/ GoStage(b, x, "refuse") /\ DealFault("lost_answer")
       \/ /\ Cash(b, x).status \in {"PREPARED", "COMMITTED"} /\ Known(b, x)
          /\ GoStage(b, x, "asset") /\ NoFault /\ UNCHANGED dealPosting
       \/ /\ GoStage(b, x, "refuse") /\ NoFault /\ UNCHANGED dealPosting
    /\ UNCHANGED <<rowVars, contract, attempt, dealRecord, vote, dealOutbox>>
    /\ UNCHANGED <<reservation, shares, credit, due, raced>>

\* PeerOtcShareService.Reserve: likewise for the shares.
ReserveAgain(x) ==
    LET t == attempt[x].terms IN
    /\ shares.amount - shares.reserved >= t
    /\ reservation' = [status |-> "ACTIVE", amount |-> t]
    /\ shares' = [shares EXCEPT !.reserved = @ + t]

ReserveShares(x) ==
    \/ /\ reservation.status \in {"ACTIVE", "CONSUMED"} /\ reservation.amount = attempt[x].terms
       /\ UNCHANGED <<reservation, shares>>
    \/ /\ \/ reservation.status = "NONE"
          \/ reservation.status = "RELEASED" /\ reservation.amount = attempt[x].terms
       /\ ReserveAgain(x)

\* Only the seller's bank has something to prepare besides the cash: it reserves
\* the shares of a negotiation that has no contract, or finds the contract active.
PrepareAsset(b, x) ==
    /\ InStage(b, x, "asset")
    /\ \/ /\ b = "buyer"
          /\ GoStage(b, x, "confirm") /\ NoFault /\ UNCHANGED <<reservation, shares>>
       \/ /\ b = "seller" /\ attempt[x].kind = "accept" /\ contract["seller"] = Nothing
          /\ ReserveShares(x)
          /\ \/ GoStage(b, x, "confirm") /\ NoFault
             \/ GoStage(b, x, "undo") /\ DealFault("lost_answer")
       \/ /\ b = "seller" /\ attempt[x].kind = "exercise"
          /\ contract["seller"].status = "ACTIVE" /\ ~due
          /\ GoStage(b, x, "confirm") /\ NoFault /\ UNCHANGED <<reservation, shares>>
       \/ /\ b = "seller"
          /\ GoStage(b, x, "undo") /\ NoFault /\ UNCHANGED <<reservation, shares>>
    /\ UNCHANGED <<rowVars, contract, attempt, dealRecord, vote, dealOutbox>>
    /\ UNCHANGED <<dealPosting, credit, due, raced>>

\* The vote is NO; what has been prepared, by this attempt or by another one, is
\* rolled back.
RollbackCash(b, x) ==
    IF Cash(b, x).status = "PREPARED" THEN SetCash(b, x, "ROLLED_BACK") ELSE UNCHANGED dealPosting

\* The answer of the participant is kept, unless it stops before.
AnswerNewTx(b, x, v) ==
    \/ b = Participant(x) /\ vote' = [vote EXCEPT ![x] = v] /\ NoFault
    \/ b = Participant(x) /\ UNCHANGED vote /\ DealFault("crash")
    \/ b = Coordinator(x) /\ UNCHANGED vote /\ NoFault

VoteNo(b, x) ==
    /\ \/ InStage(b, x, "refuse") /\ UNCHANGED dealPosting
       \/ InStage(b, x, "undo") /\ RollbackCash(b, x)
    /\ Save(b, x, "ROLLED_BACK") /\ GoStage(b, x, "idle") /\ AnswerNewTx(b, x, "NO")
    /\ UNCHANGED <<rowVars, contract, attempt, dealOutbox, reservation, shares, credit, due, raced>>

\* Phase 3 writes the row it read in phase 1 over whatever the record is by now.
ConfirmPrepared(b, x) ==
    /\ InStage(b, x, "confirm")
    /\ Save(b, x, "PREPARED") /\ AnswerNewTx(b, x, "YES")
    /\ GoStage(b, x, IF b = Coordinator(x) THEN "enqueue" ELSE "idle")
    /\ UNCHANGED <<rowVars, contract, attempt, dealOutbox, assetVars, due, raced>>

EnqueueDeal(x) ==
    LET c == Coordinator(x) IN
    /\ InStage(c, x, "enqueue")
    /\ dealOutbox' = dealOutbox \cup {<<x, "NEW">>} /\ GoStage(c, x, "idle")
    /\ UNCHANGED <<rowVars, contract, attempt, dealRecord, vote, assetVars, due, raced, dealFaults>>

-----------------------------------------------------------------------------
(* Rolling back                                                              *)

\* PeerOtcShareService.Release: consumed shares stay consumed.
ReleaseShares ==
    IF reservation.status = "ACTIVE"
    THEN /\ reservation' = [reservation EXCEPT !.status = "RELEASED"]
         /\ shares' = [shares EXCEPT !.reserved = @ - reservation.amount]
    ELSE UNCHANGED <<reservation, shares>>

\* Mutant: the shares are released whatever has been rolled back.
RollbackReleases(b, x) ==
    /\ dealRecord[b][x] \in {"PREPARING", "PREPARED"}
    /\ Save(b, x, "ROLLED_BACK") /\ RollbackCash(b, x)
    /\ IF b = "seller" THEN ReleaseShares ELSE UNCHANGED <<reservation, shares>>

\* RollbackLocalTransaction: errors of the single postings are ignored.
Rollback(b, x) ==
    /\ dealRecord[b][x] \in {"PREPARING", "PREPARED"}
    /\ Save(b, x, "ROLLED_BACK") /\ RollbackCash(b, x)
    /\ IF b = "seller" /\ attempt[x].kind = "accept"
       THEN ReleaseShares ELSE UNCHANGED <<reservation, shares>>

NothingToRollback(b, x) ==
    /\ dealRecord[b][x] \in {"NONE", "ROLLED_BACK"}
    /\ UNCHANGED <<dealRecord, dealPosting, reservation, shares>>
Refused(b, x) ==
    /\ dealRecord[b][x] = "COMMITTED"
    /\ UNCHANGED <<dealRecord, dealPosting, reservation, shares>>

\* The message has been dealt with, unless its sender stops before it is marked.
MarkMessage(m) ==
    \/ dealOutbox' = dealOutbox \ {m} /\ NoFault
    \/ UNCHANGED dealOutbox /\ DealFault("crash")
Queue(m, follow) ==
    LET queued == dealOutbox \cup {<<m[1], follow>>} IN
    \/ dealOutbox' = queued \ {m} /\ NoFault
    \/ dealOutbox' = queued /\ DealFault("crash")

\* The participant votes NO: the coordinator rolls back and cancels the row.
TakeNo(x) ==
    LET c == Coordinator(x) IN
    /\ <<x, "NEW">> \in dealOutbox /\ vote[x] = "NO" /\ InStage(c, x, "idle")
    /\ Rollback(c, x) \/ NothingToRollback(c, x) \/ Refused(c, x)
    /\ MarkMessage(<<x, "NEW">>)
    /\ UNCHANGED <<rowVars, contract, attempt, stage, vote, credit, due, raced>>

\* NEW_TX has been tried often enough.
GiveUpNewTx(x) ==
    LET c == Coordinator(x) IN
    /\ <<x, "NEW">> \in dealOutbox /\ InStage(c, x, "idle")
    /\ \/ /\ Rollback(c, x) \/ NothingToRollback(c, x)
          /\ Queue(<<x, "NEW">>, "ROLLBACK")
       \/ Refused(c, x) /\ MarkMessage(<<x, "NEW">>)
    /\ raced' = IF Cash(c, x).status = "COMMITTED" /\ dealRecord[c][x] # "COMMITTED"
                THEN raced \cup {"commit"} ELSE raced
    /\ UNCHANGED <<rowVars, contract, attempt, stage, vote, credit, due>>

DeliverRollback(x) ==
    LET p == Participant(x) m == <<x, "ROLLBACK">> IN
    /\ m \in dealOutbox
    /\ Rollback(p, x) \/ NothingToRollback(p, x)
    /\ MarkMessage(m)
    /\ UNCHANGED <<rowVars, contract, attempt, stage, vote, credit, due, raced>>

\* The last attempt to send a follow-up fails.
GiveUpFollowUp(x) ==
    /\ \E m \in {<<x, "COMMIT">>, <<x, "ROLLBACK">>} :
         m \in dealOutbox /\ dealOutbox' = dealOutbox \ {m}
    /\ UNCHANGED <<rowVars, contract, attempt, dealRecord, stage, vote, assetVars>>
    /\ UNCHANGED <<due, raced, dealFaults>>

-----------------------------------------------------------------------------
(* Committing: cash first, then the contract and the shares, then the record  *)

\* Mutant: any vote will do.
TakeAnyVote(x) ==
    LET c == Coordinator(x) m == <<x, "NEW">> IN
    /\ m \in dealOutbox /\ vote[x] # "none" /\ InStage(c, x, "idle")
    /\ \/ /\ dealRecord[c][x] = "PREPARED" /\ GoStage(c, x, "pay") /\ NoFault
          /\ dealOutbox' \in {dealOutbox, dealOutbox \ {m}}
       \/ dealRecord[c][x] = "COMMITTED" /\ Queue(m, "COMMIT") /\ UNCHANGED stage
       \/ dealRecord[c][x] = "ROLLED_BACK" /\ MarkMessage(m) /\ UNCHANGED stage
    /\ UNCHANGED <<rowVars, contract, attempt, dealRecord, vote, assetVars, due, raced>>

\* The coordinator has a YES.  A request marks NEW_TX as sent before it commits,
\* the worker afterwards.
TakeYes(x) ==
    LET c == Coordinator(x) m == <<x, "NEW">> IN
    /\ m \in dealOutbox /\ vote[x] = "YES" /\ InStage(c, x, "idle")
    /\ \/ /\ dealRecord[c][x] = "PREPARED" /\ GoStage(c, x, "pay") /\ NoFault
          /\ dealOutbox' \in {dealOutbox, dealOutbox \ {m}}
       \/ dealRecord[c][x] = "COMMITTED" /\ Queue(m, "COMMIT") /\ UNCHANGED stage
       \/ dealRecord[c][x] = "ROLLED_BACK" /\ MarkMessage(m) /\ UNCHANGED stage
    /\ UNCHANGED <<rowVars, contract, attempt, dealRecord, vote, assetVars, due, raced>>

\* COMMIT_TX at the participant; what it answers before it is prepared counts as
\* success for a request and as failure for the worker.
DeliverCommit(x) ==
    LET p == Participant(x) m == <<x, "COMMIT">> IN
    /\ m \in dealOutbox /\ InStage(p, x, "idle")
    /\ \/ dealRecord[p][x] = "PREPARED" /\ GoStage(p, x, "pay") /\ NoFault /\ UNCHANGED dealOutbox
       \/ /\ dealRecord[p][x] \in {"NONE", "PREPARING", "COMMITTED"}
          /\ MarkMessage(m) /\ UNCHANGED stage
    /\ UNCHANGED <<rowVars, contract, attempt, dealRecord, vote, assetVars, due, raced>>

\* The commit fails: the coordinator drops its NEW_TX, the participant is asked again.
AbortCommit(b, x) ==
    /\ GoStage(b, x, "idle")
    /\ dealOutbox' = IF b = Coordinator(x) THEN dealOutbox \ {<<x, "NEW">>} ELSE dealOutbox

CommitCash(b, x) ==
    /\ InStage(b, x, "pay")
    /\ \/ /\ Cash(b, x).status = "PREPARED" /\ SetCash(b, x, "COMMITTED")
          /\ \/ GoStage(b, x, "deliver") /\ NoFault /\ UNCHANGED dealOutbox
             \/ AbortCommit(b, x) /\ DealFault("lost_answer")
       \/ /\ Cash(b, x).status = "COMMITTED"
          /\ GoStage(b, x, "deliver") /\ NoFault /\ UNCHANGED <<dealPosting, dealOutbox>>
       \/ /\ Cash(b, x).status \in {"NONE", "ROLLED_BACK"}
          /\ AbortCommit(b, x) /\ NoFault /\ UNCHANGED dealPosting
    /\ UNCHANGED <<rowVars, contract, attempt, dealRecord, vote>>
    /\ UNCHANGED <<reservation, shares, credit, due, raced>>

\* The seller's bank makes the contract of its negotiation as it is now, the
\* buyer's bank that of the transaction.  A contract is made once.
MakeContract(b, x) ==
    /\ attempt[x].kind = "accept" /\ contract[b] = Nothing
    /\ contract' = [contract EXCEPT ![b] =
         [status |-> "ACTIVE",
          terms |-> IF b = "seller" THEN negotiation[b].terms ELSE attempt[x].terms]]
    /\ negotiation' = IF negotiation[b].status = "ONGOING"
                      THEN [negotiation EXCEPT ![b].status = "ACCEPTED"] ELSE negotiation

\* PeerOtcShareService.Consume: refused once the shares are released.
Consume ==
    \/ reservation.status = "CONSUMED" /\ UNCHANGED <<reservation, shares>>
    \/ /\ reservation.status = "ACTIVE"
       /\ reservation' = [reservation EXCEPT !.status = "CONSUMED"]
       /\ shares' = [amount   |-> shares.amount - reservation.amount,
                     reserved |-> shares.reserved - reservation.amount]

\* PeerOtcShareService.Credit: once for a contract.
CreditBuyer(x) == credit \in {0, attempt[x].terms} /\ credit' = attempt[x].terms

MoveShares(b, x) ==
    /\ attempt[x].kind = "exercise"
    /\ IF b = "seller" THEN Consume /\ UNCHANGED credit
       ELSE CreditBuyer(x) /\ UNCHANGED <<reservation, shares>>

CannotDeliver(b, x) ==
    IF attempt[x].kind = "accept" THEN contract[b] # Nothing
    ELSE \/ b = "seller" /\ reservation.status \in {"NONE", "RELEASED"}
         \/ b = "buyer" /\ credit \notin {0, attempt[x].terms}

\* The database transaction of the commit ends, with the contract and the record.
Deliver(b, x) ==
    /\ InStage(b, x, "deliver")
    /\ \/ /\ MakeContract(b, x)
          /\ UNCHANGED <<reservation, shares, credit>>
       \/ /\ MoveShares(b, x)
          /\ contract' = [contract EXCEPT ![b].status = "EXERCISED"]
          /\ UNCHANGED negotiation
    /\ Save(b, x, "COMMITTED") /\ GoStage(b, x, "idle")
    /\ IF b = Coordinator(x) THEN Queue(<<x, "NEW">>, "COMMIT") ELSE MarkMessage(<<x, "COMMIT">>)
    /\ UNCHANGED <<saving, expiring, attempt, vote, dealPosting, due, raced>>

\* It is rolled back instead: the shares have moved, or cannot be moved.
DeliverFails(b, x) ==
    /\ InStage(b, x, "deliver")
    /\ \/ MoveShares(b, x) /\ DealFault("failed_commit")
       \/ /\ attempt[x].kind = "accept" /\ DealFault("failed_commit")
          /\ UNCHANGED <<reservation, shares, credit>>
       \/ CannotDeliver(b, x) /\ NoFault /\ UNCHANGED <<reservation, shares, credit>>
    /\ AbortCommit(b, x)
    /\ UNCHANGED <<rowVars, contract, attempt, dealRecord, vote, dealPosting, due, raced>>

-----------------------------------------------------------------------------
(* Expiry and crashes                                                         *)

SettlementPasses ==
    /\ ~due /\ due' = TRUE
    /\ UNCHANGED <<rowVars, contract, txVars, assetVars, raced, dealFaults>>

\* The shares are released, then the contract is marked, unless the job stops in
\* between: the next run does it again.  What became of the contract since the job read
\* it shows in the reservation, which is not released once it is consumed.  At the
\* buyer's bank there is none to release, and the job goes no further.
ExpireContract ==
    /\ due /\ contract["seller"].status = "ACTIVE" /\ reservation.status # "CONSUMED"
    /\ ReleaseShares
    /\ \/ contract' = [contract EXCEPT !["seller"].status = "EXPIRED"] /\ NoFault
       \/ UNCHANGED contract /\ DealFault("crash")
    /\ raced' = IF \E x \in Attempts : Open("exercise", x) THEN raced \cup {"expiry"} ELSE raced
    /\ UNCHANGED <<rowVars, txVars, dealPosting, credit, due>>

\* The job reads the rows that stand, and saves each as a whole some time later.
FindOngoing(b) ==
    /\ due /\ negotiation[b].status = "ONGOING" /\ expiring[b] = NoNegotiation
    /\ expiring' = [expiring EXCEPT ![b] = [negotiation[b] EXCEPT !.status = "EXPIRED"]]
    /\ UNCHANGED <<negotiation, saving, contract, txVars, assetVars, due, raced, dealFaults>>

ExpireNegotiation(b) ==
    /\ expiring[b] # NoNegotiation
    /\ negotiation' = [negotiation EXCEPT ![b] = expiring[b]]
    /\ expiring' = [expiring EXCEPT ![b] = NoNegotiation]
    /\ Races("accept", "counter")
    /\ UNCHANGED <<saving, contract, txVars, assetVars, due, dealFaults>>

\* A handler stops, by a crash or because its request is gone.
HandlerCrash(b, x) ==
    /\ DealFault("crash") /\ stage[b][x] # "idle"
    /\ GoStage(b, x, "idle")
    /\ UNCHANGED <<rowVars, contract, attempt, dealRecord, vote, dealOutbox, assetVars, due, raced>>

-----------------------------------------------------------------------------
Negotiate(b) ==
    \/ \E t \in Terms : Counter(b, t)
    \/ Withdraw(b) \/ SaveRow(b) \/ LoseRow(b) \/ FindOngoing(b) \/ ExpireNegotiation(b)
    \/ \E x \in Attempts : Accept(b, x)

Coordinate(x) ==
    \/ Exercise(x) \/ EnqueueDeal(x)
    \/ TakeYes(x) \/ TakeNo(x) \/ GiveUpNewTx(x) \/ GiveUpFollowUp(x)

Participate(x) == DeliverNewTx(x) \/ DeliverCommit(x) \/ DeliverRollback(x)

Process(b, x) ==
    \/ PrepareCash(b, x) \/ PrepareAsset(b, x) \/ VoteNo(b, x) \/ ConfirmPrepared(b, x)
    \/ CommitCash(b, x) \/ Deliver(b, x) \/ DeliverFails(b, x) \/ HandlerCrash(b, x)

DealNext ==
    \/ \E b \in DealBanks : Negotiate(b)
    \/ \E x \in Attempts : Coordinate(x) \/ Participate(x)
    \/ \E b \in DealBanks, x \in Attempts : Process(b, x)
    \/ SettlementPasses \/ ExpireContract

DealSpec == DealInit /\ [][DealNext]_dealVars

-----------------------------------------------------------------------------
\* An attempt that one bank has committed and the other one can still commit.
Completes(k, b) ==
    \E x \in Attempts :
        /\ attempt[x].kind = k
        /\ dealRecord[b][x] = "COMMITTED" /\ dealRecord[Other(b)][x] = "PREPARED"

PaidFor(k, b, t) == dealPosting[k][b].status = "COMMITTED" /\ dealPosting[k][b].amount = t

\* The shares of a contract that may be exercised are reserved, or already moved.
Covered ==
    contract["seller"].status = "ACTIVE" /\ ~due =>
        \/ reservation = [status |-> "ACTIVE", amount |-> contract["seller"].terms]
        \/ reservation.status = "CONSUMED"

\* A contract of one bank is the other bank's too, with the same terms and the
\* premium paid on both sides, or can still be made there; and it is covered.
ContractsAgree ==
    raced \cap {"accept", "counter"} = {} =>
        /\ Covered
        /\ \A b \in DealBanks : contract[b] # Nothing =>
            /\ PaidFor("accept", b, contract[b].terms)
            /\ \/ /\ contract[Other(b)].terms = contract[b].terms
                  /\ PaidFor("accept", Other(b), contract[b].terms)
               \/ contract[Other(b)] = Nothing /\ Completes("accept", b)

\* What the buyer receives is what the seller has paid for and gives up.
DeliveredOnce ==
    raced = {} =>
        /\ reservation.status = "CONSUMED" => credit = reservation.amount
        /\ credit # 0 =>
             /\ PaidFor("exercise", "buyer", credit)
             /\ \/ reservation.status = "CONSUMED" /\ PaidFor("exercise", "seller", credit)
                \/ reservation.status = "ACTIVE" /\ \E x \in Attempts : Open("exercise", x)
=============================================================================
