------------------------- MODULE InterbankDealProofs -------------------------
(***************************************************************************)
(* Theorems about InterbankDeal, for every number of attempts, any offers   *)
(* and any number of faults, and about the interbank-service that carries   *)
(* payments beside deals.                                                   *)
(*                                                                          *)
(* The invariant is built in layers, each proved from those before it:      *)
(* DealInv (types, and what a stage says of the records and messages of its *)
(* attempt), BooksInv (shares and cash are those of the attempts), AgreeInv *)
(* (the two rows and contracts), DeliverInv (who has received the shares).  *)
(***************************************************************************)
EXTENDS MCInterbank, InterbankPaymentProofs

-----------------------------------------------------------------------------
(* Types.  That an exercised contract is one that was made, and that no more  *)
(* shares are reserved than there are, comes later.                           *)

LooseContracts ==
    [status : {"ACTIVE", "EXPIRED"}, terms : Terms] \cup {Nothing}
      \cup [status : {"EXERCISED"}, terms : Terms \cup {0}]
Transactions == [kind : Kinds, terms : Terms, by : DealBanks]
DealStates == Statuses \cup {"PREPARING"}
DealPostings     == [status : Statuses, amount : Terms \cup {0}]

OfferTypes ==
    /\ negotiation \in [DealBanks -> Negotiations]
    /\ saving \in [DealBanks -> Negotiations \cup {NoNegotiation}]
    /\ expiring \in [DealBanks -> Negotiations \cup {NoNegotiation}]
    /\ contract \in [DealBanks -> LooseContracts]

TxTypes ==
    /\ attempt \in [Attempts -> Transactions \cup {NoAttempt}]
    /\ dealRecord \in [DealBanks -> [Attempts -> DealStates]]
    /\ stage \in [DealBanks -> [Attempts -> Stages]]
    /\ vote \in [Attempts -> {"none", "YES", "NO"}]
    /\ dealOutbox \subseteq DealMessages

AssetTypes ==
    /\ dealPosting \in [Kinds -> [DealBanks -> DealPostings]]
    /\ reservation \in Reservations
    /\ shares \in [amount : Int, reserved : Int]
    /\ credit \in Terms \cup {0}

HistoryTypes ==
    /\ due \in BOOLEAN
    /\ raced \subseteq Kinds \cup {"counter", "expiry", "commit"}
    /\ dealFaults \in 0..MaxDealFaults

DealTypes == OfferTypes /\ TxTypes /\ AssetTypes /\ HistoryTypes

LEMMA TermsNumbers ==
    ASSUME DealAssumption
    PROVE  /\ Terms \subseteq Nat \ {0} /\ 0 \notin Terms /\ Owned \in Nat /\ MaxDealFaults \in Nat
           /\ \A n \in Terms \cup {0} : n \in Int
BY DEF DealAssumption

LEMMA NoAttemptApart == ASSUME DealAssumption PROVE NoAttempt \notin Transactions
BY DEF NoAttempt, Transactions, Kinds

LEMMA BanksOther ==
    ASSUME NEW b \in DealBanks
    PROVE  /\ Other(b) \in DealBanks /\ Other(b) # b /\ Other(Other(b)) = b
           /\ DealBanks = {b, Other(b)}
BY DEF DealBanks, Other

LEMMA BothBanks ==
    ASSUME TxTypes, NEW x \in Attempts
    PROVE  /\ Coordinator(x) \in DealBanks /\ Participant(x) \in DealBanks
           /\ Participant(x) = Other(Coordinator(x)) /\ Participant(x) # Coordinator(x)
           /\ DealBanks = {Coordinator(x), Participant(x)}
<1>1. Coordinator(x) \in DealBanks
  BY DEF TxTypes, Transactions, NoAttempt, Coordinator, DealBanks
<1> QED BY <1>1, BanksOther DEF Coordinator, Participant

LEMMA DealFaultTypes ==
    ASSUME DealAssumption, HistoryTypes, NEW kind, DealFault(kind) \/ NoFault
    PROVE  dealFaults' \in 0..MaxDealFaults
BY TermsNumbers DEF HistoryTypes, DealFault, NoFault

LEMMA RaceTypes ==
    ASSUME HistoryTypes, NEW k, NEW what \in Kinds \cup {"counter", "expiry", "commit"},
           Races(k, what)
    PROVE  raced' \subseteq Kinds \cup {"counter", "expiry", "commit"}
BY DEF HistoryTypes, Races

-----------------------------------------------------------------------------
(* What one step does to the tables *)

LEMMA SaveEffect ==
    ASSUME TxTypes, NEW b \in DealBanks, NEW x \in Attempts, NEW s \in DealStates, Save(b, x, s)
    PROVE  /\ dealRecord' \in [DealBanks -> [Attempts -> DealStates]]
           /\ dealRecord'[b][x] = s
           /\ \A d \in DealBanks, y \in Attempts :
                d # b \/ y # x => dealRecord'[d][y] = dealRecord[d][y]
BY DEF TxTypes, Save

LEMMA GoEffect ==
    ASSUME TxTypes, NEW b \in DealBanks, NEW x \in Attempts, NEW s \in Stages, GoStage(b, x, s)
    PROVE  /\ stage' \in [DealBanks -> [Attempts -> Stages]]
           /\ stage'[b][x] = s
           /\ \A d \in DealBanks, y \in Attempts : d # b \/ y # x => stage'[d][y] = stage[d][y]
BY DEF TxTypes, GoStage

LEMMA VoteEffect ==
    ASSUME TxTypes, NEW x \in Attempts, NEW v \in {"YES", "NO"}, vote' = [vote EXCEPT ![x] = v]
    PROVE  /\ vote' \in [Attempts -> {"none", "YES", "NO"}]
           /\ vote'[x] = v /\ \A y \in Attempts : y # x => vote'[y] = vote[y]
BY DEF TxTypes

\* What the steps do to the postings of cash.
LEMMA SetCashEffect ==
    ASSUME AssetTypes, NEW b \in DealBanks, NEW x, attempt[x] \in Transactions,
           NEW s \in Statuses, SetCash(b, x, s)
    PROVE  /\ dealPosting' \in [Kinds -> [DealBanks -> DealPostings]]
           /\ dealPosting'[attempt[x].kind][b] = [Cash(b, x) EXCEPT !.status = s]
           /\ \A k \in Kinds, d \in DealBanks :
                k # attempt[x].kind \/ d # b => dealPosting'[k][d] = dealPosting[k][d]
<1> DEFINE k == attempt[x].kind
<1>1. k \in Kinds /\ dealPosting[k][b] \in DealPostings
  BY DEF AssetTypes, Transactions
<1>2. [dealPosting[k][b] EXCEPT !.status = s] \in DealPostings
  BY <1>1 DEF DealPostings
<1>3. dealPosting' = [dealPosting EXCEPT ![k] =
                       [dealPosting[k] EXCEPT ![b] = [dealPosting[k][b] EXCEPT !.status = s]]]
  BY <1>1 DEF SetCash
<1> QED BY <1>1, <1>2, <1>3 DEF AssetTypes, Cash

LEMMA SetCashElsewhere ==
    ASSUME AssetTypes, NEW b \in DealBanks, NEW x, attempt[x] \in Transactions, NEW s,
           SetCash(b, x, s), NEW k \in Kinds, NEW d \in DealBanks, k # attempt[x].kind \/ d # b
    PROVE  dealPosting'[k][d] = dealPosting[k][d]
<1>1. attempt[x].kind \in Kinds
  BY DEF Transactions
<1> QED BY <1>1 DEF AssetTypes, SetCash

LEMMA HoldCashEffect ==
    ASSUME AssetTypes, NEW b \in DealBanks, NEW x, attempt[x] \in Transactions, HoldCash(b, x)
    PROVE  /\ dealPosting' \in [Kinds -> [DealBanks -> DealPostings]]
           /\ dealPosting'[attempt[x].kind][b]
                = [status |-> "PREPARED", amount |-> attempt[x].terms]
           /\ \A k \in Kinds, d \in DealBanks :
                k # attempt[x].kind \/ d # b => dealPosting'[k][d] = dealPosting[k][d]
<1>1. attempt[x].kind \in Kinds
      /\ [status |-> "PREPARED", amount |-> attempt[x].terms] \in DealPostings
  BY DEF Transactions, DealPostings, Statuses
<1> QED BY <1>1 DEF AssetTypes, HoldCash

-----------------------------------------------------------------------------
(* The two-phase commit of one attempt *)

Early == {"cash", "asset", "confirm", "refuse", "undo"}
Late  == {"pay", "deliver"}

\* Where the coordinator c and the participant p of x are.
Phases(x, c, p) ==
    /\ attempt[x] = NoAttempt =>
         /\ stage[c][x] = "idle" /\ dealRecord[c][x] = "NONE"
         /\ stage[p][x] = "idle" /\ dealRecord[p][x] = "NONE" /\ vote[x] = "none"
         /\ \A t \in {"NEW", "COMMIT", "ROLLBACK"} : <<x, t>> \notin dealOutbox
    /\ attempt[x] # NoAttempt => dealRecord[c][x] # "NONE"
    /\ stage[c][x] \in Early \cup {"enqueue"} =>
         /\ dealRecord[c][x] = IF stage[c][x] = "enqueue" THEN "PREPARED" ELSE "PREPARING"
         /\ stage[p][x] = "idle" /\ dealRecord[p][x] = "NONE" /\ vote[x] = "none"
         /\ \A t \in {"NEW", "COMMIT", "ROLLBACK"} : <<x, t>> \notin dealOutbox
    /\ stage[c][x] \in Late => dealRecord[c][x] = "PREPARED" /\ vote[x] = "YES"
    /\ <<x, "NEW">> \in dealOutbox => dealRecord[c][x] \in {"PREPARED", "COMMITTED", "ROLLED_BACK"}
    /\ <<x, "COMMIT">> \in dealOutbox => dealRecord[c][x] = "COMMITTED"
    /\ <<x, "ROLLBACK">> \in dealOutbox => dealRecord[c][x] = "ROLLED_BACK"
    /\ dealRecord[c][x] = "COMMITTED" => vote[x] = "YES" /\ stage[c][x] = "idle"
    /\ stage[p][x] # "enqueue"
    /\ stage[p][x] \in Early =>
         /\ vote[x] = "none"
         /\ \/ dealRecord[p][x] = "PREPARING"
            \/ dealRecord[p][x] = "ROLLED_BACK" /\ dealRecord[c][x] = "ROLLED_BACK"
    /\ stage[p][x] \in Late => dealRecord[p][x] = "PREPARED" /\ dealRecord[c][x] = "COMMITTED"
    /\ dealRecord[p][x] = "COMMITTED" => dealRecord[c][x] = "COMMITTED" /\ stage[p][x] = "idle"
    /\ vote[x] = "YES" /\ dealRecord[c][x] # "ROLLED_BACK" =>
         dealRecord[p][x] \in {"PREPARED", "COMMITTED"}

Protocol == \A x \in Attempts : Phases(x, Coordinator(x), Participant(x))

\* Nothing has happened to x.
SameTx(x) ==
    /\ attempt'[x] = attempt[x]
    /\ \A b \in DealBanks : dealRecord'[b][x] = dealRecord[b][x] /\ stage'[b][x] = stage[b][x]
    /\ vote'[x] = vote[x]
    /\ \A t \in {"NEW", "COMMIT", "ROLLBACK"} : <<x, t>> \in dealOutbox' <=> <<x, t>> \in dealOutbox

TxInv == TxTypes /\ Protocol

LEMMA PhasesKept ==
    ASSUME DealAssumption, TxTypes, TxTypes', NEW x \in Attempts, Protocol,
           \A y \in Attempts \ {x} : SameTx(y),
           Phases(x, Coordinator(x), Participant(x))'
    PROVE  Protocol'
<1> SUFFICES ASSUME NEW y \in Attempts PROVE Phases(y, Coordinator(y), Participant(y))'
  BY DEF Protocol
<1>1. CASE y = x
  BY <1>1
<1>2. CASE y # x
  <2>1. PICK c, p \in DealBanks : c = Coordinator(y) /\ p = Participant(y) /\ c # p
    BY BothBanks
  <2>2. Phases(y, c, p) /\ SameTx(y)
    BY <1>2, <2>1 DEF Protocol
  <2>3. Coordinator(y)' = c /\ Participant(y)' = p
    BY <2>1, <2>2 DEF SameTx, Coordinator, Participant
  <2>4. Phases(y, c, p)'
    BY <2>2 DEF SameTx, Phases
  <2> QED BY <2>3, <2>4 DEF Phases
<1> QED BY <1>1, <1>2

-----------------------------------------------------------------------------
(* Every step keeps the types *)

LEMMA OutboxTypes ==
    ASSUME TxTypes, NEW x \in Attempts, NEW t \in {"NEW", "COMMIT", "ROLLBACK"},
           \/ MarkMessage(<<x, t>>)
           \/ \E f \in {"COMMIT", "ROLLBACK"} : Queue(<<x, t>>, f)
    PROVE  /\ dealOutbox' \subseteq DealMessages
           /\ (\E kind : DealFault(kind)) \/ NoFault
BY DEF TxTypes, DealMessages, MarkMessage, Queue

LEMMA CounterTypes ==
    ASSUME DealAssumption, DealTypes, NEW b \in DealBanks, NEW t \in Terms, Counter(b, t)
    PROVE  DealTypes'
<1>1. Other(b) \in DealBanks
  BY BanksOther
<1>2. Proposed(t, b) \in Negotiations /\ Proposed(t, Other(Other(b))) \in Negotiations
  BY BanksOther DEF Proposed, Negotiations
<1>3. OfferTypes'
  BY <1>1, <1>2 DEF DealTypes, OfferTypes, Counter, UpdateCounter
<1>4. raced' \subseteq Kinds \cup {"counter", "expiry", "commit"}
  BY RaceTypes DEF Counter, DealTypes
<1> QED BY <1>3, <1>4
        DEF DealTypes, TxTypes, AssetTypes, HistoryTypes, Counter, txVars, assetVars

LEMMA WithdrawTypes ==
    ASSUME DealAssumption, DealTypes, NEW b \in DealBanks, Withdraw(b)
    PROVE  DealTypes'
<1>1. Other(b) \in DealBanks
  BY BanksOther
<1>2. ASSUME NEW row \in Negotiations PROVE Cancelled(row) \in Negotiations
  BY DEF Cancelled, Negotiations
<1>3. negotiation[b] \in Negotiations /\ negotiation[Other(b)] \in Negotiations
  BY <1>1 DEF DealTypes, OfferTypes
<1>4. /\ Cancelled(negotiation[b]) \in Negotiations
      /\ Cancelled(negotiation[Other(b)]) \in Negotiations
  BY <1>2, <1>3
<1>5. OfferTypes'
  BY <1>1, <1>4 DEF DealTypes, OfferTypes, Withdraw, Close
<1> QED BY <1>5
        DEF DealTypes, TxTypes, AssetTypes, HistoryTypes, Withdraw, txVars, assetVars

LEMMA SaveRowTypes ==
    ASSUME DealAssumption, DealTypes, NEW b \in DealBanks, SaveRow(b) \/ LoseRow(b)
    PROVE  DealTypes'
<1>1. CASE SaveRow(b)
  <2>1. saving[b] \in Negotiations
    BY <1>1 DEF DealTypes, OfferTypes, SaveRow
  <2>2. OfferTypes'
    BY <1>1, <2>1 DEF DealTypes, OfferTypes, SaveRow
  <2>3. raced' \subseteq Kinds \cup {"counter", "expiry", "commit"}
    BY <1>1, RaceTypes DEF SaveRow, DealTypes
  <2> QED BY <1>1, <2>2, <2>3
          DEF DealTypes, TxTypes, AssetTypes, HistoryTypes, SaveRow, txVars, assetVars
<1>2. CASE LoseRow(b)
  <2>1. OfferTypes'
    BY <1>2 DEF DealTypes, OfferTypes, LoseRow
  <2>2. dealFaults' \in 0..MaxDealFaults
    BY <1>2, DealFaultTypes DEF LoseRow, DealTypes
  <2> QED BY <1>2, <2>1, <2>2
          DEF DealTypes, TxTypes, AssetTypes, HistoryTypes, LoseRow, txVars, assetVars
<1> QED BY <1>1, <1>2

LEMMA FormTypes ==
    ASSUME DealAssumption, DealTypes, NEW x \in Attempts, NEW kind \in Kinds, NEW t \in Terms,
           NEW b \in DealBanks, Form(x, kind, t, b)
    PROVE  DealTypes'
<1>1. /\ dealRecord' \in [DealBanks -> [Attempts -> DealStates]]
      /\ stage' \in [DealBanks -> [Attempts -> Stages]]
  <2>1. "PREPARING" \in DealStates /\ "cash" \in Stages
    BY DEF DealStates, Stages
  <2> QED BY <2>1, SaveEffect, GoEffect DEF Form, DealTypes
<1>2. attempt' \in [Attempts -> Transactions \cup {NoAttempt}]
  <2>1. [kind |-> kind, terms |-> t, by |-> b] \in Transactions
    BY DEF Transactions
  <2> QED BY <2>1 DEF Form, DealTypes, TxTypes
<1>3. raced' \subseteq Kinds \cup {"counter", "expiry", "commit"}
  BY RaceTypes DEF Form, DealTypes
<1> QED BY <1>1, <1>2, <1>3
        DEF DealTypes, OfferTypes, TxTypes, AssetTypes, HistoryTypes, Form, rowVars, assetVars

\* What is accepted are the terms of the other bank's row, what is exercised those
\* of the contract.
LEMMA AcceptForms ==
    ASSUME DealAssumption, DealTypes, NEW b \in DealBanks, NEW x \in Attempts, Accept(b, x)
    PROVE  /\ Other(b) \in DealBanks /\ negotiation[Other(b)].terms \in Terms
           /\ Form(x, "accept", negotiation[Other(b)].terms, Other(b)) /\ "accept" \in Kinds
BY BanksOther DEF Accept, DealTypes, OfferTypes, Negotiations, Kinds

LEMMA ExerciseForms ==
    ASSUME DealAssumption, DealTypes, NEW x \in Attempts, Exercise(x)
    PROVE  /\ "buyer" \in DealBanks /\ contract["buyer"].terms \in Terms
           /\ Form(x, "exercise", contract["buyer"].terms, "buyer") /\ "exercise" \in Kinds
BY DEF Exercise, DealTypes, OfferTypes, LooseContracts, Nothing, Kinds, DealBanks

LEMMA DealPrepareTypes ==
    ASSUME DealAssumption, DealTypes, NEW b \in DealBanks, NEW x \in Attempts,
           attempt[x] \in Transactions, PrepareCash(b, x) \/ PrepareAsset(b, x)
    PROVE  DealTypes'
<1>1. CASE PrepareCash(b, x)
  <2>1. stage' \in [DealBanks -> [Attempts -> Stages]]
    BY <1>1, GoEffect DEF PrepareCash, DealTypes, Stages
  <2>2. dealPosting' \in [Kinds -> [DealBanks -> DealPostings]]
    BY <1>1, HoldCashEffect DEF PrepareCash, DealTypes, AssetTypes
  <2>3. dealFaults' \in 0..MaxDealFaults
    BY <1>1, DealFaultTypes DEF PrepareCash, DealTypes
  <2> QED BY <1>1, <2>1, <2>2, <2>3
          DEF DealTypes, OfferTypes, TxTypes, AssetTypes, HistoryTypes, PrepareCash, rowVars
<1>2. CASE PrepareAsset(b, x)
  <2>1. stage' \in [DealBanks -> [Attempts -> Stages]]
    BY <1>2, GoEffect DEF PrepareAsset, DealTypes, Stages
  <2>2. reservation' \in Reservations /\ shares' \in [amount : Int, reserved : Int]
    <3>1. CASE UNCHANGED <<reservation, shares>>
      BY <3>1 DEF DealTypes, AssetTypes
    <3>2. CASE ReserveAgain(x)
      <4>1. attempt[x].terms \in Terms /\ attempt[x].terms \in Int
        BY TermsNumbers DEF Transactions
      <4> QED BY <3>2, <4>1 DEF ReserveAgain, Reservations, DealTypes, AssetTypes
    <3> QED BY <1>2, <3>1, <3>2 DEF PrepareAsset, ReserveShares
  <2>3. dealFaults' \in 0..MaxDealFaults
    BY <1>2, DealFaultTypes DEF PrepareAsset, DealTypes
  <2> QED BY <1>2, <2>1, <2>2, <2>3
          DEF DealTypes, OfferTypes, TxTypes, AssetTypes, HistoryTypes, PrepareAsset, rowVars
<1> QED BY <1>1, <1>2

LEMMA RollbackCashTypes ==
    ASSUME DealTypes, NEW b \in DealBanks, NEW x, attempt[x] \in Transactions, RollbackCash(b, x)
    PROVE  dealPosting' \in [Kinds -> [DealBanks -> DealPostings]]
BY SetCashEffect DEF RollbackCash, DealTypes, AssetTypes, Statuses

LEMMA ReleaseTypes ==
    ASSUME DealAssumption, DealTypes, ReleaseShares
    PROVE  reservation' \in Reservations /\ shares' \in [amount : Int, reserved : Int]
<1>1. reservation.amount \in Int
  BY TermsNumbers DEF DealTypes, AssetTypes, Reservations
<1> QED BY <1>1 DEF DealTypes, AssetTypes, Reservations, ReleaseShares

LEMMA DealAnswerTypes ==
    ASSUME DealAssumption, DealTypes, NEW b \in DealBanks, NEW x \in Attempts,
           NEW v \in {"YES", "NO"}, AnswerNewTx(b, x, v)
    PROVE  vote' \in [Attempts -> {"none", "YES", "NO"}] /\ dealFaults' \in 0..MaxDealFaults
BY DealFaultTypes, VoteEffect DEF AnswerNewTx, DealTypes, TxTypes

LEMMA VoteTypes ==
    ASSUME DealAssumption, DealTypes, NEW b \in DealBanks, NEW x \in Attempts,
           attempt[x] \in Transactions, VoteNo(b, x) \/ ConfirmPrepared(b, x)
    PROVE  DealTypes'
<1>1. /\ dealRecord' \in [DealBanks -> [Attempts -> DealStates]]
      /\ stage' \in [DealBanks -> [Attempts -> Stages]]
  <2>1. {"ROLLED_BACK", "PREPARED"} \subseteq DealStates /\ {"idle", "enqueue"} \subseteq Stages
    BY DEF DealStates, Statuses, Stages
  <2> QED BY <2>1, SaveEffect, GoEffect DEF VoteNo, ConfirmPrepared, DealTypes
<1>2. vote' \in [Attempts -> {"none", "YES", "NO"}] /\ dealFaults' \in 0..MaxDealFaults
  BY DealAnswerTypes DEF VoteNo, ConfirmPrepared
<1>3. dealPosting' \in [Kinds -> [DealBanks -> DealPostings]]
  BY RollbackCashTypes DEF VoteNo, ConfirmPrepared, assetVars, DealTypes, AssetTypes
<1> QED BY <1>1, <1>2, <1>3
        DEF DealTypes, OfferTypes, TxTypes, AssetTypes, HistoryTypes, VoteNo, ConfirmPrepared,
            rowVars, assetVars

LEMMA DealEnqueueTypes ==
    ASSUME DealAssumption, DealTypes, NEW x \in Attempts, EnqueueDeal(x)
    PROVE  DealTypes'
<1>1. stage' \in [DealBanks -> [Attempts -> Stages]]
  <2>1. "idle" \in Stages /\ Coordinator(x) \in DealBanks
    BY BothBanks DEF Stages, DealTypes
  <2> QED BY <2>1, GoEffect DEF EnqueueDeal, DealTypes
<1>2. dealOutbox' \subseteq DealMessages
  BY DEF EnqueueDeal, DealTypes, TxTypes, DealMessages
<1> QED BY <1>1, <1>2
        DEF DealTypes, OfferTypes, TxTypes, AssetTypes, HistoryTypes, EnqueueDeal,
            rowVars, assetVars

LEMMA NewTxTypes ==
    ASSUME DealAssumption, DealTypes, NEW x \in Attempts, DeliverNewTx(x)
    PROVE  DealTypes'
<1>1. /\ dealRecord' \in [DealBanks -> [Attempts -> DealStates]]
      /\ stage' \in [DealBanks -> [Attempts -> Stages]]
      /\ vote' \in [Attempts -> {"none", "YES", "NO"}]
  <2>1. "PREPARING" \in DealStates /\ "cash" \in Stages /\ Participant(x) \in DealBanks
    BY BothBanks DEF Stages, DealStates, DealTypes
  <2> QED BY <2>1, GoEffect, SaveEffect, VoteEffect DEF DeliverNewTx, DealTypes, TxTypes
<1> QED BY <1>1
        DEF DealTypes, OfferTypes, TxTypes, AssetTypes, HistoryTypes, DeliverNewTx,
            rowVars, assetVars

LEMMA RollbackTypes ==
    ASSUME DealAssumption, DealTypes, NEW b \in DealBanks, NEW x \in Attempts,
           attempt[x] \in Transactions,
           Rollback(b, x) \/ NothingToRollback(b, x) \/ Refused(b, x)
    PROVE  /\ dealRecord' \in [DealBanks -> [Attempts -> DealStates]]
           /\ dealPosting' \in [Kinds -> [DealBanks -> DealPostings]]
           /\ reservation' \in Reservations /\ shares' \in [amount : Int, reserved : Int]
<1>1. CASE Rollback(b, x)
  <2>1. dealRecord' \in [DealBanks -> [Attempts -> DealStates]]
    <3>1. "ROLLED_BACK" \in DealStates
      BY DEF DealStates, Statuses
    <3> QED BY <1>1, <3>1, SaveEffect DEF Rollback, DealTypes
  <2>2. dealPosting' \in [Kinds -> [DealBanks -> DealPostings]]
    BY <1>1, RollbackCashTypes DEF Rollback
  <2>3. reservation' \in Reservations /\ shares' \in [amount : Int, reserved : Int]
    BY <1>1, ReleaseTypes DEF Rollback, DealTypes, AssetTypes
  <2> QED BY <2>1, <2>2, <2>3
<1>2. CASE NothingToRollback(b, x) \/ Refused(b, x)
  BY <1>2 DEF NothingToRollback, Refused, DealTypes, TxTypes, AssetTypes
<1> QED BY <1>1, <1>2

LEMMA TakeNoTypes ==
    ASSUME DealAssumption, DealTypes, NEW x \in Attempts, attempt[x] \in Transactions,
           TakeNo(x) \/ GiveUpNewTx(x) \/ DeliverRollback(x)
    PROVE  DealTypes'
<1>1. PICK b \in DealBanks : Rollback(b, x) \/ NothingToRollback(b, x) \/ Refused(b, x)
  BY BothBanks DEF TakeNo, GiveUpNewTx, DeliverRollback, DealTypes
<1>2. /\ dealRecord' \in [DealBanks -> [Attempts -> DealStates]]
      /\ dealPosting' \in [Kinds -> [DealBanks -> DealPostings]]
      /\ reservation' \in Reservations /\ shares' \in [amount : Int, reserved : Int]
  BY <1>1, RollbackTypes
<1>3. dealOutbox' \subseteq DealMessages /\ ((\E kind : DealFault(kind)) \/ NoFault)
  <2>1. \E t \in {"NEW", "COMMIT", "ROLLBACK"} :
          \/ MarkMessage(<<x, t>>)
          \/ \E f \in {"COMMIT", "ROLLBACK"} : Queue(<<x, t>>, f)
    BY DEF TakeNo, GiveUpNewTx, DeliverRollback
  <2> QED BY <2>1, OutboxTypes DEF DealTypes
<1>4. dealFaults' \in 0..MaxDealFaults
  BY <1>3, DealFaultTypes DEF DealTypes
<1>5. raced' \subseteq Kinds \cup {"counter", "expiry", "commit"}
  BY DEF TakeNo, GiveUpNewTx, DeliverRollback, DealTypes, HistoryTypes
<1>6. UNCHANGED <<rowVars, contract, attempt, stage, vote, credit, due>>
  BY DEF TakeNo, GiveUpNewTx, DeliverRollback
<1> QED BY <1>2, <1>3, <1>4, <1>5, <1>6
        DEF DealTypes, OfferTypes, TxTypes, AssetTypes, HistoryTypes, rowVars

LEMMA GiveUpFollowUpTypes ==
    ASSUME DealAssumption, DealTypes, NEW x \in Attempts, GiveUpFollowUp(x)
    PROVE  DealTypes'
BY DEF GiveUpFollowUp, DealTypes, OfferTypes, TxTypes, AssetTypes, HistoryTypes, rowVars, assetVars

LEMMA TakeYesTypes ==
    ASSUME DealAssumption, DealTypes, NEW x \in Attempts, TakeYes(x) \/ DeliverCommit(x)
    PROVE  DealTypes'
<1>1. stage' \in [DealBanks -> [Attempts -> Stages]]
  <2>1. {"idle", "pay"} \subseteq Stages
        /\ Coordinator(x) \in DealBanks /\ Participant(x) \in DealBanks
    BY BothBanks DEF Stages, DealTypes
  <2> QED BY <2>1, GoEffect DEF TakeYes, DeliverCommit, DealTypes, TxTypes
<1>2. dealOutbox' \subseteq DealMessages /\ ((\E kind : DealFault(kind)) \/ NoFault)
  BY OutboxTypes DEF TakeYes, DeliverCommit, DealTypes, TxTypes
<1>3. dealFaults' \in 0..MaxDealFaults
  BY <1>2, DealFaultTypes DEF DealTypes
<1>4. UNCHANGED <<rowVars, contract, attempt, dealRecord, vote, assetVars, due, raced>>
  BY DEF TakeYes, DeliverCommit
<1> QED BY <1>1, <1>2, <1>3, <1>4
        DEF DealTypes, OfferTypes, TxTypes, AssetTypes, HistoryTypes, rowVars, assetVars

LEMMA AbortTypes ==
    ASSUME DealTypes, NEW b \in DealBanks, NEW x \in Attempts, AbortCommit(b, x)
    PROVE  stage' \in [DealBanks -> [Attempts -> Stages]] /\ dealOutbox' \subseteq DealMessages
<1>1. "idle" \in Stages
  BY DEF Stages
<1> QED BY <1>1, GoEffect DEF AbortCommit, DealTypes, TxTypes

LEMMA CommitCashTypes ==
    ASSUME DealAssumption, DealTypes, NEW b \in DealBanks, NEW x \in Attempts,
           attempt[x] \in Transactions, CommitCash(b, x)
    PROVE  DealTypes'
<1>1. stage' \in [DealBanks -> [Attempts -> Stages]] /\ dealOutbox' \subseteq DealMessages
  <2>1. "deliver" \in Stages
    BY DEF Stages
  <2> QED BY <2>1, GoEffect, AbortTypes DEF CommitCash, DealTypes, TxTypes
<1>2. dealPosting' \in [Kinds -> [DealBanks -> DealPostings]]
  BY SetCashEffect DEF CommitCash, DealTypes, AssetTypes, Statuses
<1>3. dealFaults' \in 0..MaxDealFaults
  BY DealFaultTypes DEF CommitCash, DealTypes
<1> QED BY <1>1, <1>2, <1>3
        DEF DealTypes, OfferTypes, TxTypes, AssetTypes, HistoryTypes, CommitCash, rowVars

LEMMA MoveTypes ==
    ASSUME DealAssumption, DealTypes, NEW b \in DealBanks, NEW x \in Attempts,
           attempt[x] \in Transactions, MoveShares(b, x)
    PROVE  /\ reservation' \in Reservations /\ shares' \in [amount : Int, reserved : Int]
           /\ credit' \in Terms \cup {0}
<1>1. reservation.amount \in Int /\ reservation \in Reservations /\ attempt[x].terms \in Terms
  BY TermsNumbers DEF DealTypes, AssetTypes, Reservations, Transactions
<1>2. CASE Consume /\ UNCHANGED credit
  BY <1>1, <1>2 DEF Consume, DealTypes, AssetTypes, Reservations
<1>3. CASE CreditBuyer(x) /\ UNCHANGED <<reservation, shares>>
  BY <1>1, <1>3 DEF CreditBuyer, DealTypes, AssetTypes
<1> QED BY <1>2, <1>3 DEF MoveShares

LEMMA DeliverTypes ==
    ASSUME DealAssumption, DealTypes, NEW b \in DealBanks, NEW x \in Attempts,
           attempt[x] \in Transactions, Deliver(b, x)
    PROVE  DealTypes'
<1>1. reservation' \in Reservations /\ shares' \in [amount : Int, reserved : Int]
      /\ credit' \in Terms \cup {0}
  BY MoveTypes DEF Deliver, DealTypes, AssetTypes
<1>2. negotiation' \in [DealBanks -> Negotiations] /\ contract' \in [DealBanks -> LooseContracts]
  <2>1. CASE MakeContract(b, x)
    <3>1. negotiation[b] \in Negotiations /\ attempt[x].terms \in Terms
      BY DEF DealTypes, OfferTypes, Transactions
    <3>2. [status |-> "ACTIVE",
           terms |-> IF b = "seller" THEN negotiation[b].terms ELSE attempt[x].terms]
             \in LooseContracts
      BY <3>1 DEF LooseContracts, Negotiations
    <3>3. [negotiation[b] EXCEPT !.status = "ACCEPTED"] \in Negotiations
      BY <3>1 DEF Negotiations
    <3> QED BY <2>1, <3>2, <3>3 DEF MakeContract, DealTypes, OfferTypes
  <2>2. CASE contract' = [contract EXCEPT ![b].status = "EXERCISED"] /\ UNCHANGED negotiation
    <3>1. contract[b] \in LooseContracts
      BY DEF DealTypes, OfferTypes
    <3>2. [contract[b] EXCEPT !.status = "EXERCISED"] \in LooseContracts
      BY <3>1 DEF LooseContracts, Nothing
    <3> QED BY <2>2, <3>2 DEF DealTypes, OfferTypes
  <2> QED BY <2>1, <2>2 DEF Deliver
<1>3. /\ dealRecord' \in [DealBanks -> [Attempts -> DealStates]]
      /\ stage' \in [DealBanks -> [Attempts -> Stages]]
  <2>1. "COMMITTED" \in DealStates /\ "idle" \in Stages
    BY DEF DealStates, Statuses, Stages
  <2> QED BY <2>1, SaveEffect, GoEffect DEF Deliver, DealTypes
<1>4. dealOutbox' \subseteq DealMessages /\ ((\E kind : DealFault(kind)) \/ NoFault)
  BY OutboxTypes DEF Deliver, DealTypes
<1>5. dealFaults' \in 0..MaxDealFaults
  BY <1>4, DealFaultTypes DEF DealTypes
<1> QED BY <1>1, <1>2, <1>3, <1>4, <1>5
        DEF DealTypes, OfferTypes, TxTypes, AssetTypes, HistoryTypes, Deliver

LEMMA DeliverFailsTypes ==
    ASSUME DealAssumption, DealTypes, NEW b \in DealBanks, NEW x \in Attempts,
           attempt[x] \in Transactions, DeliverFails(b, x)
    PROVE  DealTypes'
<1>1. reservation' \in Reservations /\ shares' \in [amount : Int, reserved : Int]
      /\ credit' \in Terms \cup {0}
  BY MoveTypes DEF DeliverFails, DealTypes, AssetTypes
<1>2. stage' \in [DealBanks -> [Attempts -> Stages]] /\ dealOutbox' \subseteq DealMessages
  BY AbortTypes DEF DeliverFails
<1>3. dealFaults' \in 0..MaxDealFaults
  BY DealFaultTypes DEF DeliverFails, DealTypes
<1> QED BY <1>1, <1>2, <1>3
        DEF DealTypes, OfferTypes, TxTypes, AssetTypes, HistoryTypes, DeliverFails, rowVars

LEMMA ExpiryTypes ==
    ASSUME DealAssumption, DealTypes,
           \/ SettlementPasses \/ ExpireContract
           \/ \E b \in DealBanks : FindOngoing(b) \/ ExpireNegotiation(b)
    PROVE  DealTypes'
<1>1. CASE SettlementPasses
  BY <1>1 DEF DealTypes, OfferTypes, TxTypes, AssetTypes, HistoryTypes, SettlementPasses,
              rowVars, txVars, assetVars
<1>2. CASE ExpireContract
  <2>1. reservation' \in Reservations /\ shares' \in [amount : Int, reserved : Int]
    BY <1>2, ReleaseTypes DEF ExpireContract
  <2>2. contract' \in [DealBanks -> LooseContracts]
    <3>1. "seller" \in DealBanks /\ contract["seller"] \in LooseContracts
      BY DEF DealTypes, OfferTypes, DealBanks
    <3>2. [contract["seller"] EXCEPT !.status = "EXPIRED"] \in LooseContracts
      BY <1>2, <3>1 DEF LooseContracts, Nothing, ExpireContract
    <3> QED BY <1>2, <3>2 DEF DealTypes, OfferTypes, ExpireContract
  <2>3. dealFaults' \in 0..MaxDealFaults
    BY <1>2, DealFaultTypes DEF ExpireContract, DealTypes
  <2> QED BY <1>2, <2>1, <2>2, <2>3
          DEF DealTypes, OfferTypes, TxTypes, AssetTypes, HistoryTypes, ExpireContract,
              rowVars, txVars
<1>3. ASSUME NEW b \in DealBanks, FindOngoing(b) PROVE DealTypes'
  <2>1. [negotiation[b] EXCEPT !.status = "EXPIRED"] \in Negotiations
    BY <1>3 DEF DealTypes, OfferTypes, Negotiations
  <2> QED BY <1>3, <2>1
          DEF DealTypes, OfferTypes, TxTypes, AssetTypes, HistoryTypes, FindOngoing,
              txVars, assetVars
<1>4. ASSUME NEW b \in DealBanks, ExpireNegotiation(b) PROVE DealTypes'
  <2>1. expiring[b] \in Negotiations
    BY <1>4 DEF DealTypes, OfferTypes, ExpireNegotiation
  <2>2. OfferTypes'
    BY <1>4, <2>1 DEF DealTypes, OfferTypes, ExpireNegotiation
  <2>3. raced' \subseteq Kinds \cup {"counter", "expiry", "commit"}
    BY <1>4, RaceTypes DEF ExpireNegotiation, DealTypes
  <2> QED BY <1>4, <2>2, <2>3
          DEF DealTypes, TxTypes, AssetTypes, HistoryTypes, ExpireNegotiation, txVars, assetVars
<1> QED BY <1>1, <1>2, <1>3, <1>4

LEMMA DealCrashTypes ==
    ASSUME DealAssumption, DealTypes, NEW b \in DealBanks, NEW x \in Attempts, HandlerCrash(b, x)
    PROVE  DealTypes'
<1>1. stage' \in [DealBanks -> [Attempts -> Stages]]
  <2>1. "idle" \in Stages
    BY DEF Stages
  <2> QED BY <2>1, GoEffect DEF HandlerCrash, DealTypes
<1>2. dealFaults' \in 0..MaxDealFaults
  BY DealFaultTypes DEF HandlerCrash, DealTypes
<1> QED BY <1>1, <1>2
        DEF DealTypes, OfferTypes, TxTypes, AssetTypes, HistoryTypes, HandlerCrash,
            rowVars, assetVars

-----------------------------------------------------------------------------
(* Every step keeps to the protocol *)

\* A transaction that has a handler, a record or a message has been formed.
LEMMA IsFormed ==
    ASSUME TxInv, NEW x \in Attempts,
           \/ \E b \in DealBanks : stage[b][x] # "idle" \/ dealRecord[b][x] # "NONE"
           \/ \E t \in {"NEW", "COMMIT", "ROLLBACK"} : <<x, t>> \in dealOutbox
    PROVE  attempt[x] \in Transactions
<1>1. PICK c, p \in DealBanks : c = Coordinator(x) /\ p = Participant(x) /\ DealBanks = {c, p}
  BY BothBanks DEF TxInv
<1>2. Phases(x, c, p)
  BY <1>1 DEF TxInv, Protocol
<1>3. attempt[x] # NoAttempt
  BY <1>1, <1>2 DEF Phases
<1> QED BY <1>3 DEF TxInv, TxTypes

\* It is enough to see what becomes of the transaction of the step.
LEMMA OneTransaction ==
    ASSUME DealAssumption, TxInv, TxTypes', NEW x \in Attempts, NEW c, NEW p,
           c = Coordinator(x), p = Participant(x), attempt'[x] = attempt[x],
           \A y \in Attempts \ {x} : SameTx(y), Phases(x, c, p)'
    PROVE  Protocol'
<1>1. Coordinator(x)' = c /\ Participant(x)' = p
  BY DEF Coordinator, Participant
<1>2. Phases(x, Coordinator(x), Participant(x))'
  BY <1>1 DEF Phases
<1> QED BY <1>2, PhasesKept DEF TxInv

LEMMA MarkEffect ==
    ASSUME NEW x, NEW t, MarkMessage(<<x, t>>)
    PROVE  \A y, u : /\ y # x => (<<y, u>> \in dealOutbox' <=> <<y, u>> \in dealOutbox)
                     /\ <<x, u>> \in dealOutbox' => <<x, u>> \in dealOutbox
BY DEF MarkMessage

LEMMA FormProtocol ==
    ASSUME DealAssumption, TxInv, TxTypes', NEW x \in Attempts, NEW kind \in Kinds, NEW t,
           NEW b \in DealBanks, Form(x, kind, t, b)
    PROVE  Protocol'
<1>1. PICK c, p \in DealBanks : c = Coordinator(x) /\ p = Participant(x) /\ DealBanks = {c, p}
  BY BothBanks DEF TxInv
<1>2. Phases(x, c, p) /\ attempt[x] = NoAttempt
  BY <1>1 DEF TxInv, Protocol, Form
<1>3. \A d \in DealBanks : stage[d][x] = "idle" /\ dealRecord[d][x] = "NONE"
  BY <1>1, <1>2 DEF Phases
<1>4. vote[x] = "none" /\ \A u \in {"NEW", "COMMIT", "ROLLBACK"} : <<x, u>> \notin dealOutbox
  BY <1>2 DEF Phases
<1>5. /\ "PREPARING" \in DealStates /\ "cash" \in Stages
      /\ Save(b, x, "PREPARING") /\ GoStage(b, x, "cash") /\ UNCHANGED <<vote, dealOutbox>>
  BY DEF DealStates, Stages, Form
<1>6. dealRecord'[b][x] = "PREPARING" /\ stage'[b][x] = "cash"
  BY <1>5, SaveEffect, GoEffect DEF TxInv
<1>7. \A d \in DealBanks, y \in Attempts :
         d # b \/ y # x => dealRecord'[d][y] = dealRecord[d][y] /\ stage'[d][y] = stage[d][y]
  BY <1>5, SaveEffect, GoEffect DEF TxInv
<1>8. attempt'[x] = [kind |-> kind, terms |-> t, by |-> b]
      /\ \A y \in Attempts : y # x => attempt'[y] = attempt[y]
  BY DEF Form, TxInv, TxTypes
<1>9. \A y \in Attempts \ {x} : SameTx(y)
  BY <1>5, <1>7, <1>8 DEF SameTx
<1>10. PICK e \in DealBanks : e = Other(b) /\ e # b
  BY BanksOther
<1>11. Coordinator(x)' = b /\ Participant(x)' = e
  BY <1>8, <1>10 DEF Coordinator, Participant
<1>12. Phases(x, b, e)'
  <2>1. stage'[e][x] = "idle" /\ dealRecord'[e][x] = "NONE"
    BY <1>3, <1>7, <1>10
  <2>2. vote'[x] = "none" /\ \A u \in {"NEW", "COMMIT", "ROLLBACK"} : <<x, u>> \notin dealOutbox'
    BY <1>4, <1>5
  <2>3. attempt'[x] # NoAttempt
    <3>1. attempt'[x].kind = kind /\ kind # "none"
      BY <1>8 DEF Kinds
    <3> QED BY <3>1 DEF NoAttempt
  <2> QED BY <1>6, <2>1, <2>2, <2>3 DEF Phases, Early, Late
<1>13. Phases(x, Coordinator(x), Participant(x))'
  BY <1>11, <1>12 DEF Phases
<1> QED BY <1>9, <1>13, PhasesKept DEF TxInv

LEMMA NewTxProtocol ==
    ASSUME DealAssumption, TxInv, TxTypes', NEW x \in Attempts, DeliverNewTx(x)
    PROVE  Protocol'
<1>1. PICK c, p \in DealBanks : c = Coordinator(x) /\ p = Participant(x) /\ DealBanks = {c, p}
                                /\ c # p
  BY BothBanks DEF TxInv
<1>2. Phases(x, c, p)
  BY <1>1 DEF TxInv, Protocol
<1>3. /\ "PREPARING" \in DealStates /\ "cash" \in Stages
      /\ UNCHANGED <<attempt, dealOutbox>>
  BY DEF DealStates, Stages, DeliverNewTx
<1>4. \A y \in Attempts \ {x} : SameTx(y)
  BY <1>1, <1>3, SaveEffect, GoEffect, VoteEffect DEF DeliverNewTx, TxInv, SameTx
<1>5. stage'[c][x] = stage[c][x] /\ dealRecord'[c][x] = dealRecord[c][x]
  BY <1>1, <1>3, SaveEffect, GoEffect DEF DeliverNewTx, TxInv
<1>6. /\ <<x, "NEW">> \in dealOutbox /\ vote[x] = "none" /\ stage[p][x] = "idle"
      /\ \/ dealRecord'[p][x] = "PREPARING" /\ stage'[p][x] = "cash" /\ vote'[x] = "none"
            /\ dealRecord[p][x] \in {"NONE", "PREPARING"}
         \/ dealRecord'[p][x] = dealRecord[p][x] /\ stage'[p][x] = "idle" /\ vote'[x] = "NO"
         \/ /\ dealRecord'[p][x] = dealRecord[p][x] /\ stage'[p][x] = "idle" /\ vote'[x] = "YES"
            /\ dealRecord[p][x] \in {"PREPARED", "COMMITTED"}
  BY <1>1, <1>3, SaveEffect, GoEffect, VoteEffect DEF DeliverNewTx, TxInv, InStage
<1>7. Phases(x, c, p)'
  BY <1>2, <1>3, <1>5, <1>6 DEF Phases, Early, Late
<1> QED BY <1>1, <1>3, <1>4, <1>7, OneTransaction

LEMMA PrepareProtocol ==
    ASSUME DealAssumption, TxInv, TxTypes', NEW x \in Attempts, NEW b \in DealBanks,
           PrepareCash(b, x) \/ PrepareAsset(b, x)
    PROVE  Protocol'
<1>1. PICK c, p \in DealBanks : c = Coordinator(x) /\ p = Participant(x) /\ DealBanks = {c, p}
                                /\ c # p
  BY BothBanks DEF TxInv
<1>2. Phases(x, c, p)
  BY <1>1 DEF TxInv, Protocol
<1>3. /\ stage[b][x] \in {"cash", "asset"}
      /\ \E s \in {"asset", "refuse", "confirm", "undo"} : GoStage(b, x, s)
      /\ UNCHANGED <<attempt, dealRecord, vote, dealOutbox>>
  BY DEF PrepareCash, PrepareAsset, InStage
<1>4. PICK s \in {"asset", "refuse", "confirm", "undo"} : GoStage(b, x, s)
  BY <1>3
<1>5. /\ stage'[b][x] = s
      /\ \A d \in DealBanks, y \in Attempts : d # b \/ y # x => stage'[d][y] = stage[d][y]
  <2>1. s \in Stages
    BY DEF Stages
  <2> QED BY <1>4, <2>1, GoEffect DEF TxInv
<1>6. \A y \in Attempts \ {x} : SameTx(y)
  BY <1>3, <1>5 DEF SameTx
<1>7. Phases(x, c, p)'
  <2>1. CASE b = c
    BY <1>1, <1>2, <1>3, <1>5, <2>1 DEF Phases, Early, Late
  <2>2. CASE b = p
    BY <1>1, <1>2, <1>3, <1>5, <2>2 DEF Phases, Early, Late
  <2> QED BY <1>1, <2>1, <2>2
<1> QED BY <1>1, <1>3, <1>6, <1>7, OneTransaction

LEMMA VoteProtocol ==
    ASSUME DealAssumption, TxInv, TxTypes', NEW x \in Attempts, NEW b \in DealBanks,
           VoteNo(b, x) \/ ConfirmPrepared(b, x)
    PROVE  Protocol'
<1>1. PICK c, p \in DealBanks : c = Coordinator(x) /\ p = Participant(x) /\ DealBanks = {c, p}
                                /\ c # p
  BY BothBanks DEF TxInv
<1>2. Phases(x, c, p)
  BY <1>1 DEF TxInv, Protocol
<1>3. PICK r \in {"ROLLED_BACK", "PREPARED"}, s \in {"idle", "enqueue"} :
         /\ Save(b, x, r) /\ GoStage(b, x, s)
         /\ s = "enqueue" <=> (b = c /\ r = "PREPARED")
         /\ AnswerNewTx(b, x, IF r = "PREPARED" THEN "YES" ELSE "NO")
  BY <1>1 DEF VoteNo, ConfirmPrepared
<1>4. stage[b][x] \in Early /\ UNCHANGED <<attempt, dealOutbox>>
  BY DEF VoteNo, ConfirmPrepared, InStage, Early
<1>5. /\ dealRecord'[b][x] = r /\ stage'[b][x] = s
      /\ \A d \in DealBanks, y \in Attempts :
           d # b \/ y # x => dealRecord'[d][y] = dealRecord[d][y] /\ stage'[d][y] = stage[d][y]
  <2>1. r \in DealStates /\ s \in Stages
    BY DEF Stages, DealStates, Statuses
  <2> QED BY <1>3, <2>1, SaveEffect, GoEffect DEF TxInv
<1>6. /\ \A y \in Attempts : y # x => vote'[y] = vote[y]
      /\ \/ vote'[x] = vote[x]
         \/ b = p /\ vote'[x] = IF r = "PREPARED" THEN "YES" ELSE "NO"
  BY <1>1, <1>3, VoteEffect DEF AnswerNewTx, TxInv
<1>7. \A y \in Attempts \ {x} : SameTx(y)
  BY <1>4, <1>5, <1>6 DEF SameTx
<1>8. Phases(x, c, p)'
  <2>1. CASE b = c
    BY <1>1, <1>2, <1>3, <1>4, <1>5, <1>6, <2>1 DEF Phases, Early, Late
  <2>2. CASE b = p
    BY <1>1, <1>2, <1>3, <1>4, <1>5, <1>6, <2>2 DEF Phases, Early, Late
  <2> QED BY <1>1, <2>1, <2>2
<1> QED BY <1>1, <1>4, <1>7, <1>8, OneTransaction

LEMMA EnqueueProtocol ==
    ASSUME DealAssumption, TxInv, TxTypes', NEW x \in Attempts, EnqueueDeal(x)
    PROVE  Protocol'
<1>1. PICK c, p \in DealBanks : c = Coordinator(x) /\ p = Participant(x) /\ DealBanks = {c, p}
                                /\ c # p
  BY BothBanks DEF TxInv
<1>2. Phases(x, c, p)
  BY <1>1 DEF TxInv, Protocol
<1>3. /\ stage[c][x] = "enqueue" /\ GoStage(c, x, "idle")
      /\ dealOutbox' = dealOutbox \cup {<<x, "NEW">>}
      /\ UNCHANGED <<attempt, dealRecord, vote>>
  BY <1>1 DEF EnqueueDeal, InStage
<1>4. /\ stage'[c][x] = "idle"
      /\ \A d \in DealBanks, y \in Attempts : d # c \/ y # x => stage'[d][y] = stage[d][y]
  <2>1. "idle" \in Stages
    BY DEF Stages
  <2> QED BY <1>1, <1>3, <2>1, GoEffect DEF TxInv
<1>5. \A y \in Attempts \ {x} : SameTx(y)
  BY <1>3, <1>4 DEF SameTx
<1>6. Phases(x, c, p)'
  BY <1>1, <1>2, <1>3, <1>4 DEF Phases, Early, Late
<1> QED BY <1>1, <1>3, <1>5, <1>6, OneTransaction

\* What a rollback, or nothing to roll back, does to the record.
LEMMA RollbackEffect ==
    ASSUME TxTypes, NEW b \in DealBanks, NEW x \in Attempts,
           Rollback(b, x) \/ NothingToRollback(b, x) \/ Refused(b, x)
    PROVE  /\ dealRecord[b][x] \in {"PREPARING", "PREPARED"} => dealRecord'[b][x] = "ROLLED_BACK"
           /\ dealRecord[b][x] \notin {"PREPARING", "PREPARED"} =>
                dealRecord'[b][x] = dealRecord[b][x]
           /\ \A d \in DealBanks, y \in Attempts :
                d # b \/ y # x => dealRecord'[d][y] = dealRecord[d][y]
<1>1. "ROLLED_BACK" \in DealStates
  BY DEF DealStates, Statuses
<1> QED BY <1>1, SaveEffect DEF Rollback, NothingToRollback, Refused

LEMMA RollbackProtocol ==
    ASSUME DealAssumption, TxInv, TxTypes', NEW x \in Attempts,
           TakeNo(x) \/ GiveUpNewTx(x) \/ DeliverRollback(x)
    PROVE  Protocol'
<1>1. PICK c, p \in DealBanks : c = Coordinator(x) /\ p = Participant(x) /\ DealBanks = {c, p}
                                /\ c # p
  BY BothBanks DEF TxInv
<1>2. Phases(x, c, p)
  BY <1>1 DEF TxInv, Protocol
<1>3. UNCHANGED <<attempt, stage, vote>>
  BY DEF TakeNo, GiveUpNewTx, DeliverRollback
<1>4. CASE TakeNo(x) \/ GiveUpNewTx(x)
  <2>1. /\ <<x, "NEW">> \in dealOutbox /\ stage[c][x] = "idle"
        /\ Rollback(c, x) \/ NothingToRollback(c, x) \/ Refused(c, x)
    BY <1>1, <1>4 DEF TakeNo, GiveUpNewTx, InStage
  <2>2. /\ dealRecord[c][x] \in {"PREPARING", "PREPARED"} => dealRecord'[c][x] = "ROLLED_BACK"
        /\ dealRecord[c][x] \notin {"PREPARING", "PREPARED"} =>
             dealRecord'[c][x] = dealRecord[c][x]
        /\ \A d \in DealBanks, y \in Attempts :
             d # c \/ y # x => dealRecord'[d][y] = dealRecord[d][y]
    BY <1>1, <2>1, RollbackEffect DEF TxInv
  <2>3. /\ \A y, u : y # x => (<<y, u>> \in dealOutbox' <=> <<y, u>> \in dealOutbox)
        /\ \A u : <<x, u>> \in dealOutbox' =>
             <<x, u>> \in dealOutbox \/ (u = "ROLLBACK" /\ ~Refused(c, x))
    <3>1. CASE MarkMessage(<<x, "NEW">>)
      BY <3>1, MarkEffect
    <3>2. CASE Queue(<<x, "NEW">>, "ROLLBACK") /\ (Rollback(c, x) \/ NothingToRollback(c, x))
      <4>1. ~Refused(c, x)
        BY <3>2 DEF Rollback, NothingToRollback, Refused
      <4> QED BY <3>2, <4>1 DEF Queue
    <3> QED BY <1>1, <1>4, <3>1, <3>2 DEF TakeNo, GiveUpNewTx
  <2>4. dealRecord[c][x] # "COMMITTED" => dealRecord'[c][x] = "ROLLED_BACK"
    BY <1>2, <2>1, <2>2 DEF Rollback, NothingToRollback, Refused, Phases
  <2>5. dealRecord[c][x] = "COMMITTED" => Refused(c, x)
    BY <2>1 DEF Rollback, NothingToRollback, Refused
  <2>6. \A y \in Attempts \ {x} : SameTx(y)
    BY <1>3, <2>2, <2>3 DEF SameTx
  <2>7. Phases(x, c, p)'
    BY <1>1, <1>2, <1>3, <2>1, <2>2, <2>3, <2>4, <2>5 DEF Phases, Early, Late
  <2> QED BY <1>1, <1>3, <2>6, <2>7, OneTransaction
<1>5. CASE DeliverRollback(x)
  <2>1. /\ <<x, "ROLLBACK">> \in dealOutbox
        /\ Rollback(p, x) \/ NothingToRollback(p, x)
        /\ MarkMessage(<<x, "ROLLBACK">>)
    BY <1>1, <1>5 DEF DeliverRollback
  <2>2. /\ dealRecord[p][x] \in {"PREPARING", "PREPARED"} => dealRecord'[p][x] = "ROLLED_BACK"
        /\ dealRecord[p][x] \notin {"PREPARING", "PREPARED"} =>
             dealRecord'[p][x] = dealRecord[p][x]
        /\ \A d \in DealBanks, y \in Attempts :
             d # p \/ y # x => dealRecord'[d][y] = dealRecord[d][y]
    BY <1>1, <2>1, RollbackEffect DEF TxInv
  <2>3. \A y \in Attempts \ {x} : SameTx(y)
    BY <1>3, <2>1, <2>2, MarkEffect DEF SameTx
  <2>4. Phases(x, c, p)'
    BY <1>1, <1>2, <1>3, <2>1, <2>2, MarkEffect DEF Phases, Early, Late
  <2> QED BY <1>1, <1>3, <2>3, <2>4, OneTransaction
<1> QED BY <1>4, <1>5

LEMMA GiveUpFollowUpProtocol ==
    ASSUME DealAssumption, TxInv, TxTypes', NEW x \in Attempts, GiveUpFollowUp(x)
    PROVE  Protocol'
<1>1. PICK c, p \in DealBanks : c = Coordinator(x) /\ p = Participant(x) /\ DealBanks = {c, p}
                                /\ c # p
  BY BothBanks DEF TxInv
<1>2. Phases(x, c, p)
  BY <1>1 DEF TxInv, Protocol
<1>3. /\ UNCHANGED <<attempt, dealRecord, stage, vote>>
      /\ \A y, u : y # x => (<<y, u>> \in dealOutbox' <=> <<y, u>> \in dealOutbox)
      /\ \A u : <<x, u>> \in dealOutbox' => <<x, u>> \in dealOutbox
  BY DEF GiveUpFollowUp
<1>4. \A y \in Attempts \ {x} : SameTx(y)
  BY <1>3 DEF SameTx
<1>5. Phases(x, c, p)'
  BY <1>1, <1>2, <1>3 DEF Phases, Early, Late
<1> QED BY <1>1, <1>3, <1>4, <1>5, OneTransaction

LEMMA TakeYesProtocol ==
    ASSUME DealAssumption, TxInv, TxTypes', NEW x \in Attempts, TakeYes(x) \/ DeliverCommit(x)
    PROVE  Protocol'
<1>1. PICK c, p \in DealBanks : c = Coordinator(x) /\ p = Participant(x) /\ DealBanks = {c, p}
                                /\ c # p
  BY BothBanks DEF TxInv
<1>2. Phases(x, c, p)
  BY <1>1 DEF TxInv, Protocol
<1>3. UNCHANGED <<attempt, dealRecord, vote>> /\ "pay" \in Stages
  BY DEF TakeYes, DeliverCommit, Stages
<1>4. CASE TakeYes(x)
  <2>1. /\ <<x, "NEW">> \in dealOutbox /\ vote[x] = "YES" /\ stage[c][x] = "idle"
        /\ \A d \in DealBanks, y \in Attempts : d # c \/ y # x => stage'[d][y] = stage[d][y]
        /\ \/ stage'[c][x] = "idle"
           \/ stage'[c][x] = "pay" /\ dealRecord[c][x] = "PREPARED"
    BY <1>1, <1>3, <1>4, GoEffect DEF TakeYes, InStage, TxInv
  <2>2. /\ \A y, u : y # x => (<<y, u>> \in dealOutbox' <=> <<y, u>> \in dealOutbox)
        /\ \A u : <<x, u>> \in dealOutbox' =>
             <<x, u>> \in dealOutbox \/ (u = "COMMIT" /\ dealRecord[c][x] = "COMMITTED")
    BY <1>1, <1>4, MarkEffect DEF TakeYes, Queue
  <2>3. \A y \in Attempts \ {x} : SameTx(y)
    BY <1>3, <2>1, <2>2 DEF SameTx
  <2>4. Phases(x, c, p)'
    BY <1>1, <1>2, <1>3, <2>1, <2>2 DEF Phases, Early, Late
  <2> QED BY <1>1, <1>3, <2>3, <2>4, OneTransaction
<1>5. CASE DeliverCommit(x)
  <2>1. /\ <<x, "COMMIT">> \in dealOutbox /\ stage[p][x] = "idle"
        /\ \A d \in DealBanks, y \in Attempts : d # p \/ y # x => stage'[d][y] = stage[d][y]
        /\ \/ stage'[p][x] = "idle"
           \/ stage'[p][x] = "pay" /\ dealRecord[p][x] = "PREPARED"
    BY <1>1, <1>3, <1>5, GoEffect DEF DeliverCommit, InStage, TxInv
  <2>2. /\ \A y, u : y # x => (<<y, u>> \in dealOutbox' <=> <<y, u>> \in dealOutbox)
        /\ \A u : <<x, u>> \in dealOutbox' => <<x, u>> \in dealOutbox
    BY <1>5, MarkEffect DEF DeliverCommit
  <2>3. \A y \in Attempts \ {x} : SameTx(y)
    BY <1>3, <2>1, <2>2 DEF SameTx
  <2>4. Phases(x, c, p)'
    BY <1>1, <1>2, <1>3, <2>1, <2>2 DEF Phases, Early, Late
  <2> QED BY <1>1, <1>3, <2>3, <2>4, OneTransaction
<1> QED BY <1>4, <1>5

\* A handler goes on to the last stage of its commit, or stops.
LEMMA StopProtocol ==
    ASSUME DealAssumption, TxInv, TxTypes', NEW x \in Attempts, NEW b \in DealBanks,
           CommitCash(b, x) \/ DeliverFails(b, x) \/ HandlerCrash(b, x)
    PROVE  Protocol'
<1>1. PICK c, p \in DealBanks : c = Coordinator(x) /\ p = Participant(x) /\ DealBanks = {c, p}
                                /\ c # p
  BY BothBanks DEF TxInv
<1>2. Phases(x, c, p)
  BY <1>1 DEF TxInv, Protocol
<1>3. /\ UNCHANGED <<attempt, dealRecord, vote>> /\ stage[b][x] # "idle"
      /\ GoStage(b, x, "idle") \/ (GoStage(b, x, "deliver") /\ stage[b][x] = "pay")
      /\ "idle" \in Stages /\ "deliver" \in Stages
  BY DEF CommitCash, DeliverFails, HandlerCrash, AbortCommit, InStage, Stages
<1>4. /\ \A y, u : y # x => (<<y, u>> \in dealOutbox' <=> <<y, u>> \in dealOutbox)
      /\ \A u : <<x, u>> \in dealOutbox' => <<x, u>> \in dealOutbox
  BY DEF CommitCash, DeliverFails, HandlerCrash, AbortCommit
<1>5. /\ \A d \in DealBanks, y \in Attempts : d # b \/ y # x => stage'[d][y] = stage[d][y]
      /\ \/ stage'[b][x] = "idle"
         \/ stage'[b][x] = "deliver" /\ stage[b][x] = "pay"
  BY <1>3, GoEffect DEF TxInv
<1>6. \A y \in Attempts \ {x} : SameTx(y)
  BY <1>3, <1>4, <1>5 DEF SameTx
<1>7. Phases(x, c, p)'
  <2>1. CASE b = c
    BY <1>1, <1>2, <1>3, <1>4, <1>5, <2>1 DEF Phases, Early, Late
  <2>2. CASE b = p
    BY <1>1, <1>2, <1>3, <1>4, <1>5, <2>2 DEF Phases, Early, Late
  <2> QED BY <1>1, <2>1, <2>2
<1> QED BY <1>1, <1>3, <1>6, <1>7, OneTransaction

LEMMA DeliverProtocol ==
    ASSUME DealAssumption, TxInv, TxTypes', NEW x \in Attempts, NEW b \in DealBanks, Deliver(b, x)
    PROVE  Protocol'
<1>1. PICK c, p \in DealBanks : c = Coordinator(x) /\ p = Participant(x) /\ DealBanks = {c, p}
                                /\ c # p
  BY BothBanks DEF TxInv
<1>2. Phases(x, c, p)
  BY <1>1 DEF TxInv, Protocol
<1>3. /\ UNCHANGED <<attempt, vote>> /\ stage[b][x] = "deliver"
      /\ GoStage(b, x, "idle") /\ Save(b, x, "COMMITTED")
      /\ "idle" \in Stages /\ "COMMITTED" \in DealStates
  BY DEF Deliver, InStage, Stages, DealStates, Statuses
<1>4. /\ \A y, u : y # x => (<<y, u>> \in dealOutbox' <=> <<y, u>> \in dealOutbox)
      /\ \A u : <<x, u>> \in dealOutbox' => <<x, u>> \in dealOutbox \/ (u = "COMMIT" /\ b = c)
  <2>1. CASE b = c /\ Queue(<<x, "NEW">>, "COMMIT")
    BY <2>1 DEF Queue
  <2>2. CASE MarkMessage(<<x, "COMMIT">>)
    BY <2>2, MarkEffect
  <2> QED BY <1>1, <2>1, <2>2 DEF Deliver
<1>5. /\ \A d \in DealBanks, y \in Attempts :
           d # b \/ y # x => stage'[d][y] = stage[d][y] /\ dealRecord'[d][y] = dealRecord[d][y]
      /\ stage'[b][x] = "idle" /\ dealRecord'[b][x] = "COMMITTED"
  BY <1>3, GoEffect, SaveEffect DEF TxInv
<1>6. \A y \in Attempts \ {x} : SameTx(y)
  BY <1>3, <1>4, <1>5 DEF SameTx
<1>7. Phases(x, c, p)'
  <2>1. CASE b = c
    BY <1>1, <1>2, <1>3, <1>4, <1>5, <2>1 DEF Phases, Early, Late
  <2>2. CASE b = p
    BY <1>1, <1>2, <1>3, <1>4, <1>5, <2>2 DEF Phases, Early, Late
  <2> QED BY <1>1, <2>1, <2>2
<1> QED BY <1>1, <1>3, <1>6, <1>7, OneTransaction

LEMMA SameProtocol ==
    ASSUME TxInv, UNCHANGED txVars
    PROVE  Protocol'
<1> SUFFICES ASSUME NEW x \in Attempts PROVE Phases(x, Coordinator(x), Participant(x))'
  BY DEF Protocol
<1>1. PICK c, p \in DealBanks : c = Coordinator(x) /\ p = Participant(x)
  BY BothBanks DEF TxInv
<1>2. Phases(x, c, p)
  BY <1>1 DEF TxInv, Protocol
<1>3. Phases(x, c, p)' /\ Coordinator(x)' = c /\ Participant(x)' = p
  BY <1>1, <1>2 DEF Phases, txVars, Coordinator, Participant
<1> QED BY <1>3 DEF Phases

-----------------------------------------------------------------------------
(* Types and protocol together *)

LEMMA DealStarts ==
    ASSUME DealAssumption, DealInit
    PROVE  DealTypes /\ Protocol
<1>1. PICK t \in Terms : Offered(t) \/ Agreed(t)
  BY DEF DealInit
<1>2. OfferTypes
  BY <1>1 DEF DealInit, Offered, Agreed, OfferTypes, Negotiations, LooseContracts, DealBanks,
              CreateFromPeer, CreateForLocalBuyer, Proposed
<1>3. TxTypes
  BY DEF DealInit, TxTypes, DealStates, Statuses, Stages, DealMessages
<1>4. AssetTypes
  <2>1. t \in Int /\ Owned \in Int
    BY TermsNumbers
  <2>2. dealPosting \in [Kinds -> [DealBanks -> DealPostings]]
    BY <1>1 DEF Offered, Agreed, DealPostings, Statuses
  <2>3. reservation \in Reservations /\ shares \in [amount : Int, reserved : Int]
    BY <1>1, <2>1 DEF Offered, Agreed, Reservations
  <2> QED BY <2>2, <2>3 DEF DealInit, AssetTypes
<1>5. HistoryTypes
  <2>1. 0 \in 0..MaxDealFaults
    BY TermsNumbers
  <2>2. due = FALSE /\ raced = {} /\ dealFaults = 0
    BY DEF DealInit
  <2> QED BY <2>1, <2>2 DEF HistoryTypes
<1>6. ASSUME NEW x \in Attempts PROVE Phases(x, Coordinator(x), Participant(x))
  <2>1. PICK c, p \in DealBanks : c = Coordinator(x) /\ p = Participant(x)
    BY <1>3, BothBanks
  <2>2. Phases(x, c, p)
    BY DEF DealInit, Phases, Early, Late
  <2> QED BY <2>1, <2>2
<1> QED BY <1>2, <1>3, <1>4, <1>5, <1>6 DEF DealTypes, Protocol

DealInv == DealTypes /\ Protocol

LEMMA DealStep ==
    ASSUME DealAssumption, DealInv, [DealNext]_dealVars
    PROVE  DealInv'
<1> USE DEF DealInv
<1>1. TxInv /\ TxTypes
  BY DEF TxInv, DealTypes
<1>2. ASSUME DealTypes', UNCHANGED txVars PROVE DealInv'
  BY <1>1, <1>2, SameProtocol
<1>3. CASE UNCHANGED dealVars
  <2>1. DealTypes'
    BY <1>3 DEF DealTypes, OfferTypes, TxTypes, AssetTypes, HistoryTypes, dealVars, rowVars,
                txVars, assetVars
  <2> QED BY <1>2, <1>3, <2>1 DEF dealVars
<1>4. ASSUME NEW b \in DealBanks, Negotiate(b) PROVE DealInv'
  <2>1. CASE \E t \in Terms : Counter(b, t)
    <3>1. UNCHANGED txVars
      BY <2>1 DEF Counter
    <3> QED BY <1>2, <2>1, <3>1, CounterTypes
  <2>2. CASE Withdraw(b)
    <3>1. UNCHANGED txVars
      BY <2>2 DEF Withdraw
    <3> QED BY <1>2, <2>2, <3>1, WithdrawTypes
  <2>3. CASE SaveRow(b) \/ LoseRow(b)
    <3>1. UNCHANGED txVars
      BY <2>3 DEF SaveRow, LoseRow
    <3> QED BY <1>2, <2>3, <3>1, SaveRowTypes
  <2>4. CASE FindOngoing(b) \/ ExpireNegotiation(b)
    <3>1. UNCHANGED txVars
      BY <2>4 DEF FindOngoing, ExpireNegotiation
    <3> QED BY <1>2, <2>4, <3>1, ExpiryTypes
  <2>5. ASSUME NEW x \in Attempts, Accept(b, x) PROVE DealInv'
    <3>1. DealTypes'
      BY <2>5, AcceptForms, FormTypes
    <3> QED BY <1>1, <2>5, <3>1, AcceptForms, FormProtocol DEF DealTypes
  <2> QED BY <1>4, <2>1, <2>2, <2>3, <2>4, <2>5 DEF Negotiate
<1>5. ASSUME NEW x \in Attempts, Coordinate(x) \/ Participate(x) PROVE DealInv'
  <2>1. CASE Exercise(x)
    <3>1. DealTypes'
      BY <2>1, ExerciseForms, FormTypes
    <3> QED BY <1>1, <2>1, <3>1, ExerciseForms, FormProtocol DEF DealTypes
  <2>2. CASE EnqueueDeal(x)
    BY <1>1, <2>2, DealEnqueueTypes, EnqueueProtocol DEF DealTypes
  <2>3. CASE DeliverNewTx(x)
    BY <1>1, <2>3, NewTxTypes, NewTxProtocol DEF DealTypes
  <2>4. CASE TakeNo(x) \/ GiveUpNewTx(x) \/ DeliverRollback(x)
    <3>1. attempt[x] \in Transactions
      BY <1>1, <2>4, IsFormed DEF TakeNo, GiveUpNewTx, DeliverRollback
    <3> QED BY <1>1, <2>4, <3>1, TakeNoTypes, RollbackProtocol DEF DealTypes
  <2>5. CASE GiveUpFollowUp(x)
    BY <1>1, <2>5, GiveUpFollowUpTypes, GiveUpFollowUpProtocol DEF DealTypes
  <2>6. CASE TakeYes(x) \/ DeliverCommit(x)
    BY <1>1, <2>6, TakeYesTypes, TakeYesProtocol DEF DealTypes
  <2> QED BY <1>5, <2>1, <2>2, <2>3, <2>4, <2>5, <2>6 DEF Coordinate, Participate
<1>6. ASSUME NEW b \in DealBanks, NEW x \in Attempts, Process(b, x) PROVE DealInv'
  <2>1. stage[b][x] # "idle"
    BY <1>6 DEF Process, PrepareCash, PrepareAsset, VoteNo, ConfirmPrepared, CommitCash,
                Deliver, DeliverFails, HandlerCrash, InStage
  <2>2. attempt[x] \in Transactions
    BY <1>1, <2>1, IsFormed
  <2>3. CASE PrepareCash(b, x) \/ PrepareAsset(b, x)
    BY <1>1, <2>2, <2>3, DealPrepareTypes, PrepareProtocol DEF DealTypes
  <2>4. CASE VoteNo(b, x) \/ ConfirmPrepared(b, x)
    BY <1>1, <2>2, <2>4, VoteTypes, VoteProtocol DEF DealTypes
  <2>5. CASE CommitCash(b, x)
    BY <1>1, <2>2, <2>5, CommitCashTypes, StopProtocol DEF DealTypes
  <2>6. CASE DeliverFails(b, x)
    BY <1>1, <2>2, <2>6, DeliverFailsTypes, StopProtocol DEF DealTypes
  <2>7. CASE HandlerCrash(b, x)
    BY <1>1, <2>7, DealCrashTypes, StopProtocol DEF DealTypes
  <2>8. CASE Deliver(b, x)
    BY <1>1, <2>2, <2>8, DeliverTypes, DeliverProtocol DEF DealTypes
  <2> QED BY <1>6, <2>3, <2>4, <2>5, <2>6, <2>7, <2>8 DEF Process
<1>7. CASE SettlementPasses \/ ExpireContract
  <2>1. UNCHANGED txVars
    BY <1>7 DEF SettlementPasses, ExpireContract
  <2> QED BY <1>2, <1>7, <2>1, ExpiryTypes
<1> QED BY <1>3, <1>4, <1>5, <1>6, <1>7 DEF DealNext

LEMMA DealAlwaysInv == ASSUME DealAssumption PROVE DealSpec => []DealInv
<1>1. DealInit => DealInv
  BY DealStarts DEF DealInv
<1>2. DealInv /\ [DealNext]_dealVars => DealInv'
  BY DealStep
<1> QED BY <1>1, <1>2, PTL DEF DealSpec

-----------------------------------------------------------------------------
(* What the steps may change *)

Forming(x)  == Exercise(x) \/ \E b \in DealBanks : Accept(b, x)
Rolling(x)  == TakeNo(x) \/ GiveUpNewTx(x) \/ DeliverRollback(x)
RowStep(b)  ==
    \/ \E t \in Terms : Counter(b, t)
    \/ Withdraw(b) \/ SaveRow(b) \/ LoseRow(b) \/ FindOngoing(b) \/ ExpireNegotiation(b)

LEMMA StepKinds ==
    ASSUME [DealNext]_dealVars
    PROVE  \/ UNCHANGED dealVars \/ SettlementPasses \/ ExpireContract
           \/ \E b \in DealBanks : RowStep(b)
           \/ \E x \in Attempts :
                \/ Forming(x) \/ Rolling(x) \/ EnqueueDeal(x) \/ GiveUpFollowUp(x)
                \/ DeliverNewTx(x) \/ TakeYes(x) \/ DeliverCommit(x)
           \/ \E b \in DealBanks, x \in Attempts : Process(b, x)
BY DEF DealNext, Negotiate, Coordinate, Participate, RowStep, Forming, Rolling

LEMMA QuietSteps ==
    /\ UNCHANGED dealVars \/ SettlementPasses =>
         UNCHANGED <<rowVars, contract, txVars, assetVars, raced>>
    /\ ExpireContract => UNCHANGED <<rowVars, txVars, dealPosting, credit, due>>
    /\ \A b : RowStep(b) => UNCHANGED <<contract, txVars, assetVars, due>>
    /\ \A x : Forming(x) =>
         UNCHANGED <<rowVars, contract, vote, dealOutbox, assetVars, due>>
    /\ \A x : EnqueueDeal(x) \/ GiveUpFollowUp(x) \/ DeliverNewTx(x) \/ TakeYes(x)
                \/ DeliverCommit(x) =>
         UNCHANGED <<rowVars, contract, attempt, assetVars, due, raced>>
    /\ \A x : Rolling(x) => UNCHANGED <<rowVars, contract, attempt, stage, vote, credit, due>>
    /\ \A b, x : Process(b, x) => UNCHANGED <<saving, attempt, due, raced>>
<1>1. ASSUME UNCHANGED dealVars \/ SettlementPasses
      PROVE  UNCHANGED <<rowVars, contract, txVars, assetVars, raced>>
  BY <1>1 DEF SettlementPasses, dealVars, rowVars, txVars, assetVars
<1>2. ASSUME ExpireContract PROVE UNCHANGED <<rowVars, txVars, dealPosting, credit, due>>
  BY <1>2 DEF ExpireContract
<1>3. ASSUME NEW b, RowStep(b) PROVE UNCHANGED <<contract, txVars, assetVars, due>>
  BY <1>3 DEF RowStep, Counter, Withdraw, SaveRow, LoseRow, FindOngoing, ExpireNegotiation
<1>4. ASSUME NEW x, Forming(x)
      PROVE  UNCHANGED <<rowVars, contract, vote, dealOutbox, assetVars, due>>
  BY <1>4 DEF Forming, Exercise, Accept, Form
<1>5. ASSUME NEW x, EnqueueDeal(x) \/ GiveUpFollowUp(x) \/ DeliverNewTx(x)
                    \/ TakeYes(x) \/ DeliverCommit(x)
      PROVE  UNCHANGED <<rowVars, contract, attempt, assetVars, due, raced>>
  BY <1>5 DEF EnqueueDeal, GiveUpFollowUp, DeliverNewTx, TakeYes, DeliverCommit
<1>6. ASSUME NEW x, Rolling(x)
      PROVE  UNCHANGED <<rowVars, contract, attempt, stage, vote, credit, due>>
  BY <1>6 DEF Rolling, TakeNo, GiveUpNewTx, DeliverRollback
<1>7. ASSUME NEW b, NEW x, Process(b, x) PROVE UNCHANGED <<saving, attempt, due, raced>>
  BY <1>7 DEF Process, PrepareCash, PrepareAsset, VoteNo, ConfirmPrepared, CommitCash, Deliver,
              DeliverFails, HandlerCrash, rowVars
<1> QED BY <1>1, <1>2, <1>3, <1>4, <1>5, <1>6, <1>7

\* The bank that a rollback takes place in.
RollsBack(b, x) ==
    /\ Rolling(x) /\ Rollback(b, x)
    /\ \/ b = Coordinator(x) /\ <<x, "NEW">> \in dealOutbox
       \/ b = Participant(x) /\ <<x, "ROLLBACK">> \in dealOutbox

LEMMA RollingEffect ==
    ASSUME DealInv, NEW x \in Attempts, Rolling(x)
    PROVE  \/ UNCHANGED <<dealRecord, dealPosting, reservation, shares>>
           \/ \E b \in DealBanks : RollsBack(b, x)
<1>1. Coordinator(x) \in DealBanks /\ Participant(x) \in DealBanks
  BY BothBanks DEF DealInv, DealTypes
<1> QED BY <1>1 DEF Rolling, TakeNo, GiveUpNewTx, DeliverRollback, RollsBack, NothingToRollback,
                    Refused

\* The shares are reserved for an agreement, released by a rollback of it or by the
\* expiry, and consumed by an exercise.
LEMMA ShareSteps ==
    ASSUME DealInv, [DealNext]_dealVars
    PROVE  \/ UNCHANGED <<reservation, shares>>
           \/ \E x \in Attempts :
                /\ stage["seller"][x] = "asset" /\ attempt[x].kind = "accept"
                /\ contract["seller"] = Nothing
                /\ reservation.status \in {"NONE", "RELEASED"} /\ ReserveAgain(x)
           \/ \E x \in Attempts :
                attempt[x].kind = "accept" /\ RollsBack("seller", x) /\ ReleaseShares
           \/ ExpireContract /\ ReleaseShares
           \/ \E x \in Attempts :
                /\ stage["seller"][x] = "deliver" /\ attempt[x].kind = "exercise" /\ Consume
                /\ Deliver("seller", x) \/ DeliverFails("seller", x)
<1>1. CASE UNCHANGED dealVars \/ SettlementPasses \/ \E b \in DealBanks : RowStep(b)
  BY <1>1, QuietSteps DEF assetVars
<1>2. CASE ExpireContract
  BY <1>2 DEF ExpireContract
<1>3. CASE \E x \in Attempts :
             \/ Forming(x) \/ EnqueueDeal(x) \/ GiveUpFollowUp(x)
             \/ DeliverNewTx(x) \/ TakeYes(x) \/ DeliverCommit(x)
  BY <1>3, QuietSteps DEF assetVars
<1>4. ASSUME NEW x \in Attempts, Rolling(x)
      PROVE  \/ UNCHANGED <<reservation, shares>>
             \/ attempt[x].kind = "accept" /\ RollsBack("seller", x) /\ ReleaseShares
  BY <1>4, RollingEffect DEF RollsBack, Rollback
<1>5. ASSUME NEW b \in DealBanks, NEW x \in Attempts, Process(b, x)
      PROVE  \/ UNCHANGED <<reservation, shares>>
             \/ /\ stage["seller"][x] = "asset" /\ attempt[x].kind = "accept"
                /\ contract["seller"] = Nothing
                /\ reservation.status \in {"NONE", "RELEASED"} /\ ReserveAgain(x)
             \/ /\ stage["seller"][x] = "deliver" /\ attempt[x].kind = "exercise" /\ Consume
                /\ Deliver("seller", x) \/ DeliverFails("seller", x)
  <2>1. CASE PrepareAsset(b, x)
    BY <2>1 DEF PrepareAsset, ReserveShares, InStage
  <2>2. CASE Deliver(b, x)
    BY <2>2 DEF Deliver, MoveShares, InStage
  <2>3. CASE DeliverFails(b, x)
    BY <2>3 DEF DeliverFails, MoveShares, InStage
  <2>4. CASE PrepareCash(b, x) \/ VoteNo(b, x) \/ ConfirmPrepared(b, x) \/ CommitCash(b, x)
             \/ HandlerCrash(b, x)
    BY <2>4 DEF PrepareCash, VoteNo, ConfirmPrepared, CommitCash, HandlerCrash, assetVars
  <2> QED BY <1>5, <2>1, <2>2, <2>3, <2>4 DEF Process
<1> QED BY <1>1, <1>2, <1>3, <1>4, <1>5, StepKinds

\* Cash is held for an attempt, and paid or freed once it is held.
LEMMA CashSteps ==
    ASSUME DealInv, [DealNext]_dealVars
    PROVE  \/ UNCHANGED dealPosting
           \/ \E b \in DealBanks, x \in Attempts :
                /\ attempt[x] \in Transactions
                /\ \/ stage[b][x] = "cash" /\ Fresh(b, x) /\ HoldCash(b, x)
                   \/ /\ Cash(b, x).status = "PREPARED"
                      /\ \E s \in {"ROLLED_BACK", "COMMITTED"} : SetCash(b, x, s)
<1> DEFINE Change(b, x) ==
             \/ stage[b][x] = "cash" /\ Fresh(b, x) /\ HoldCash(b, x)
             \/ /\ Cash(b, x).status = "PREPARED"
                /\ \E s \in {"ROLLED_BACK", "COMMITTED"} : SetCash(b, x, s)
<1>1. CASE \/ UNCHANGED dealVars \/ SettlementPasses \/ ExpireContract
           \/ \E b \in DealBanks : RowStep(b)
  BY <1>1, QuietSteps DEF assetVars
<1>2. CASE \E x \in Attempts :
             \/ Forming(x) \/ EnqueueDeal(x) \/ GiveUpFollowUp(x)
             \/ DeliverNewTx(x) \/ TakeYes(x) \/ DeliverCommit(x)
  BY <1>2, QuietSteps DEF assetVars
<1>3. ASSUME NEW x \in Attempts, Rolling(x)
      PROVE  \/ UNCHANGED dealPosting
             \/ \E b \in DealBanks : attempt[x] \in Transactions /\ Change(b, x)
  <2>1. CASE UNCHANGED dealPosting
    BY <2>1
  <2>2. ASSUME NEW b \in DealBanks, RollsBack(b, x)
        PROVE  UNCHANGED dealPosting \/ (attempt[x] \in Transactions /\ Change(b, x))
    <3>1. attempt[x] \in Transactions
      BY <2>2, IsFormed DEF RollsBack, DealInv, DealTypes, TxInv
    <3> QED BY <2>2, <3>1 DEF RollsBack, Rollback, RollbackCash
  <2> QED BY <1>3, <2>1, <2>2, RollingEffect
<1>4. ASSUME NEW b \in DealBanks, NEW x \in Attempts, Process(b, x)
      PROVE  UNCHANGED dealPosting \/ (attempt[x] \in Transactions /\ Change(b, x))
  <2>1. stage[b][x] # "idle"
    BY <1>4 DEF Process, PrepareCash, PrepareAsset, VoteNo, ConfirmPrepared, CommitCash,
                Deliver, DeliverFails, HandlerCrash, InStage
  <2>2. attempt[x] \in Transactions
    BY <2>1, IsFormed DEF DealInv, DealTypes, TxInv
  <2>3. UNCHANGED dealPosting \/ Change(b, x)
    BY <1>4 DEF Process, PrepareCash, PrepareAsset, VoteNo, ConfirmPrepared, CommitCash,
                Deliver, DeliverFails, HandlerCrash, InStage, RollbackCash, assetVars
  <2> QED BY <2>2, <2>3
<1> QED BY <1>1, <1>2, <1>3, <1>4, StepKinds

\* How a record changes.
LEMMA RecordSteps ==
    ASSUME DealInv, [DealNext]_dealVars, NEW b \in DealBanks, NEW x \in Attempts
    PROVE  \/ dealRecord'[b][x] = dealRecord[b][x]
           \/ Forming(x) /\ dealRecord'[b][x] = "PREPARING"
           \/ DeliverNewTx(x) /\ b = Participant(x) /\ dealRecord'[b][x] = "PREPARING"
                /\ dealRecord[b][x] \in {"NONE", "PREPARING"}
           \/ VoteNo(b, x) /\ dealRecord'[b][x] = "ROLLED_BACK"
           \/ ConfirmPrepared(b, x) /\ dealRecord'[b][x] = "PREPARED"
           \/ RollsBack(b, x) /\ dealRecord'[b][x] = "ROLLED_BACK"
           \/ Deliver(b, x) /\ dealRecord'[b][x] = "COMMITTED"
<1> DEFINE Step == \/ dealRecord'[b][x] = dealRecord[b][x]
                   \/ Forming(x) /\ dealRecord'[b][x] = "PREPARING"
                   \/ DeliverNewTx(x) /\ b = Participant(x) /\ dealRecord'[b][x] = "PREPARING"
                        /\ dealRecord[b][x] \in {"NONE", "PREPARING"}
                   \/ VoteNo(b, x) /\ dealRecord'[b][x] = "ROLLED_BACK"
                   \/ ConfirmPrepared(b, x) /\ dealRecord'[b][x] = "PREPARED"
                   \/ RollsBack(b, x) /\ dealRecord'[b][x] = "ROLLED_BACK"
                   \/ Deliver(b, x) /\ dealRecord'[b][x] = "COMMITTED"
<1>1. TxTypes /\ {"PREPARING", "ROLLED_BACK", "PREPARED", "COMMITTED"} \subseteq DealStates
  BY DEF DealInv, DealTypes, DealStates, Statuses
<1>2. CASE UNCHANGED dealRecord
  BY <1>2
<1>3. CASE UNCHANGED dealVars \/ SettlementPasses \/ ExpireContract
             \/ \E d \in DealBanks : RowStep(d)
  BY <1>2, <1>3, QuietSteps DEF txVars
<1>4. ASSUME NEW y \in Attempts, Forming(y) PROVE Step
  <2>1. PICK d \in DealBanks : Save(d, y, "PREPARING")
    <3>1. "buyer" \in DealBanks /\ \A d \in DealBanks : Other(d) \in DealBanks
      BY BanksOther DEF DealBanks
    <3> QED BY <1>4, <3>1 DEF Forming, Exercise, Accept, Form
  <2> QED BY <1>1, <1>4, <2>1, SaveEffect
<1>5. ASSUME NEW y \in Attempts,
             EnqueueDeal(y) \/ GiveUpFollowUp(y) \/ TakeYes(y) \/ DeliverCommit(y) PROVE Step
  BY <1>2, <1>5 DEF EnqueueDeal, GiveUpFollowUp, TakeYes, DeliverCommit
<1>6. ASSUME NEW y \in Attempts, DeliverNewTx(y) PROVE Step
  <2>1. Participant(y) \in DealBanks
    BY <1>1, BothBanks
  <2> QED BY <1>1, <1>2, <1>6, <2>1, SaveEffect DEF DeliverNewTx
<1>7. ASSUME NEW y \in Attempts, Rolling(y) PROVE Step
  <2>1. ASSUME NEW d \in DealBanks, RollsBack(d, y) PROVE Step
    <3>1. Save(d, y, "ROLLED_BACK")
      BY <2>1 DEF RollsBack, Rollback
    <3> QED BY <1>1, <2>1, <3>1, SaveEffect
  <2> QED BY <1>2, <1>7, <2>1, RollingEffect
<1>8. ASSUME NEW d \in DealBanks, NEW y \in Attempts, Process(d, y) PROVE Step
  <2>1. CASE VoteNo(d, y)
    BY <1>1, <2>1, SaveEffect DEF VoteNo
  <2>2. CASE ConfirmPrepared(d, y)
    BY <1>1, <2>2, SaveEffect DEF ConfirmPrepared
  <2>3. CASE Deliver(d, y)
    <3>1. Save(d, y, "COMMITTED")
      BY <2>3 DEF Deliver
    <3> QED BY <1>1, <2>3, <3>1, SaveEffect
  <2>4. CASE PrepareCash(d, y) \/ PrepareAsset(d, y) \/ CommitCash(d, y) \/ DeliverFails(d, y)
             \/ HandlerCrash(d, y)
    BY <1>2, <2>4 DEF PrepareCash, PrepareAsset, CommitCash, DeliverFails, HandlerCrash
  <2> QED BY <1>8, <2>1, <2>2, <2>3, <2>4 DEF Process
<1> QED BY <1>3, <1>4, <1>5, <1>6, <1>7, <1>8, StepKinds

\* How a handler goes on.
LEMMA StageSteps ==
    ASSUME DealInv, [DealNext]_dealVars, NEW b \in DealBanks, NEW x \in Attempts
    PROVE  \/ stage'[b][x] = stage[b][x]
           \/ stage'[b][x] = "idle"
           \/ stage'[b][x] \in {"cash", "refuse", "enqueue", "pay"} /\ (Live(x) \/ Forming(x))
           \/ PrepareCash(b, x) /\ stage'[b][x] = "asset"
           \/ PrepareAsset(b, x) /\ stage'[b][x] \in {"confirm", "undo"}
           \/ CommitCash(b, x) /\ stage'[b][x] = "deliver"
<1> DEFINE Step == \/ stage'[b][x] = stage[b][x]
                   \/ stage'[b][x] = "idle"
                   \/ /\ stage'[b][x] \in {"cash", "refuse", "enqueue", "pay"}
                      /\ Live(x) \/ Forming(x)
                   \/ PrepareCash(b, x) /\ stage'[b][x] = "asset"
                   \/ PrepareAsset(b, x) /\ stage'[b][x] \in {"confirm", "undo"}
                   \/ CommitCash(b, x) /\ stage'[b][x] = "deliver"
<1>1. TxTypes /\ Stages = {"idle", "cash", "asset", "confirm", "enqueue", "refuse", "undo", "pay",
                           "deliver"}
  BY DEF DealInv, DealTypes, Stages
<1>2. CASE UNCHANGED stage
  BY <1>2
<1>3. CASE UNCHANGED dealVars \/ SettlementPasses \/ ExpireContract
             \/ \E d \in DealBanks : RowStep(d)
  BY <1>2, <1>3, QuietSteps DEF txVars
<1>4. ASSUME NEW d \in DealBanks, NEW y \in Attempts, NEW s \in {"idle", "cash", "refuse",
             "enqueue", "pay"}, GoStage(d, y, s), s = "idle" \/ Live(y) \/ Forming(y)
      PROVE  Step
  BY <1>1, <1>4, GoEffect
<1>5. ASSUME NEW y \in Attempts, Forming(y) PROVE Step
  <2>1. "buyer" \in DealBanks /\ \A d \in DealBanks : Other(d) \in DealBanks
    BY BanksOther DEF DealBanks
  <2>2. \E d \in DealBanks : GoStage(d, y, "cash")
    BY <1>5, <2>1 DEF Forming, Exercise, Accept, Form
  <2> QED BY <1>4, <1>5, <2>2
<1>6. ASSUME NEW y \in Attempts, Rolling(y) \/ GiveUpFollowUp(y) PROVE Step
  BY <1>2, <1>6, QuietSteps DEF GiveUpFollowUp
<1>7. ASSUME NEW y \in Attempts,
             EnqueueDeal(y) \/ DeliverNewTx(y) \/ TakeYes(y) \/ DeliverCommit(y) PROVE Step
  <2>1. Coordinator(y) \in DealBanks /\ Participant(y) \in DealBanks
    BY <1>1, BothBanks
  <2>2. UNCHANGED stage
          \/ \E d \in DealBanks, s \in {"idle", "cash", "pay"} :
                GoStage(d, y, s) /\ (s = "idle" \/ ~EnqueueDeal(y))
    BY <1>7, <2>1 DEF EnqueueDeal, DeliverNewTx, TakeYes, DeliverCommit
  <2>3. DeliverNewTx(y) \/ TakeYes(y) \/ DeliverCommit(y) => Live(y)
    BY DEF DeliverNewTx, TakeYes, DeliverCommit, Live
  <2> QED BY <1>2, <1>4, <1>7, <2>2, <2>3
<1>8. ASSUME NEW d \in DealBanks, NEW y \in Attempts, Process(d, y) PROVE Step
  <2> Live(y)
    BY <1>8 DEF Process, PrepareCash, PrepareAsset, VoteNo, ConfirmPrepared, CommitCash,
                Deliver, DeliverFails, HandlerCrash, InStage, Live
  <2>1. CASE PrepareCash(d, y)
    <3>1. CASE GoStage(d, y, "asset")
      BY <1>1, <2>1, <3>1, GoEffect
    <3> QED BY <1>4, <2>1, <3>1 DEF PrepareCash
  <2>2. CASE PrepareAsset(d, y)
    BY <1>1, <2>2, GoEffect DEF PrepareAsset
  <2>3. CASE CommitCash(d, y)
    <3>1. CASE GoStage(d, y, "deliver")
      BY <1>1, <2>3, <3>1, GoEffect
    <3> QED BY <1>4, <2>3, <3>1 DEF CommitCash, AbortCommit
  <2>4. CASE VoteNo(d, y) \/ ConfirmPrepared(d, y) \/ Deliver(d, y) \/ DeliverFails(d, y)
             \/ HandlerCrash(d, y)
    <3>1. \E s \in {"idle", "enqueue"} : GoStage(d, y, s)
      BY <2>4 DEF VoteNo, ConfirmPrepared, Deliver, DeliverFails, HandlerCrash, AbortCommit
    <3> QED BY <1>4, <3>1
  <2> QED BY <1>8, <2>1, <2>2, <2>3, <2>4 DEF Process
<1> QED BY <1>3, <1>5, <1>6, <1>7, <1>8, StepKinds

\* How a contract changes.
LEMMA ContractSteps ==
    ASSUME DealInv, [DealNext]_dealVars, NEW b \in DealBanks
    PROVE  \/ contract'[b] = contract[b]
           \/ \E x \in Attempts : Deliver(b, x) /\ MakeContract(b, x)
           \/ \E x \in Attempts : /\ Deliver(b, x) /\ attempt[x].kind = "exercise"
                                  /\ contract'[b] = [contract[b] EXCEPT !.status = "EXERCISED"]
           \/ /\ b = "seller" /\ ExpireContract
              /\ contract'[b] = [contract[b] EXCEPT !.status = "EXPIRED"]
<1>1. contract \in [DealBanks -> LooseContracts] /\ "seller" \in DealBanks
  BY DEF DealInv, DealTypes, OfferTypes, DealBanks
<1>2. CASE UNCHANGED contract
  BY <1>2
<1>3. CASE UNCHANGED dealVars \/ SettlementPasses \/ \E d \in DealBanks : RowStep(d)
  BY <1>3, QuietSteps
<1>4. CASE ExpireContract
  BY <1>1, <1>4 DEF ExpireContract
<1>5. CASE \E x \in Attempts :
             \/ Forming(x) \/ EnqueueDeal(x) \/ GiveUpFollowUp(x) \/ Rolling(x)
             \/ DeliverNewTx(x) \/ TakeYes(x) \/ DeliverCommit(x)
  BY <1>5, QuietSteps
<1>6. ASSUME NEW d \in DealBanks, NEW y \in Attempts, Process(d, y)
      PROVE  \/ contract'[b] = contract[b]
             \/ d = b /\ Deliver(b, y) /\ MakeContract(b, y)
             \/ /\ d = b /\ Deliver(b, y) /\ attempt[y].kind = "exercise"
                /\ contract'[b] = [contract[b] EXCEPT !.status = "EXERCISED"]
  <2>1. CASE Deliver(d, y)
    BY <1>1, <2>1 DEF Deliver, MakeContract, MoveShares
  <2>2. CASE PrepareCash(d, y) \/ PrepareAsset(d, y) \/ VoteNo(d, y) \/ ConfirmPrepared(d, y)
             \/ CommitCash(d, y) \/ DeliverFails(d, y) \/ HandlerCrash(d, y)
    BY <2>2 DEF PrepareCash, PrepareAsset, VoteNo, ConfirmPrepared, CommitCash, DeliverFails,
                HandlerCrash
  <2> QED BY <1>6, <2>1, <2>2 DEF Process
<1> QED BY <1>3, <1>4, <1>5, <1>6, StepKinds

-----------------------------------------------------------------------------
(* Shares, cash and contracts *)

\* What the protocol says of one bank.
LEMMA AtOneBank ==
    ASSUME DealInv, NEW b \in DealBanks, NEW x \in Attempts
    PROVE  /\ attempt[x] = NoAttempt =>
                stage[b][x] = "idle" /\ dealRecord[b][x] = "NONE" /\ vote[x] = "none"
           /\ stage[b][x] \in Early => vote[x] = "none"
           /\ stage[b][x] \in Early =>
                \/ dealRecord[b][x] = "PREPARING"
                \/ dealRecord[b][x] = "ROLLED_BACK" /\ dealRecord[Coordinator(x)][x] = "ROLLED_BACK"
           /\ stage[b][x] \in Late =>
                /\ dealRecord[b][x] = "PREPARED" /\ vote[x] = "YES"
                /\ dealRecord[Coordinator(x)][x] \in {"PREPARED", "COMMITTED"}
           /\ stage[b][x] = "enqueue" => dealRecord[b][x] = "PREPARED"
           /\ dealRecord[b][x] = "COMMITTED" =>
                stage[b][x] = "idle" /\ dealRecord[Coordinator(x)][x] = "COMMITTED"
<1>1. PICK c, p \in DealBanks : c = Coordinator(x) /\ p = Participant(x) /\ DealBanks = {c, p}
  BY BothBanks DEF DealInv, DealTypes
<1>2. Phases(x, c, p)
  BY <1>1 DEF DealInv, Protocol
<1>3. CASE b = c
  BY <1>1, <1>2, <1>3 DEF Phases, Early, Late
<1>4. CASE b = p
  BY <1>1, <1>2, <1>4 DEF Phases, Early, Late
<1> QED BY <1>1, <1>3, <1>4

LEMMA AttemptKept ==
    ASSUME DealInv, [DealNext]_dealVars, NEW x \in Attempts
    PROVE  \/ attempt'[x] = attempt[x]
           \/ attempt[x] = NoAttempt /\ Forming(x)
<1>1. CASE UNCHANGED attempt
  BY <1>1
<1>2. CASE UNCHANGED dealVars \/ SettlementPasses \/ ExpireContract
             \/ \E b \in DealBanks : RowStep(b)
  BY <1>1, <1>2, QuietSteps DEF txVars
<1>3. ASSUME NEW y \in Attempts, Forming(y)
      PROVE  attempt'[x] = attempt[x] \/ (attempt[x] = NoAttempt /\ Forming(x))
  BY <1>3 DEF Forming, Exercise, Accept, Form, DealInv, DealTypes, TxTypes
<1>4. CASE \E y \in Attempts :
             \/ EnqueueDeal(y) \/ GiveUpFollowUp(y) \/ Rolling(y)
             \/ DeliverNewTx(y) \/ TakeYes(y) \/ DeliverCommit(y)
  BY <1>1, <1>4, QuietSteps
<1>5. CASE \E b \in DealBanks, y \in Attempts : Process(b, y)
  BY <1>1, <1>5, QuietSteps
<1> QED BY <1>2, <1>3, <1>4, <1>5, StepKinds

\* A posting keeps its amount, and its status once it is paid.
LEMMA CashKept ==
    ASSUME DealInv, [DealNext]_dealVars, NEW k \in Kinds, NEW b \in DealBanks,
           dealPosting[k][b].status # "NONE"
    PROVE  /\ dealPosting'[k][b].status # "NONE"
           /\ dealPosting'[k][b].amount = dealPosting[k][b].amount
           /\ dealPosting[k][b].status = "COMMITTED" => dealPosting'[k][b].status = "COMMITTED"
<1>1. AssetTypes /\ dealPosting[k][b] \in DealPostings
  BY DEF DealInv, DealTypes, AssetTypes
<1>2. CASE UNCHANGED dealPosting
  BY <1>2
<1>3. ASSUME NEW d \in DealBanks, NEW x \in Attempts, attempt[x] \in Transactions,
             Fresh(d, x), HoldCash(d, x)
      PROVE  /\ dealPosting'[k][b].status # "NONE"
             /\ dealPosting'[k][b].amount = dealPosting[k][b].amount
             /\ dealPosting[k][b].status = "COMMITTED" => dealPosting'[k][b].status = "COMMITTED"
  <2>1. CASE k = attempt[x].kind /\ b = d
    <3>1. dealPosting'[k][b] = [status |-> "PREPARED", amount |-> attempt[x].terms]
      BY <1>1, <1>3, <2>1, HoldCashEffect
    <3>2. dealPosting[k][b].status = "ROLLED_BACK" /\ dealPosting[k][b].amount = attempt[x].terms
      BY <1>3, <2>1 DEF Fresh, Known, Cash
    <3> QED BY <3>1, <3>2
  <2>2. CASE k # attempt[x].kind \/ b # d
    <3>1. dealPosting'[k][b] = dealPosting[k][b]
      BY <1>1, <1>3, <2>2, HoldCashEffect
    <3> QED BY <3>1
  <2> QED BY <2>1, <2>2
<1>4. ASSUME NEW d \in DealBanks, NEW x \in Attempts, attempt[x] \in Transactions,
             Cash(d, x).status = "PREPARED", NEW s \in {"ROLLED_BACK", "COMMITTED"},
             SetCash(d, x, s)
      PROVE  /\ dealPosting'[k][b].status # "NONE"
             /\ dealPosting'[k][b].amount = dealPosting[k][b].amount
             /\ dealPosting[k][b].status = "COMMITTED" => dealPosting'[k][b].status = "COMMITTED"
  <2>1. s \in Statuses
    BY DEF Statuses
  <2>2. CASE k = attempt[x].kind /\ b = d
    <3>1. dealPosting'[k][b] = [dealPosting[k][b] EXCEPT !.status = s]
      BY <1>1, <1>4, <2>1, <2>2, SetCashEffect DEF Cash
    <3> QED BY <1>1, <1>4, <2>2, <3>1 DEF DealPostings, Cash
  <2>3. CASE k # attempt[x].kind \/ b # d
    <3>1. dealPosting'[k][b] = dealPosting[k][b]
      BY <1>1, <1>4, <2>3, SetCashElsewhere
    <3> QED BY <3>1
  <2> QED BY <2>2, <2>3
<1> QED BY <1>2, <1>3, <1>4, CashSteps

\* The reserved shares of the seller are those of the reservation that is active, and
\* the consumed ones are gone.
SharesMatch ==
    /\ shares.reserved = IF reservation.status = "ACTIVE" THEN reservation.amount ELSE 0
    /\ shares.amount = IF reservation.status = "CONSUMED" THEN Owned - reservation.amount ELSE Owned
    /\ reservation.status \in {"ACTIVE", "CONSUMED"} => reservation.amount <= Owned
    /\ reservation.status # "NONE" => reservation.amount # 0

\* The cash of a transaction is known from its preparation on, and paid when it commits.
CashMatches ==
    \A b \in DealBanks, x \in Attempts :
        /\ stage[b][x] \in {"asset", "confirm", "undo"}
             \/ dealRecord[b][x] \in {"PREPARED", "COMMITTED"} =>
               Cash(b, x).status # "NONE" /\ Known(b, x)
        /\ stage[b][x] = "deliver" \/ dealRecord[b][x] = "COMMITTED" =>
               Cash(b, x).status = "COMMITTED"

LEMMA SharesKept ==
    ASSUME DealAssumption, DealInv, SharesMatch, [DealNext]_dealVars
    PROVE  SharesMatch'
<1>1. reservation.amount \in Int /\ Owned \in Int
      /\ shares.amount \in Int /\ shares.reserved \in Int
  BY TermsNumbers DEF DealInv, DealTypes, AssetTypes, Reservations
<1>2. shares \in [amount : Int, reserved : Int] /\ reservation \in Reservations
  BY DEF DealInv, DealTypes, AssetTypes
<1>3. CASE UNCHANGED <<reservation, shares>>
  BY <1>3 DEF SharesMatch
<1>4. ASSUME NEW x \in Attempts, stage["seller"][x] = "asset",
             reservation.status \in {"NONE", "RELEASED"}, ReserveAgain(x)
      PROVE  SharesMatch'
  <2>1. attempt[x] \in Transactions
    <3>1. "seller" \in DealBanks
      BY DEF DealBanks
    <3> QED BY <1>4, <3>1, IsFormed DEF DealInv, DealTypes, TxInv
  <2>2. PICK t \in Int : t = attempt[x].terms /\ t # 0
    BY <2>1, TermsNumbers DEF Transactions
  <2>3. /\ reservation'.status = "ACTIVE" /\ reservation'.amount = t
        /\ shares'.amount = shares.amount /\ shares'.reserved = shares.reserved + t
        /\ shares.amount - shares.reserved >= t
    BY <1>2, <1>4, <2>2 DEF ReserveAgain
  <2> QED BY <1>1, <1>4, <2>2, <2>3 DEF SharesMatch
<1>5. CASE ReleaseShares
  <2>1. CASE reservation.status = "ACTIVE"
    <3>1. /\ reservation'.status = "RELEASED" /\ reservation'.amount = reservation.amount
          /\ shares'.amount = shares.amount
          /\ shares'.reserved = shares.reserved - reservation.amount
      BY <1>2, <1>5, <2>1 DEF ReleaseShares, Reservations
    <3> QED BY <1>1, <2>1, <3>1 DEF SharesMatch
  <2> QED BY <1>3, <1>5, <2>1 DEF ReleaseShares
<1>6. CASE Consume
  <2>1. CASE reservation.status = "ACTIVE"
    <3>1. /\ reservation'.status = "CONSUMED" /\ reservation'.amount = reservation.amount
          /\ shares'.amount = shares.amount - reservation.amount
          /\ shares'.reserved = shares.reserved - reservation.amount
      BY <1>2, <1>6, <2>1 DEF Consume, Reservations
    <3> QED BY <1>1, <2>1, <3>1 DEF SharesMatch
  <2> QED BY <1>3, <1>6, <2>1 DEF Consume
<1> QED BY <1>3, <1>4, <1>5, <1>6, ShareSteps

LEMMA CashMatchesKept ==
    ASSUME DealAssumption, DealInv, CashMatches, [DealNext]_dealVars
    PROVE  CashMatches'
<1> SUFFICES ASSUME NEW b \in DealBanks, NEW x \in Attempts
             PROVE  /\ stage'[b][x] \in {"asset", "confirm", "undo"}
                         \/ dealRecord'[b][x] \in {"PREPARED", "COMMITTED"} =>
                           Cash(b, x)'.status # "NONE" /\ Known(b, x)'
                    /\ stage'[b][x] = "deliver" \/ dealRecord'[b][x] = "COMMITTED" =>
                           Cash(b, x)'.status = "COMMITTED"
  BY DEF CashMatches
<1>1. CASE attempt[x] = NoAttempt
  <2>1. stage[b][x] = "idle" /\ dealRecord[b][x] = "NONE"
    BY <1>1, AtOneBank
  <2>2. ~ \E s \in {"cash", "asset", "confirm", "refuse", "undo", "pay", "deliver"} :
            InStage(b, x, s)
    BY <2>1 DEF InStage
  <2>3. stage'[b][x] \in {"idle", "cash", "refuse", "enqueue", "pay"}
    BY <2>1, <2>2, StageSteps DEF PrepareCash, PrepareAsset, CommitCash
  <2>4. dealRecord'[b][x] \in {"NONE", "PREPARING", "ROLLED_BACK"}
    BY <2>1, <2>2, RecordSteps DEF ConfirmPrepared, Deliver
  <2> QED BY <2>3, <2>4
<1>2. CASE attempt[x] # NoAttempt
  <2>1. attempt'[x] = attempt[x]
    BY <1>2, AttemptKept
  <2>2. PICK k \in Kinds : k = attempt[x].kind /\ attempt[x] \in Transactions
    BY <1>2 DEF DealInv, DealTypes, TxTypes, Transactions
  <2>3. /\ Cash(b, x) = dealPosting[k][b] /\ Cash(b, x)' = dealPosting'[k][b]
        /\ Known(b, x) <=> dealPosting[k][b].amount = attempt[x].terms
        /\ Known(b, x)' <=> dealPosting'[k][b].amount = attempt[x].terms
    BY <2>1, <2>2 DEF Cash, Known
  <2>4. ASSUME \/ stage[b][x] \in {"asset", "confirm", "undo"}
               \/ dealRecord[b][x] \in {"PREPARED", "COMMITTED"}
        PROVE  Cash(b, x)'.status # "NONE" /\ Known(b, x)'
    <3>1. dealPosting[k][b].status # "NONE" /\ dealPosting[k][b].amount = attempt[x].terms
      BY <2>3, <2>4 DEF CashMatches
    <3> QED BY <2>3, <3>1, CashKept
  <2>5. ASSUME stage[b][x] = "deliver" \/ dealRecord[b][x] = "COMMITTED"
        PROVE  Cash(b, x)'.status = "COMMITTED"
    <3>1. dealPosting[k][b].status = "COMMITTED"
      BY <2>3, <2>5 DEF CashMatches
    <3> QED BY <2>3, <3>1, CashKept
  <2>6. ASSUME PrepareCash(b, x), stage'[b][x] = "asset"
        PROVE  Cash(b, x)'.status # "NONE" /\ Known(b, x)'
    <3>1. CASE HoldCash(b, x)
      <4>1. dealPosting'[k][b] = [status |-> "PREPARED", amount |-> attempt[x].terms]
        BY <2>2, <3>1, HoldCashEffect DEF DealInv, DealTypes
      <4> QED BY <2>3, <4>1
    <3>2. CASE Cash(b, x).status \in {"PREPARED", "COMMITTED"} /\ Known(b, x)
               /\ UNCHANGED dealPosting
      BY <2>3, <3>2
    <3>3. ~ GoStage(b, x, "refuse")
      BY <2>6, GoEffect DEF DealInv, DealTypes, Stages
    <3> QED BY <2>6, <3>1, <3>2, <3>3 DEF PrepareCash
  <2>7. ASSUME CommitCash(b, x), stage'[b][x] = "deliver"
        PROVE  Cash(b, x)'.status = "COMMITTED"
    <3>1. CASE SetCash(b, x, "COMMITTED")
      <4>1. AssetTypes /\ "COMMITTED" \in Statuses /\ Cash(b, x) \in DealPostings
        BY <2>2, <2>3 DEF DealInv, DealTypes, Statuses, AssetTypes
      <4>2. dealPosting'[k][b] = [Cash(b, x) EXCEPT !.status = "COMMITTED"]
        BY <2>2, <3>1, <4>1, SetCashEffect
      <4> QED BY <2>3, <4>1, <4>2 DEF DealPostings
    <3>2. CASE Cash(b, x).status = "COMMITTED" /\ UNCHANGED dealPosting
      BY <2>3, <3>2
    <3>3. ~ AbortCommit(b, x)
      BY <2>7, GoEffect DEF AbortCommit, DealInv, DealTypes, Stages
    <3> QED BY <2>7, <3>1, <3>2, <3>3 DEF CommitCash
  <2>8. stage'[b][x] \in {"asset", "confirm", "undo"} =>
          \/ stage[b][x] \in {"asset", "confirm", "undo"}
          \/ PrepareCash(b, x) /\ stage'[b][x] = "asset"
    BY StageSteps DEF PrepareAsset, InStage
  <2>9. stage'[b][x] = "deliver" =>
          stage[b][x] = "deliver" \/ (CommitCash(b, x) /\ stage'[b][x] = "deliver")
    BY StageSteps
  <2>10. dealRecord'[b][x] \in {"PREPARED", "COMMITTED"} =>
          \/ dealRecord[b][x] \in {"PREPARED", "COMMITTED"} \/ stage[b][x] = "confirm"
    <3>1. Deliver(b, x) => dealRecord[b][x] = "PREPARED"
      BY AtOneBank DEF Deliver, InStage, Late
    <3> QED BY <3>1, RecordSteps DEF ConfirmPrepared, InStage
  <2>11. dealRecord'[b][x] = "COMMITTED" =>
           dealRecord[b][x] = "COMMITTED" \/ stage[b][x] = "deliver"
    BY RecordSteps DEF Deliver, InStage
  <2> QED BY <2>4, <2>5, <2>6, <2>7, <2>8, <2>9, <2>10, <2>11
<1> QED BY <1>1, <1>2

IsAccept(x)   == attempt[x].kind = "accept"
IsExercise(x) == attempt[x].kind = "exercise"

\* The seller's bank has prepared x and can commit it.
Ready(x) == stage["seller"][x] = "confirm" \/ dealRecord["seller"][x] = "PREPARED"

\* What is exercised is the buyer's contract, and the seller's bank has one too as
\* soon as it is ready; shares are consumed for a contract only.
ExercisesOf(x) ==
    IsExercise(x) =>
        /\ attempt[x].by = "buyer" /\ contract["buyer"] # Nothing
        /\ attempt[x].terms = contract["buyer"].terms
        /\ Ready(x) \/ dealRecord["seller"][x] = "COMMITTED" => contract["seller"] # Nothing
ExercisesContract  == \A x \in Attempts : ExercisesOf(x)
ConsumedOfContract == reservation.status = "CONSUMED" => contract["seller"] # Nothing

LEMMA DeliversReady ==
    ASSUME DealInv, NEW x \in Attempts, stage["seller"][x] \in Late
    PROVE  Ready(x)
<1>1. "seller" \in DealBanks
  BY DEF DealBanks
<1> QED BY <1>1, AtOneBank DEF Ready

\* A contract stays one, with its terms, and only its delivery makes it.
LEMMA ContractKept ==
    ASSUME DealInv, ExercisesContract, [DealNext]_dealVars, NEW b \in DealBanks
    PROVE  /\ contract[b] # Nothing =>
                contract'[b] # Nothing /\ contract'[b].terms = contract[b].terms
           /\ contract[b] = Nothing /\ contract'[b] # Nothing =>
                \E x \in Attempts : Deliver(b, x) /\ MakeContract(b, x)
<1>1. contract[b] \in LooseContracts
  BY DEF DealInv, DealTypes, OfferTypes
<1>2. CASE contract'[b] = contract[b]
  BY <1>2
<1>3. CASE \E x \in Attempts : Deliver(b, x) /\ MakeContract(b, x)
  BY <1>3 DEF MakeContract
<1>4. ASSUME NEW s \in {"EXERCISED", "EXPIRED"},
             contract'[b] = [contract[b] EXCEPT !.status = s]
      PROVE  contract'[b] # Nothing /\ contract'[b].terms = contract[b].terms
  BY <1>1, <1>4 DEF LooseContracts, Nothing
<1>5. ASSUME NEW x \in Attempts, Deliver(b, x), IsExercise(x) PROVE contract[b] # Nothing
  <2>1. CASE b = "buyer"
    BY <1>5, <2>1 DEF ExercisesContract, ExercisesOf
  <2>2. CASE b = "seller"
    <3>1. stage["seller"][x] \in Late
      BY <1>5, <2>2 DEF Deliver, InStage, Late
    <3> QED BY <1>5, <2>2, <3>1, DeliversReady DEF ExercisesContract, ExercisesOf
  <2> QED BY <2>1, <2>2 DEF DealBanks
<1>6. ExpireContract => contract["seller"] # Nothing
  BY DEF ExpireContract, Nothing
<1> QED BY <1>2, <1>3, <1>4, <1>5, <1>6, ContractSteps DEF IsExercise

LEMMA ExercisesKept ==
    ASSUME DealAssumption, DealInv, ExercisesContract, [DealNext]_dealVars, NEW x \in Attempts
    PROVE  ExercisesOf(x)'
<1>1. "buyer" \in DealBanks /\ "seller" \in DealBanks /\ "buyer" # "seller" /\ TxTypes
      /\ attempt \in [Attempts -> Transactions \cup {NoAttempt}]
  BY DEF DealBanks, DealInv, DealTypes, TxTypes
<1>2. CASE attempt[x] = NoAttempt /\ Forming(x)
  <2>1. CASE Exercise(x)
    <3>1. /\ attempt'[x] = [kind |-> "exercise", terms |-> contract["buyer"].terms, by |-> "buyer"]
          /\ contract' = contract /\ contract["buyer"] # Nothing
      BY <1>1, <2>1 DEF Exercise, Form, Nothing
    <3>2. stage["seller"][x] = "idle" /\ dealRecord["seller"][x] = "NONE"
      BY <1>1, <1>2, AtOneBank
    <3>3. Save("buyer", x, "PREPARING") /\ GoStage("buyer", x, "cash")
          /\ "PREPARING" \in DealStates /\ "cash" \in Stages
      BY <2>1 DEF Exercise, Form, DealStates, Stages
    <3>4. stage'["seller"][x] = "idle" /\ dealRecord'["seller"][x] = "NONE"
      <4>1. dealRecord'["seller"][x] = dealRecord["seller"][x]
        BY <1>1, <3>3, SaveEffect
      <4>2. stage'["seller"][x] = stage["seller"][x]
        BY <1>1, <3>3, GoEffect
      <4> QED BY <3>2, <4>1, <4>2
    <3> QED BY <3>1, <3>4 DEF ExercisesOf, Ready, IsExercise
  <2>2. ASSUME NEW b \in DealBanks, Accept(b, x) PROVE ExercisesOf(x)'
    <3>1. attempt'[x].kind = "accept"
      BY <1>1, <2>2 DEF Accept, Form
    <3> QED BY <3>1 DEF ExercisesOf, IsExercise
  <2> QED BY <1>2, <2>1, <2>2 DEF Forming
<1>3. CASE attempt'[x] = attempt[x]
  <2>1. CASE ~IsExercise(x)
    BY <1>3, <2>1 DEF ExercisesOf, IsExercise
  <2>2. CASE IsExercise(x)
    <3>1. ExercisesOf(x) /\ attempt[x].by = "buyer" /\ contract["buyer"] # Nothing
          /\ attempt[x].terms = contract["buyer"].terms
      BY <2>2 DEF ExercisesContract, ExercisesOf
    <3>2. contract'["buyer"] # Nothing /\ contract'["buyer"].terms = contract["buyer"].terms
      BY <1>1, <3>1, ContractKept
    <3>3. contract["seller"] # Nothing => contract'["seller"] # Nothing
      BY <1>1, ContractKept
    <3>4. ASSUME stage'["seller"][x] = "confirm" PROVE Ready(x) \/ contract["seller"] # Nothing
      <4>1. CASE PrepareAsset("seller", x)
        <5>1. ~ GoStage("seller", x, "undo")
          BY <1>1, <3>4, GoEffect DEF Stages
        <5> QED BY <2>2, <4>1, <5>1 DEF PrepareAsset, IsExercise, Nothing
      <4>2. CASE stage["seller"][x] = "confirm"
        BY <4>2 DEF Ready
      <4> QED BY <1>1, <3>4, <4>1, <4>2, StageSteps
    <3>5. ASSUME dealRecord'["seller"][x] \in {"PREPARED", "COMMITTED"}
          PROVE  Ready(x) \/ dealRecord["seller"][x] = "COMMITTED"
      <4>1. Deliver("seller", x) => Ready(x)
        BY <1>1, DeliversReady DEF Deliver, InStage, Late
      <4>2. ConfirmPrepared("seller", x) => Ready(x)
        BY DEF ConfirmPrepared, InStage, Ready
      <4> QED BY <1>1, <3>5, <4>1, <4>2, RecordSteps DEF Ready
    <3>6. Ready(x)' \/ dealRecord'["seller"][x] = "COMMITTED" => contract'["seller"] # Nothing
      BY <2>2, <3>1, <3>3, <3>4, <3>5 DEF ExercisesOf, Ready
    <3> QED BY <1>3, <3>1, <3>2, <3>6 DEF ExercisesOf, IsExercise
  <2> QED BY <2>1, <2>2
<1> QED BY <1>2, <1>3, AttemptKept

LEMMA ConsumedKept ==
    ASSUME DealInv, ExercisesContract, ConsumedOfContract, [DealNext]_dealVars
    PROVE  ConsumedOfContract'
<1>1. "seller" \in DealBanks
  BY DEF DealBanks
<1>2. reservation'.status = "CONSUMED" =>
        \/ reservation.status = "CONSUMED"
        \/ \E x \in Attempts : stage["seller"][x] = "deliver" /\ IsExercise(x)
  <2>1. reservation \in Reservations
    BY DEF DealInv, DealTypes, AssetTypes
  <2>2. ReleaseShares => reservation'.status # "CONSUMED" \/ reservation.status = "CONSUMED"
    BY <2>1 DEF ReleaseShares, Reservations
  <2>3. \A x \in Attempts : ReserveAgain(x) => reservation'.status # "CONSUMED"
    BY DEF ReserveAgain
  <2> QED BY <2>2, <2>3, ShareSteps DEF IsExercise
<1>3. ASSUME NEW x \in Attempts, stage["seller"][x] = "deliver", IsExercise(x)
      PROVE  contract["seller"] # Nothing
  BY <1>3, DeliversReady DEF Late, ExercisesContract, ExercisesOf
<1> QED BY <1>1, <1>2, <1>3, ContractKept DEF ConsumedOfContract

LEMMA ContractsTyped ==
    ASSUME DealAssumption, DealInv, ExercisesContract, contract \in [DealBanks -> Contracts],
           [DealNext]_dealVars
    PROVE  contract' \in [DealBanks -> Contracts]
<1>1. ASSUME NEW b \in DealBanks PROVE contract'[b] \in Contracts
  <2>1. contract[b] \in Contracts /\ Nothing \in Contracts
    BY DEF Contracts
  <2>2. CASE contract'[b] = contract[b]
    BY <2>1, <2>2
  <2>3. ASSUME NEW x \in Attempts, Deliver(b, x), MakeContract(b, x)
        PROVE  contract'[b] \in Contracts
    <3>1. attempt[x] \in Transactions
      <4>1. stage[b][x] # "idle"
        BY <2>3 DEF Deliver, InStage
      <4> QED BY <4>1, IsFormed DEF DealInv, DealTypes, TxInv
    <3>2. negotiation[b].terms \in Terms /\ attempt[x].terms \in Terms
      BY <3>1 DEF DealInv, DealTypes, OfferTypes, Negotiations, Transactions
    <3>3. contract'[b] = [status |-> "ACTIVE",
                          terms |-> IF b = "seller" THEN negotiation[b].terms ELSE attempt[x].terms]
      BY <2>3 DEF MakeContract
    <3> QED BY <3>2, <3>3 DEF Contracts
  <2>4. ASSUME NEW s \in {"EXERCISED", "EXPIRED"}, contract[b] # Nothing,
               contract'[b] = [contract[b] EXCEPT !.status = s]
        PROVE  contract'[b] \in Contracts
    BY <2>1, <2>4 DEF Contracts
  <2>5. ASSUME NEW x \in Attempts, Deliver(b, x), IsExercise(x) PROVE contract[b] # Nothing
    <3>1. CASE b = "buyer"
      BY <2>5, <3>1 DEF ExercisesContract, ExercisesOf
    <3>2. CASE b = "seller"
      <4>1. stage["seller"][x] \in Late
        BY <2>5, <3>2 DEF Deliver, InStage, Late
      <4> QED BY <2>5, <3>2, <4>1, DeliversReady DEF ExercisesContract, ExercisesOf
    <3> QED BY <3>1, <3>2 DEF DealBanks
  <2>6. ExpireContract => contract["seller"] # Nothing
    BY DEF ExpireContract, Nothing
  <2> QED BY <2>2, <2>3, <2>4, <2>5, <2>6, ContractSteps DEF IsExercise
<1>2. DOMAIN contract' = DealBanks /\ contract' = [b \in DealBanks |-> contract'[b]]
  <2>1. DealInv'
    BY DealStep
  <2> QED BY <2>1 DEF DealInv, DealTypes, OfferTypes
<1> QED BY <1>1, <1>2

BooksInv ==
    /\ DealInv /\ contract \in [DealBanks -> Contracts]
    /\ SharesMatch /\ CashMatches /\ ExercisesContract /\ ConsumedOfContract

LEMMA BooksStart ==
    ASSUME DealAssumption, DealInit
    PROVE  BooksInv
<1>1. PICK t \in Terms : Offered(t) \/ Agreed(t)
  BY DEF DealInit
<1>2. DealInv
  BY DealStarts DEF DealInv
<1>3. SharesMatch
  BY <1>1, TermsNumbers DEF Offered, Agreed, SharesMatch
<1>4. CashMatches
  BY DEF DealInit, CashMatches, DealBanks
<1>5. ExercisesContract
  BY DEF DealInit, ExercisesContract, ExercisesOf, IsExercise, NoAttempt
<1>6. ConsumedOfContract
  BY <1>1 DEF Offered, Agreed, ConsumedOfContract
<1>7. contract \in [DealBanks -> Contracts]
  BY <1>1 DEF Offered, Agreed, Contracts
<1> QED BY <1>2, <1>3, <1>4, <1>5, <1>6, <1>7 DEF BooksInv

LEMMA BooksStep ==
    ASSUME DealAssumption, BooksInv, [DealNext]_dealVars
    PROVE  BooksInv'
<1>1. ExercisesContract'
  BY ExercisesKept DEF BooksInv, ExercisesContract
<1> QED BY <1>1, DealStep, SharesKept, CashMatchesKept, ConsumedKept, ContractsTyped DEF BooksInv

\* The type invariant needs more than types: an exercised contract is one that was made, and
\* no more shares are reserved than the seller has.
LEMMA TypesOfBooks == ASSUME DealAssumption, BooksInv PROVE DealTypeOK
<1>1. PICK r \in Int, a \in Int, b \in Int, n \in Nat :
         /\ r = reservation.amount /\ a = shares.amount /\ b = shares.reserved /\ n = Owned
         /\ r >= 0
  BY TermsNumbers DEF BooksInv, DealInv, DealTypes, AssetTypes, Reservations
<1>2. a \in 0..n /\ b \in 0..n
  BY <1>1 DEF BooksInv, SharesMatch
<1>3. shares \in [amount : 0..Owned, reserved : 0..Owned]
  BY <1>1, <1>2 DEF BooksInv, DealInv, DealTypes, AssetTypes
<1> QED BY <1>3 DEF BooksInv, DealInv, DealTypes, OfferTypes, TxTypes, AssetTypes, HistoryTypes,
                    DealTypeOK, Transactions, DealStates, DealPostings

LEMMA AlwaysBooks == ASSUME DealAssumption PROVE DealSpec => []BooksInv
<1>1. DealInit => BooksInv
  BY BooksStart
<1>2. BooksInv /\ [DealNext]_dealVars => BooksInv'
  BY BooksStep
<1> QED BY <1>1, <1>2, PTL DEF DealSpec

\* Whatever the banks answer or lose, all that they store is of its type: a contract that is
\* exercised was made, and the seller never has more shares reserved than shares.
THEOREM DealTypesAlways == DealAssumption => (DealSpec => []DealTypeOK)
<1> SUFFICES ASSUME DealAssumption PROVE DealSpec => []DealTypeOK
  OBVIOUS
<1>1. BooksInv => DealTypeOK
  BY TypesOfBooks
<1> QED BY <1>1, AlwaysBooks, PTL

-----------------------------------------------------------------------------
(* The rows of a negotiation *)

\* Two rows that stand with the same offerer have the same terms, and so have a row that
\* is about to be saved and the one that the other bank has stored for it; the expiry job
\* saves only rows that do not stand.
Agreeing ==
    \A b \in DealBanks :
        /\ negotiation[b].status = "ONGOING" /\ negotiation[Other(b)].status = "ONGOING"
             /\ negotiation[b].by = negotiation[Other(b)].by
             => negotiation[b].terms = negotiation[Other(b)].terms
        /\ saving[b].status = "ONGOING" =>
             /\ saving[b].by = b
             /\ negotiation[b].status = "ONGOING" => negotiation[b].by = Other(b)
             /\ negotiation[Other(b)].status = "ONGOING" /\ negotiation[Other(b)].by = b =>
                  negotiation[Other(b)].terms = saving[b].terms
DealAccepted ==
    \A b \in DealBanks :
        /\ saving[b].status \in {"NONE", "ONGOING", "CANCELLED"}
        /\ expiring[b].status \in {"NONE", "EXPIRED"}
        /\ negotiation[b].status = "ACCEPTED" => contract[b] # Nothing
DealRowsMatch == Agreeing /\ DealAccepted

\* Statuses change in several ways, offers only when they are made or saved.
LEMMA RowSteps ==
    ASSUME DealInv, [DealNext]_dealVars
    PROVE  \/ UNCHANGED rowVars
           \/ \E b \in DealBanks, t \in Terms : Counter(b, t)
           \/ \E b \in DealBanks : SaveRow(b) \/ ExpireNegotiation(b)
           \/ /\ \A b \in DealBanks :
                   /\ negotiation'[b].terms = negotiation[b].terms
                   /\ negotiation'[b].by = negotiation[b].by
                   /\ \/ negotiation'[b].status = negotiation[b].status
                      \/ negotiation'[b].status \in {"CANCELLED", "EXPIRED"}
                      \/ \E x \in Attempts : Deliver(b, x) /\ MakeContract(b, x)
              /\ \A b \in DealBanks :
                   /\ \/ saving'[b] = saving[b]
                      \/ saving'[b].status \in {"NONE", "CANCELLED"}
                   /\ expiring'[b] = expiring[b] \/ expiring'[b].status = "EXPIRED"
<1> DEFINE Else == /\ \A b \in DealBanks :
                        /\ negotiation'[b].terms = negotiation[b].terms
                        /\ negotiation'[b].by = negotiation[b].by
                        /\ \/ negotiation'[b].status = negotiation[b].status
                           \/ negotiation'[b].status \in {"CANCELLED", "EXPIRED"}
                           \/ \E x \in Attempts : Deliver(b, x) /\ MakeContract(b, x)
                   /\ \A b \in DealBanks :
                        /\ \/ saving'[b] = saving[b]
                           \/ saving'[b].status \in {"NONE", "CANCELLED"}
                        /\ expiring'[b] = expiring[b] \/ expiring'[b].status = "EXPIRED"
<1>1. /\ negotiation \in [DealBanks -> Negotiations]
      /\ saving \in [DealBanks -> Negotiations \cup {NoNegotiation}]
      /\ expiring \in [DealBanks -> Negotiations \cup {NoNegotiation}]
  BY DEF DealInv, DealTypes, OfferTypes
<1>2. CASE UNCHANGED dealVars \/ SettlementPasses \/ ExpireContract
  BY <1>2, QuietSteps DEF rowVars
<1>3. CASE \E x \in Attempts :
             \/ Forming(x) \/ Rolling(x) \/ EnqueueDeal(x) \/ GiveUpFollowUp(x)
             \/ DeliverNewTx(x) \/ TakeYes(x) \/ DeliverCommit(x)
  BY <1>3, QuietSteps DEF rowVars
<1>4. ASSUME NEW b \in DealBanks, Withdraw(b) PROVE Else
  <2>1. Other(b) \in DealBanks /\ DealBanks = {b, Other(b)} /\ b # Other(b)
    BY BanksOther
  <2>2. /\ negotiation'[b] = negotiation[b]
        /\ negotiation'[Other(b)] = Cancelled(negotiation[Other(b)])
        /\ saving'[Other(b)] = saving[Other(b)]
        /\ saving'[b] = saving[b] \/ saving'[b].status = "CANCELLED"
        /\ expiring' = expiring
    BY <1>1, <1>4, <2>1 DEF Withdraw, Close, Cancelled, Negotiations
  <2>3. /\ negotiation'[Other(b)].terms = negotiation[Other(b)].terms
        /\ negotiation'[Other(b)].by = negotiation[Other(b)].by
        /\ \/ negotiation'[Other(b)].status = negotiation[Other(b)].status
           \/ negotiation'[Other(b)].status = "CANCELLED"
    BY <1>1, <2>1, <2>2 DEF Cancelled, Negotiations
  <2> QED BY <2>1, <2>2, <2>3
<1>5. ASSUME NEW b \in DealBanks, LoseRow(b) PROVE Else
  BY <1>1, <1>5 DEF LoseRow, NoNegotiation
<1>6. ASSUME NEW b \in DealBanks, FindOngoing(b) PROVE Else
  <2>1. /\ saving' = saving /\ negotiation' = negotiation
        /\ expiring'[b] = [negotiation[b] EXCEPT !.status = "EXPIRED"]
        /\ \A d \in DealBanks : d # b => expiring'[d] = expiring[d]
    BY <1>1, <1>6 DEF FindOngoing
  <2>2. expiring'[b].status = "EXPIRED"
    BY <1>1, <2>1 DEF Negotiations
  <2> QED BY <2>1, <2>2
<1>7. ASSUME NEW b \in DealBanks, NEW x \in Attempts, Process(b, x) PROVE Else
  <2>1. CASE UNCHANGED rowVars
    BY <2>1 DEF rowVars
  <2>2. CASE Deliver(b, x) /\ MakeContract(b, x)
    <3>1. saving' = saving /\ expiring' = expiring
      BY <2>2 DEF Deliver
    <3>2. \/ negotiation' = negotiation
          \/ negotiation' = [negotiation EXCEPT ![b].status = "ACCEPTED"]
      BY <2>2 DEF MakeContract
    <3>3. ASSUME negotiation' = [negotiation EXCEPT ![b].status = "ACCEPTED"]
          PROVE  /\ \A d \in DealBanks : negotiation'[d].terms = negotiation[d].terms
                                         /\ negotiation'[d].by = negotiation[d].by
                 /\ \A d \in DealBanks : d # b => negotiation'[d] = negotiation[d]
      BY <1>1, <3>3 DEF Negotiations
    <3> QED BY <2>2, <3>1, <3>2, <3>3
  <2>3. CASE Deliver(b, x) /\ ~MakeContract(b, x)
    BY <2>3 DEF Deliver
  <2>4. CASE PrepareCash(b, x) \/ PrepareAsset(b, x) \/ VoteNo(b, x) \/ ConfirmPrepared(b, x)
             \/ CommitCash(b, x) \/ DeliverFails(b, x) \/ HandlerCrash(b, x)
    BY <2>1, <2>4 DEF PrepareCash, PrepareAsset, VoteNo, ConfirmPrepared, CommitCash, DeliverFails,
                HandlerCrash
  <2> QED BY <1>7, <2>2, <2>3, <2>4 DEF Process
<1> QED BY <1>2, <1>3, <1>4, <1>5, <1>6, <1>7, StepKinds DEF RowStep

LEMMA RowsKept ==
    ASSUME DealAssumption, BooksInv, DealRowsMatch, [DealNext]_dealVars
    PROVE  DealRowsMatch'
<1>1. /\ negotiation \in [DealBanks -> Negotiations]
      /\ saving \in [DealBanks -> Negotiations \cup {NoNegotiation}]
      /\ expiring \in [DealBanks -> Negotiations \cup {NoNegotiation}]
  BY DEF BooksInv, DealInv, DealTypes, OfferTypes
<1>2. \A b \in DealBanks : contract[b] # Nothing => contract'[b] # Nothing
  BY ContractKept DEF BooksInv
<1>3. CASE UNCHANGED rowVars
  BY <1>2, <1>3 DEF DealRowsMatch, Agreeing, DealAccepted, rowVars
<1>4. ASSUME NEW b \in DealBanks, NEW t \in Terms, Counter(b, t) PROVE DealRowsMatch'
  <2>1. PICK p \in DealBanks : p = Other(b) /\ b = Other(p) /\ p # b /\ DealBanks = {b, p}
    BY BanksOther
  <2>2. /\ negotiation[b].status = "ONGOING" /\ negotiation[b].by # b
        /\ negotiation[p].status = "ONGOING" /\ negotiation[p].by # b
        /\ negotiation' = [negotiation EXCEPT ![p] = Proposed(t, b)]
        /\ saving' = [saving EXCEPT ![b] = Proposed(t, b)] /\ expiring' = expiring
    BY <1>4, <2>1 DEF Counter, UpdateCounter, MayCounter
  <2>3. negotiation[b].by = p /\ negotiation[p].by = p
    BY <1>1, <2>1, <2>2 DEF Negotiations
  <2>4. saving[p].status # "ONGOING"
    BY <2>1, <2>2, <2>3 DEF DealRowsMatch, Agreeing
  <2>5. /\ negotiation'[b] = negotiation[b] /\ negotiation'[p] = Proposed(t, b)
        /\ saving'[p] = saving[p] /\ saving'[b] = Proposed(t, b)
    BY <1>1, <2>1, <2>2
  <2>6. Agreeing'
    BY <2>1, <2>3, <2>4, <2>5 DEF Agreeing, Proposed
  <2>7. DealAccepted'
    BY <1>2, <2>1, <2>2, <2>5 DEF DealRowsMatch, DealAccepted, Proposed
  <2> QED BY <2>6, <2>7 DEF DealRowsMatch
<1>5. ASSUME NEW b \in DealBanks, SaveRow(b) PROVE DealRowsMatch'
  <2>1. PICK p \in DealBanks : p = Other(b) /\ b = Other(p) /\ p # b /\ DealBanks = {b, p}
    BY BanksOther
  <2>2. /\ negotiation'[b] = saving[b] /\ negotiation'[p] = negotiation[p]
        /\ saving'[b] = NoNegotiation /\ saving'[p] = saving[p] /\ saving[b] \in Negotiations
        /\ expiring' = expiring
    BY <1>1, <1>5, <2>1 DEF SaveRow
  <2>3. saving[b].status \in {"ONGOING", "CANCELLED"}
    BY <2>2 DEF DealRowsMatch, DealAccepted, Negotiations
  <2>4. Agreeing'
    BY <2>1, <2>2, <2>3 DEF DealRowsMatch, Agreeing, NoNegotiation
  <2>5. DealAccepted'
    BY <1>2, <2>1, <2>2, <2>3 DEF DealRowsMatch, DealAccepted, NoNegotiation
  <2> QED BY <2>4, <2>5 DEF DealRowsMatch
<1>8. ASSUME NEW b \in DealBanks, ExpireNegotiation(b) PROVE DealRowsMatch'
  <2>1. PICK p \in DealBanks : p = Other(b) /\ b = Other(p) /\ p # b /\ DealBanks = {b, p}
    BY BanksOther
  <2>2. /\ negotiation'[b] = expiring[b] /\ negotiation'[p] = negotiation[p]
        /\ expiring'[b] = NoNegotiation /\ expiring'[p] = expiring[p] /\ expiring[b] \in Negotiations
        /\ saving' = saving
    BY <1>1, <1>8, <2>1 DEF ExpireNegotiation
  <2>3. expiring[b].status = "EXPIRED"
    BY <2>2 DEF DealRowsMatch, DealAccepted, Negotiations
  <2>4. Agreeing'
    BY <2>1, <2>2, <2>3 DEF DealRowsMatch, Agreeing
  <2>5. DealAccepted'
    BY <1>2, <2>1, <2>2, <2>3 DEF DealRowsMatch, DealAccepted, NoNegotiation
  <2> QED BY <2>4, <2>5 DEF DealRowsMatch
<1>6. ASSUME \A b \in DealBanks :
               /\ negotiation'[b].terms = negotiation[b].terms
               /\ negotiation'[b].by = negotiation[b].by
               /\ \/ negotiation'[b].status = negotiation[b].status
                  \/ negotiation'[b].status \in {"CANCELLED", "EXPIRED"}
                  \/ \E x \in Attempts : Deliver(b, x) /\ MakeContract(b, x),
             \A b \in DealBanks :
               /\ saving'[b] = saving[b] \/ saving'[b].status \in {"NONE", "CANCELLED"}
               /\ expiring'[b] = expiring[b] \/ expiring'[b].status = "EXPIRED"
      PROVE  DealRowsMatch'
  <2>1. ASSUME NEW b \in DealBanks PROVE negotiation'[b].status = "ONGOING" =>
                                           negotiation[b].status = "ONGOING"
    <3>1. ASSUME NEW x \in Attempts, MakeContract(b, x), negotiation'[b].status = "ONGOING"
          PROVE  negotiation[b].status = "ONGOING"
      BY <1>1, <3>1 DEF MakeContract, Negotiations
    <3> QED BY <1>6, <3>1
  <2>2. \A b \in DealBanks : Other(b) \in DealBanks
    BY BanksOther
  <2>3. Agreeing'
    BY <1>6, <2>1, <2>2 DEF DealRowsMatch, Agreeing
  <2>4. ASSUME NEW b \in DealBanks, negotiation'[b].status = "ACCEPTED"
        PROVE  contract'[b] # Nothing
    <3>1. CASE \E x \in Attempts : MakeContract(b, x)
      <4>1. contract'[b].status = "ACTIVE"
        BY <3>1 DEF MakeContract, BooksInv
      <4> QED BY <4>1 DEF Nothing
    <3>2. CASE negotiation[b].status = "ACCEPTED"
      BY <1>2, <3>2 DEF DealRowsMatch, DealAccepted
    <3> QED BY <1>6, <2>4, <3>1, <3>2
  <2>5. DealAccepted'
    BY <1>6, <2>4 DEF DealRowsMatch, DealAccepted
  <2> QED BY <2>3, <2>5 DEF DealRowsMatch
<1>7. DealInv
  BY DEF BooksInv
<1> QED BY <1>3, <1>4, <1>5, <1>6, <1>7, <1>8, RowSteps

-----------------------------------------------------------------------------
(* How an attempt lives and ends *)

\* A transaction comes to life only by being formed.
LEMMA LiveSteps ==
    ASSUME DealInv, [DealNext]_dealVars, NEW x \in Attempts, Live(x)'
    PROVE  Live(x) \/ Forming(x)
<1>1. ASSUME NEW b \in DealBanks, stage'[b][x] # "idle" PROVE Live(x) \/ Forming(x)
  <2>1. CASE stage[b][x] # "idle"
    BY <2>1 DEF Live
  <2>2. PrepareCash(b, x) \/ PrepareAsset(b, x) \/ CommitCash(b, x) => stage[b][x] # "idle"
    BY DEF PrepareCash, PrepareAsset, CommitCash, InStage
  <2> QED BY <1>1, <2>1, <2>2, StageSteps
<1>2. ASSUME NEW m \in dealOutbox', m \notin dealOutbox, m[1] = x PROVE Live(x)
  <2>1. CASE UNCHANGED dealVars \/ SettlementPasses \/ ExpireContract
               \/ \E b \in DealBanks : RowStep(b)
    BY <1>2, <2>1, QuietSteps DEF txVars
  <2>2. ASSUME NEW y \in Attempts, Forming(y) PROVE FALSE
    BY <1>2, <2>2, QuietSteps
  <2>3. ASSUME NEW y \in Attempts,
               \/ Rolling(y) \/ EnqueueDeal(y) \/ GiveUpFollowUp(y)
               \/ DeliverNewTx(y) \/ TakeYes(y) \/ DeliverCommit(y)
        PROVE  Live(x)
    <3>1. CASE EnqueueDeal(y)
      <4>1. m = <<y, "NEW">> /\ stage[Coordinator(y)][y] # "idle"
        BY <1>2, <3>1 DEF EnqueueDeal, InStage
      <4>2. Coordinator(y) \in DealBanks
        BY BothBanks DEF DealInv, DealTypes
      <4> QED BY <1>2, <4>1, <4>2 DEF Live
    <3>2. CASE GiveUpNewTx(y) \/ TakeYes(y)
      <4>1. m[1] = y /\ <<y, "NEW">> \in dealOutbox
        BY <1>2, <3>2 DEF GiveUpNewTx, TakeYes, MarkMessage, Queue
      <4> QED BY <1>2, <4>1 DEF Live
    <3>3. CASE \/ TakeNo(y) \/ DeliverRollback(y) \/ GiveUpFollowUp(y) \/ DeliverNewTx(y)
               \/ DeliverCommit(y)
      BY <1>2, <3>3 DEF TakeNo, DeliverRollback, GiveUpFollowUp, DeliverNewTx, DeliverCommit,
                        MarkMessage
    <3> QED BY <2>3, <3>1, <3>2, <3>3 DEF Rolling
  <2>4. ASSUME NEW b \in DealBanks, NEW y \in Attempts, Process(b, y) PROVE Live(x)
    <3>1. CASE Deliver(b, y)
      <4>1. m[1] = y /\ stage[b][y] # "idle"
        BY <1>2, <3>1 DEF Deliver, MarkMessage, Queue, InStage
      <4> QED BY <1>2, <4>1 DEF Live
    <3>2. CASE PrepareCash(b, y) \/ PrepareAsset(b, y) \/ VoteNo(b, y) \/ ConfirmPrepared(b, y)
               \/ CommitCash(b, y) \/ DeliverFails(b, y) \/ HandlerCrash(b, y)
      BY <1>2, <3>2 DEF PrepareCash, PrepareAsset, VoteNo, ConfirmPrepared, CommitCash,
                        DeliverFails, HandlerCrash, AbortCommit
    <3> QED BY <2>4, <3>1, <3>2 DEF Process
  <2> QED BY <2>1, <2>2, <2>3, <2>4, StepKinds
<1>3. CASE \E m \in dealOutbox' : m[1] = x
  <2>1. PICK m \in dealOutbox' : m[1] = x
    BY <1>3
  <2> QED BY <1>2, <2>1 DEF Live
<1> QED BY <1>1, <1>3 DEF Live

\* What one bank has committed stays so, and what the coordinator has rolled back.
LEMMA CommitStays ==
    ASSUME DealInv, [DealNext]_dealVars, NEW b \in DealBanks, NEW x \in Attempts,
           dealRecord[b][x] = "COMMITTED"
    PROVE  dealRecord'[b][x] = "COMMITTED"
<1>1. stage[b][x] = "idle" /\ attempt[x] # NoAttempt
  BY AtOneBank
<1>2. ~VoteNo(b, x) /\ ~ConfirmPrepared(b, x) /\ ~RollsBack(b, x)
  BY <1>1 DEF VoteNo, ConfirmPrepared, RollsBack, Rollback, InStage
<1>3. ~Forming(x)
  BY <1>1 DEF Forming, Exercise, Accept, Form
<1> QED BY <1>2, <1>3, RecordSteps

LEMMA RolledBackStays ==
    ASSUME DealInv, [DealNext]_dealVars, NEW x \in Attempts,
           dealRecord[Coordinator(x)][x] = "ROLLED_BACK"
    PROVE  /\ attempt'[x] = attempt[x]
           /\ dealRecord'[Coordinator(x)][x] = "ROLLED_BACK"
<1>1. PICK c, p \in DealBanks : c = Coordinator(x) /\ p = Participant(x) /\ c # p
  BY BothBanks DEF DealInv, DealTypes
<1>2. Phases(x, c, p)
  BY <1>1 DEF DealInv, Protocol
<1>3. stage[c][x] \notin Early \cup Late /\ attempt[x] # NoAttempt
  BY <1>1, <1>2 DEF Phases, Early, Late
<1>4. ~VoteNo(c, x) /\ ~ConfirmPrepared(c, x) /\ ~RollsBack(c, x) /\ ~Deliver(c, x)
  BY <1>1, <1>3 DEF VoteNo, ConfirmPrepared, RollsBack, Rollback, Deliver, InStage, Early, Late
<1>5. ~Forming(x)
  BY <1>3 DEF Forming, Exercise, Accept, Form
<1> QED BY <1>1, <1>4, <1>5, RecordSteps, AttemptKept

\* The seller's bank becomes ready by preparing the shares.
LEMMA ReadySteps ==
    ASSUME DealInv, [DealNext]_dealVars, NEW x \in Attempts, Ready(x)'
    PROVE  Ready(x) \/ (PrepareAsset("seller", x) /\ stage'["seller"][x] = "confirm")
<1>1. "seller" \in DealBanks
  BY DEF DealBanks
<1>2. CASE stage'["seller"][x] = "confirm"
  BY <1>1, <1>2, StageSteps DEF Ready
<1>3. CASE dealRecord'["seller"][x] = "PREPARED"
  <2>1. ConfirmPrepared("seller", x) => Ready(x)
    BY DEF ConfirmPrepared, InStage, Ready
  <2> QED BY <1>1, <1>3, <2>1, RecordSteps DEF Ready
<1> QED BY <1>2, <1>3 DEF Ready

\* Prepared, and not rolled back.
InOrder(x) == Ready(x) /\ dealRecord[Coordinator(x)][x] # "ROLLED_BACK"

LEMMA InOrderSteps ==
    ASSUME DealInv, [DealNext]_dealVars, NEW x \in Attempts, InOrder(x)'
    PROVE  /\ attempt'[x] = attempt[x] /\ attempt[x] # NoAttempt
           /\ InOrder(x) \/ (PrepareAsset("seller", x) /\ stage'["seller"][x] = "confirm")
<1>1. Ready(x) \/ (PrepareAsset("seller", x) /\ stage'["seller"][x] = "confirm")
  BY ReadySteps DEF InOrder
<1>2. attempt[x] # NoAttempt
  <2>1. "seller" \in DealBanks
    BY DEF DealBanks
  <2> QED BY <1>1, <2>1, AtOneBank DEF Ready, PrepareAsset, InStage
<1>3. attempt'[x] = attempt[x]
  BY <1>2, AttemptKept
<1>4. PICK c \in DealBanks : c = Coordinator(x)
  BY BothBanks DEF DealInv, DealTypes
<1>5. c = Coordinator(x)'
  BY <1>3, <1>4 DEF Coordinator
<1>6. dealRecord'[c][x] # "ROLLED_BACK"
  BY <1>5 DEF InOrder
<1>7. dealRecord[c][x] # "ROLLED_BACK"
  BY <1>4, <1>6, RolledBackStays
<1> QED BY <1>1, <1>2, <1>3, <1>4, <1>7 DEF InOrder

\* A rollback in the seller's bank ends an attempt that has been alive.
LEMMA RollbackEnds ==
    ASSUME DealInv, [DealNext]_dealVars, NEW x \in Attempts, RollsBack("seller", x)
    PROVE  /\ Live(x) /\ ~InOrder(x)'
           /\ dealRecord["seller"][x] \in {"PREPARING", "PREPARED"}
<1>1. PICK c, p \in DealBanks : c = Coordinator(x) /\ p = Participant(x) /\ DealBanks = {c, p}
                                /\ c # p
  BY BothBanks DEF DealInv, DealTypes
<1>2. Phases(x, c, p)
  BY <1>1 DEF DealInv, Protocol
<1>3. Live(x) /\ dealRecord["seller"][x] \in {"PREPARING", "PREPARED"}
  BY DEF RollsBack, Rollback, Live
<1>4. UNCHANGED <<attempt, stage>>
  BY QuietSteps DEF RollsBack
<1>5. dealRecord'["seller"][x] = "ROLLED_BACK"
  <2>1. Save("seller", x, "ROLLED_BACK") /\ "seller" \in DealBanks /\ "ROLLED_BACK" \in DealStates
    BY DEF RollsBack, Rollback, DealBanks, DealStates, Statuses
  <2> QED BY <2>1, SaveEffect DEF DealInv, DealTypes
<1>6. CASE <<x, "NEW">> \in dealOutbox /\ "seller" = c
  <2>1. stage[c][x] # "confirm"
    BY <1>2, <1>6 DEF Phases, Early
  <2> QED BY <1>3, <1>4, <1>5, <1>6, <2>1 DEF InOrder, Ready
<1>7. CASE <<x, "ROLLBACK">> \in dealOutbox /\ "seller" = p
  <2>1. dealRecord[c][x] = "ROLLED_BACK"
    BY <1>2, <1>7 DEF Phases
  <2>2. dealRecord'[c][x] = "ROLLED_BACK" /\ c = Coordinator(x)'
    BY <1>1, <1>4, <2>1, RolledBackStays DEF Coordinator
  <2> QED BY <1>3, <2>2 DEF InOrder
<1> QED BY <1>1, <1>6, <1>7 DEF RollsBack

\* Shares that are reserved stay so until a rollback, the expiry or an exercise.
LEMMA ReservedSteps ==
    ASSUME DealInv, [DealNext]_dealVars, reservation.status \in {"ACTIVE", "CONSUMED"}
    PROVE  \/ reservation' = reservation
           \/ \E x \in Attempts : IsAccept(x) /\ RollsBack("seller", x)
           \/ ExpireContract /\ reservation.status = "ACTIVE"
           \/ /\ reservation.status = "ACTIVE"
              /\ reservation' = [reservation EXCEPT !.status = "CONSUMED"]
              /\ \E x \in Attempts : stage["seller"][x] = "deliver" /\ IsExercise(x)
                                     /\ (Deliver("seller", x) \/ DeliverFails("seller", x))
<1>1. ReleaseShares => reservation.status = "ACTIVE" \/ reservation' = reservation
  BY DEF ReleaseShares
<1>2. Consume => \/ reservation' = reservation
                 \/ /\ reservation.status = "ACTIVE"
                    /\ reservation' = [reservation EXCEPT !.status = "CONSUMED"]
  BY DEF Consume
<1> QED BY <1>1, <1>2, ShareSteps DEF IsAccept, IsExercise

-----------------------------------------------------------------------------
(* The two banks agree *)

\* No accept and no counter-offer has overlapped with another attempt to agree.
DealCalm == raced \cap {"accept", "counter"} = {}

\* The one attempt to agree that is alive stands for the seller's row, and the shares are
\* reserved for it as soon as the seller's bank is ready.
LiveAccept(x) ==
    IsAccept(x) /\ Live(x) =>
        /\ \A y \in Attempts : IsAccept(y) /\ Live(y) => y = x
        /\ \A b \in DealBanks : contract[b] # Nothing => dealRecord[b][x] = "COMMITTED"
        /\ negotiation["seller"].terms = attempt[x].terms
        /\ InOrder(x) => reservation = [status |-> "ACTIVE", amount |-> attempt[x].terms]
CommittedAccept(b, x) ==
    IsAccept(x) /\ dealRecord[b][x] = "COMMITTED" =>
        contract[b] # Nothing /\ contract[b].terms = attempt[x].terms
Paid(b) ==
    contract[b] # Nothing =>
        /\ PaidFor("accept", b, contract[b].terms)
        /\ \/ contract[Other(b)] # Nothing /\ contract[Other(b)].terms = contract[b].terms
           \/ contract[Other(b)] = Nothing /\ Completes("accept", b)

AgreementMatches ==
    DealCalm =>
      /\ \A x \in Attempts : LiveAccept(x)
      /\ \A b \in DealBanks, x \in Attempts : CommittedAccept(b, x)
      /\ \A b \in DealBanks : Paid(b)
      /\ Covered

AgreeInv == BooksInv /\ DealRowsMatch /\ AgreementMatches

\* What overlaps with an attempt to agree is remembered.
LEMMA CalmSteps ==
    ASSUME [DealNext]_dealVars, DealCalm'
    PROVE  /\ DealCalm
           /\ \A b \in DealBanks, x \in Attempts : Accept(b, x) => ~UnderWay("accept")
           /\ \A b \in DealBanks, t \in Terms : Counter(b, t) => ~UnderWay("accept")
           /\ \A b \in DealBanks : SaveRow(b) \/ ExpireNegotiation(b) => ~UnderWay("accept")
<1>1. raced \subseteq raced'
  <2>1. CASE UNCHANGED raced
    BY <2>1
  <2>2. CASE UNCHANGED dealVars \/ SettlementPasses
    BY <2>2, QuietSteps
  <2>3. CASE ExpireContract
    BY <2>3 DEF ExpireContract
  <2>4. ASSUME NEW b \in DealBanks, RowStep(b) PROVE raced \subseteq raced'
    BY <2>4 DEF RowStep, Counter, Withdraw, SaveRow, LoseRow, FindOngoing, ExpireNegotiation, Races
  <2>5. ASSUME NEW x \in Attempts, Forming(x) PROVE raced \subseteq raced'
    BY <2>5 DEF Forming, Exercise, Accept, Form, Races
  <2>6. ASSUME NEW x \in Attempts, Rolling(x) PROVE raced \subseteq raced'
    BY <2>6 DEF Rolling, TakeNo, GiveUpNewTx, DeliverRollback
  <2>7. CASE \/ \E x \in Attempts :
                  \/ EnqueueDeal(x) \/ GiveUpFollowUp(x)
                  \/ DeliverNewTx(x) \/ TakeYes(x) \/ DeliverCommit(x)
             \/ \E b \in DealBanks, x \in Attempts : Process(b, x)
    BY <2>7, QuietSteps
  <2> QED BY <2>2, <2>3, <2>4, <2>5, <2>6, <2>7, StepKinds
<1> QED BY <1>1 DEF DealCalm, Accept, Form, Counter, SaveRow, ExpireNegotiation, Races

\* The attempt that makes a contract in bank b.
LEMMA MadeBy ==
    ASSUME AgreeInv, DealCalm, [DealNext]_dealVars, NEW b \in DealBanks, NEW x \in Attempts,
           Deliver(b, x), IsAccept(x)
    PROVE  /\ Live(x) /\ dealRecord'[b][x] = "COMMITTED" /\ attempt' = attempt
           /\ contract[b] = Nothing /\ contract'[b] # Nothing
           /\ contract'[b].terms = attempt[x].terms
           /\ \A d \in DealBanks : d # b => contract'[d] = contract[d]
           /\ PaidFor("accept", b, attempt[x].terms)'
<1>1. Live(x) /\ stage[b][x] = "deliver"
  BY DEF Deliver, InStage, Live
<1>2. dealRecord'[b][x] = "COMMITTED" /\ attempt' = attempt /\ dealPosting' = dealPosting
  <2>1. Save(b, x, "COMMITTED") /\ "COMMITTED" \in DealStates /\ TxTypes
    BY DEF Deliver, DealStates, Statuses, AgreeInv, BooksInv, DealInv, DealTypes
  <2> QED BY <2>1, SaveEffect DEF Deliver
<1>3. MakeContract(b, x)
  BY DEF Deliver, MoveShares, IsAccept
<1>4. negotiation["seller"].terms = attempt[x].terms
  BY <1>1 DEF AgreeInv, AgreementMatches, LiveAccept
<1>5. /\ contract'[b] = [status |-> "ACTIVE",
                         terms |-> IF b = "seller" THEN negotiation[b].terms ELSE attempt[x].terms]
      /\ \A d \in DealBanks : d # b => contract'[d] = contract[d]
      /\ contract[b] = Nothing
  BY <1>3 DEF MakeContract, AgreeInv, BooksInv
<1>6. contract'[b] # Nothing /\ contract'[b].terms = attempt[x].terms
  BY <1>4, <1>5 DEF Nothing
<1>7. PaidFor("accept", b, attempt[x].terms)'
  <2>1. Cash(b, x).status = "COMMITTED" /\ Known(b, x)
    <3>1. dealRecord[b][x] = "PREPARED"
      BY <1>1, AtOneBank DEF AgreeInv, BooksInv, Late
    <3> QED BY <1>1, <3>1 DEF AgreeInv, BooksInv, CashMatches
  <2> QED BY <1>2, <2>1 DEF PaidFor, Cash, Known, IsAccept
<1> QED BY <1>1, <1>2, <1>5, <1>6, <1>7

LEMMA LiveAcceptKept ==
    ASSUME DealAssumption, AgreeInv, DealCalm, DealCalm', [DealNext]_dealVars, NEW x \in Attempts
    PROVE  LiveAccept(x)'
<1> USE DEF IsAccept
<1> SUFFICES ASSUME IsAccept(x)', Live(x)' PROVE LiveAccept(x)'
  BY DEF LiveAccept
<1>1. DealInv /\ "seller" \in DealBanks /\ TxTypes
  BY DEF AgreeInv, BooksInv, DealInv, DealTypes, DealBanks
<1>2. \A y \in Attempts : Forming(y) /\ IsAccept(y)' => \E b \in DealBanks : Accept(b, y)
  BY <1>1 DEF Forming, Exercise, Form, TxTypes
<1>3. ASSUME NEW y \in Attempts, IsAccept(y)', Live(y)', ~Forming(y)
      PROVE  IsAccept(y) /\ Live(y) /\ attempt'[y] = attempt[y]
  BY <1>1, <1>3, LiveSteps, AttemptKept
<1>4. CASE Forming(x)
  <2>1. PICK b \in DealBanks : Accept(b, x)
    BY <1>2, <1>4
  <2>2. ~UnderWay("accept") /\ attempt[x] = NoAttempt
    BY <2>1, CalmSteps DEF Accept, Form
  <2>3. \A y \in Attempts : IsAccept(y)' /\ Live(y)' => y = x
    <3>1. ASSUME NEW y \in Attempts, IsAccept(y)', Live(y)', y # x PROVE FALSE
      <4>1. attempt'[y] = attempt[y]
        BY <1>1, <2>1, <3>1 DEF Accept, Form, TxTypes
      <4>2. ~Forming(y)
        BY <3>1, <4>1 DEF Forming, Exercise, Accept, Form, NoAttempt
      <4> QED BY <1>3, <2>2, <3>1, <4>2 DEF UnderWay
    <3> QED BY <3>1
  <2>4. \A d \in DealBanks : contract'[d] = Nothing
    BY <2>1 DEF Accept, Form
  <2>5. negotiation'["seller"].terms = attempt'[x].terms
    <3>1. /\ negotiation' = negotiation
          /\ attempt'[x].terms = negotiation[Other(b)].terms
      BY <1>1, <2>1 DEF Accept, Form, rowVars, TxTypes
    <3>2. negotiation["seller"].terms = negotiation[Other(b)].terms
      <4>1. CASE b = "buyer"
        BY <4>1 DEF Other
      <4>2. CASE b = "seller"
        <5>1. Other("seller") = "buyer" /\ "buyer" \in DealBanks /\ Other("buyer") = "seller"
          BY DEF Other, DealBanks
        <5>2. \A d \in DealBanks : negotiation[d].status = "ONGOING" /\ negotiation[d].by = "buyer"
          <6>1. ASSUME NEW d \in DealBanks
                PROVE  negotiation[d].status = "ONGOING" /\ negotiation[d].by # "seller"
            BY <2>1, <4>2 DEF Accept, Acceptable, AgreeInv, DealRowsMatch, DealAccepted
          <6>2. \A d \in DealBanks : negotiation[d].by \in {"buyer", "seller"}
            BY DEF AgreeInv, BooksInv, DealInv, DealTypes, OfferTypes, Negotiations, DealBanks
          <6> QED BY <6>1, <6>2
        <5> QED BY <1>1, <4>2, <5>1, <5>2 DEF AgreeInv, DealRowsMatch, Agreeing
      <4> QED BY <4>1, <4>2 DEF DealBanks
    <3> QED BY <3>1, <3>2
  <2>6. ~InOrder(x)'
    BY <1>1, <2>2, InOrderSteps
  <2> QED BY <2>3, <2>4, <2>5, <2>6 DEF LiveAccept
<1>5. CASE ~Forming(x)
  <2>1. LiveAccept(x) /\ IsAccept(x) /\ Live(x) /\ attempt'[x] = attempt[x]
    BY <1>3, <1>5 DEF AgreeInv, AgreementMatches
  <2>2. UnderWay("accept")
    BY <2>1 DEF UnderWay
  <2>3. \A y \in Attempts : IsAccept(y)' /\ Live(y)' => y = x
    <3>1. ASSUME NEW y \in Attempts, IsAccept(y)', Live(y)' PROVE y = x
      <4>1. ~Forming(y)
        BY <1>2, <2>2, <3>1, CalmSteps
      <4> QED BY <1>3, <2>1, <3>1, <4>1 DEF LiveAccept
    <3> QED BY <3>1
  <2>4. ASSUME NEW b \in DealBanks, contract'[b] # Nothing PROVE dealRecord'[b][x] = "COMMITTED"
    <3>1. CASE contract[b] # Nothing
      BY <1>1, <2>1, <3>1, CommitStays DEF LiveAccept
    <3>2. CASE contract[b] = Nothing
      <4>1. PICK y \in Attempts : Deliver(b, y) /\ MakeContract(b, y)
        BY <2>4, <3>2, ContractKept DEF AgreeInv, BooksInv
      <4>2. IsAccept(y)
        BY <4>1 DEF MakeContract
      <4>3. Live(y) /\ dealRecord'[b][y] = "COMMITTED"
        BY <4>1, <4>2, MadeBy
      <4> QED BY <2>1, <4>2, <4>3 DEF LiveAccept
    <3> QED BY <3>1, <3>2
  <2>5. negotiation'["seller"].terms = attempt'[x].terms
    <3>1. negotiation'["seller"].terms = negotiation["seller"].terms
      BY <1>1, <2>2, RowSteps, CalmSteps DEF rowVars
    <3> QED BY <2>1, <3>1 DEF LiveAccept
  <2>6. ASSUME InOrder(x)' PROVE reservation' = [status |-> "ACTIVE", amount |-> attempt[x].terms]
    <3>1. CASE PrepareAsset("seller", x) /\ stage'["seller"][x] = "confirm"
      <4>1. contract["seller"] = Nothing /\ ReserveShares(x)
        <5>1. ~ GoStage("seller", x, "undo")
          BY <1>1, <3>1, GoEffect DEF Stages
        <5> QED BY <2>1, <3>1, <5>1 DEF PrepareAsset
      <4>2. reservation.status # "CONSUMED" /\ reservation \in Reservations
        BY <4>1 DEF AgreeInv, BooksInv, ConsumedOfContract, DealInv, DealTypes, AssetTypes
      <4> QED BY <4>1, <4>2 DEF ReserveShares, ReserveAgain, Reservations
    <3>2. CASE InOrder(x)
      <4>1. reservation = [status |-> "ACTIVE", amount |-> attempt[x].terms]
        BY <2>1, <3>2 DEF LiveAccept
      <4>2. contract["seller"] = Nothing
        <5>1. ~ (stage["seller"][x] = "confirm" /\ dealRecord["seller"][x] = "COMMITTED")
          BY <1>1, AtOneBank
        <5> QED BY <1>1, <2>1, <3>2, <5>1 DEF LiveAccept, InOrder, Ready
      <4>3. ~ExpireContract
        BY <4>2 DEF ExpireContract, Nothing
      <4>4. ASSUME NEW y \in Attempts, IsAccept(y), RollsBack("seller", y) PROVE FALSE
        BY <1>1, <2>1, <2>6, <4>4, RollbackEnds DEF LiveAccept
      <4>5. ASSUME NEW y \in Attempts, stage["seller"][y] = "deliver", IsExercise(y) PROVE FALSE
        BY <1>1, <4>2, <4>5, DeliversReady
           DEF Late, AgreeInv, BooksInv, ExercisesContract, ExercisesOf
      <4> QED BY <1>1, <4>1, <4>3, <4>4, <4>5, ReservedSteps
    <3> QED BY <1>1, <2>6, <3>1, <3>2, InOrderSteps
  <2> QED BY <2>1, <2>3, <2>4, <2>5, <2>6 DEF LiveAccept
<1> QED BY <1>4, <1>5

LEMMA CommittedAcceptKept ==
    ASSUME DealAssumption, AgreeInv, DealCalm, [DealNext]_dealVars,
           NEW b \in DealBanks, NEW x \in Attempts
    PROVE  CommittedAccept(b, x)'
<1> SUFFICES ASSUME IsAccept(x)', dealRecord'[b][x] = "COMMITTED"
             PROVE  contract'[b] # Nothing /\ contract'[b].terms = attempt'[x].terms
  BY DEF CommittedAccept
<1>1. DealInv /\ ExercisesContract
  BY DEF AgreeInv, BooksInv
<1>2. dealRecord[b][x] = "COMMITTED" \/ Deliver(b, x)
  BY <1>1, RecordSteps
<1>3. attempt[x] # NoAttempt
  BY <1>1, <1>2, AtOneBank DEF Deliver, InStage
<1>4. attempt'[x] = attempt[x] /\ IsAccept(x)
  BY <1>1, <1>3, AttemptKept DEF IsAccept
<1>5. CASE dealRecord[b][x] = "COMMITTED"
  <2>1. contract[b] # Nothing /\ contract[b].terms = attempt[x].terms
    BY <1>4, <1>5 DEF AgreeInv, AgreementMatches, CommittedAccept
  <2> QED BY <1>1, <1>4, <2>1, ContractKept
<1>6. CASE Deliver(b, x)
  BY <1>4, <1>6, MadeBy
<1> QED BY <1>2, <1>5, <1>6

\* The attempt that committed in one bank is committed in the other one, or can be.
LEMMA OtherCommitted ==
    ASSUME AgreeInv, DealCalm, NEW b \in DealBanks, NEW x \in Attempts,
           IsAccept(x), stage[b][x] = "deliver", contract[b] = Nothing
    PROVE  IF contract[Other(b)] # Nothing
           THEN contract[Other(b)].terms = attempt[x].terms
           ELSE dealRecord[Other(b)][x] = "PREPARED"
<1>1. Other(b) \in DealBanks /\ Other(Other(b)) = b
  BY BanksOther
<1>2. LiveAccept(x) /\ Live(x) /\ CommittedAccept(Other(b), x)
  BY <1>1 DEF AgreeInv, AgreementMatches, Live
<1>3. CASE contract[Other(b)] # Nothing
  BY <1>1, <1>2, <1>3 DEF LiveAccept, CommittedAccept
<1>4. CASE contract[Other(b)] = Nothing
  <2>1. dealRecord[Other(b)][x] # "COMMITTED"
    BY <1>2, <1>4 DEF CommittedAccept
  <2>2. PICK c, p \in DealBanks : c = Coordinator(x) /\ p = Participant(x) /\ DealBanks = {c, p}
                                  /\ p = Other(c) /\ c # p
    BY BothBanks DEF AgreeInv, BooksInv, DealInv, DealTypes
  <2>3. Phases(x, c, p)
    BY <2>2 DEF AgreeInv, BooksInv, DealInv, Protocol
  <2>4. CASE b = c
    <3>1. Other(b) = p /\ vote[x] = "YES" /\ dealRecord[c][x] = "PREPARED"
      BY <2>2, <2>3, <2>4 DEF Phases, Late
    <3> QED BY <1>4, <2>1, <2>3, <3>1 DEF Phases
  <2>5. CASE b = p
    <3>1. Other(b) = c /\ dealRecord[c][x] = "COMMITTED"
      BY <1>1, <2>2, <2>3, <2>5, BanksOther DEF Phases, Late
    <3> QED BY <2>1, <3>1
  <2> QED BY <2>2, <2>4, <2>5
<1> QED BY <1>3, <1>4

\* An attempt that one bank has committed stays prepared in the other one.
LEMMA CompletesKept ==
    ASSUME DealInv, [DealNext]_dealVars, NEW b \in DealBanks, NEW x \in Attempts,
           IsAccept(x), dealRecord[b][x] = "COMMITTED", dealRecord[Other(b)][x] = "PREPARED",
           ~Deliver(Other(b), x)
    PROVE  Completes("accept", b)'
<1>1. PICK c, p \in DealBanks : c = Coordinator(x) /\ p = Participant(x) /\ DealBanks = {c, p}
                                /\ p = Other(c) /\ c # p
  BY BothBanks DEF DealInv, DealTypes
<1>2. Phases(x, c, p)
  BY <1>1 DEF DealInv, Protocol
<1>3. b = c /\ Other(b) = p
  BY <1>1, <1>2, BanksOther DEF Phases
<1>4. ~VoteNo(p, x) /\ ~ConfirmPrepared(p, x)
  BY <1>2, <1>3 DEF Phases, Early, VoteNo, ConfirmPrepared, InStage
<1>5. ~RollsBack(p, x)
  BY <1>1, <1>2, <1>3 DEF Phases, RollsBack
<1>6. attempt'[x] = attempt[x] /\ attempt[x] # NoAttempt
  BY AttemptKept DEF IsAccept, NoAttempt
<1>7. ~Forming(x)
  BY <1>6 DEF Forming, Exercise, Accept, Form
<1>8. dealRecord'[p][x] = "PREPARED"
  BY <1>3, <1>4, <1>5, <1>7, RecordSteps
<1>9. dealRecord'[b][x] = "COMMITTED"
  BY CommitStays
<1> QED BY <1>3, <1>6, <1>8, <1>9 DEF Completes, IsAccept

LEMMA PaidKept ==
    ASSUME DealAssumption, AgreeInv, DealCalm, [DealNext]_dealVars, NEW b \in DealBanks
    PROVE  Paid(b)'
<1> SUFFICES ASSUME contract'[b] # Nothing
             PROVE  /\ PaidFor("accept", b, contract[b].terms)'
                    /\ \/ /\ contract'[Other(b)] # Nothing
                          /\ contract'[Other(b)].terms = contract'[b].terms
                       \/ contract'[Other(b)] = Nothing /\ Completes("accept", b)'
  BY DEF Paid
<1>1. PICK o \in DealBanks : o = Other(b) /\ b = Other(o) /\ o # b
  BY BanksOther
<1>2. DealInv /\ ExercisesContract /\ "accept" \in Kinds
  BY DEF AgreeInv, BooksInv, Kinds
<1>3. /\ contract[b] # Nothing =>
           contract'[b] # Nothing /\ contract'[b].terms = contract[b].terms
      /\ contract[o] # Nothing =>
           contract'[o] # Nothing /\ contract'[o].terms = contract[o].terms
  BY <1>2, ContractKept
<1>4. ASSUME NEW d \in DealBanks, contract[d] = Nothing, contract'[d] # Nothing
      PROVE  \E x \in Attempts : Deliver(d, x) /\ IsAccept(x) /\ stage[d][x] = "deliver"
  BY <1>2, <1>4, ContractKept DEF MakeContract, IsAccept, Deliver, InStage
<1>5. CASE contract[b] = Nothing
  <2>1. PICK x \in Attempts : Deliver(b, x) /\ IsAccept(x) /\ stage[b][x] = "deliver"
    BY <1>4, <1>5
  <2>2. /\ contract'[b].terms = attempt[x].terms /\ contract'[o] = contract[o]
        /\ PaidFor("accept", b, attempt[x].terms)' /\ dealRecord'[b][x] = "COMMITTED"
        /\ attempt' = attempt
    BY <1>1, <2>1, MadeBy
  <2>3. PaidFor("accept", b, contract[b].terms)'
    BY <2>2 DEF PaidFor
  <2>4. CASE contract[o] # Nothing
    <3>1. contract[o].terms = attempt[x].terms
      BY <1>1, <1>5, <2>1, <2>4, OtherCommitted
    <3> QED BY <1>1, <2>2, <2>3, <2>4, <3>1
  <2>5. CASE contract[o] = Nothing
    <3>1. dealRecord[o][x] = "PREPARED"
      BY <1>1, <1>5, <2>1, <2>5, OtherCommitted
    <3>2. dealRecord'[o][x] = "PREPARED"
      <4>1. Save(b, x, "COMMITTED") /\ "COMMITTED" \in DealStates
        BY <2>1 DEF Deliver, DealStates, Statuses
      <4> QED BY <1>1, <1>2, <3>1, <4>1, SaveEffect DEF DealInv, DealTypes
    <3>3. Completes("accept", b)'
      BY <1>1, <2>1, <2>2, <3>2 DEF Completes, IsAccept
    <3> QED BY <1>1, <2>2, <2>3, <2>5, <3>3
  <2> QED BY <2>4, <2>5
<1>6. CASE contract[b] # Nothing
  <2>1. /\ PaidFor("accept", b, contract[b].terms)
        /\ \/ contract[o] # Nothing /\ contract[o].terms = contract[b].terms
           \/ contract[o] = Nothing /\ Completes("accept", b)
    BY <1>1, <1>6 DEF AgreeInv, AgreementMatches, Paid
  <2>2. PaidFor("accept", b, contract[b].terms)'
    <3>1. /\ dealPosting'["accept"][b].status = "COMMITTED"
          /\ dealPosting'["accept"][b].amount = contract[b].terms
      BY <1>2, <2>1, CashKept DEF PaidFor
    <3> QED BY <1>3, <1>6, <3>1 DEF PaidFor
  <2>3. CASE contract[o] # Nothing
    BY <1>1, <1>3, <1>6, <2>1, <2>2, <2>3
  <2>4. CASE contract[o] = Nothing /\ contract'[o] # Nothing
    <3>1. PICK x \in Attempts : Deliver(o, x) /\ IsAccept(x) /\ stage[o][x] = "deliver"
      BY <1>4, <2>4
    <3>2. contract'[o].terms = attempt[x].terms
      BY <3>1, MadeBy
    <3>3. contract[b].terms = attempt[x].terms
      BY <1>1, <1>6, <2>4, <3>1, OtherCommitted
    <3> QED BY <1>1, <1>3, <1>6, <2>2, <2>4, <3>2, <3>3
  <2>5. CASE contract[o] = Nothing /\ contract'[o] = Nothing
    <3>1. PICK x \in Attempts : /\ IsAccept(x) /\ dealRecord[b][x] = "COMMITTED"
                                /\ dealRecord[o][x] = "PREPARED"
      BY <1>1, <2>1, <2>5 DEF Completes, IsAccept
    <3>2. ~Deliver(o, x)
      BY <2>5, <3>1, MadeBy
    <3> QED BY <1>1, <1>2, <2>2, <2>5, <3>1, <3>2, CompletesKept
  <2> QED BY <2>3, <2>4, <2>5
<1> QED BY <1>5, <1>6

LEMMA CoveredKept ==
    ASSUME DealAssumption, AgreeInv, DealCalm, [DealNext]_dealVars
    PROVE  Covered'
<1> SUFFICES ASSUME contract'["seller"].status = "ACTIVE", ~due'
             PROVE  \/ reservation' = [status |-> "ACTIVE", amount |-> contract'["seller"].terms]
                    \/ reservation'.status = "CONSUMED"
  BY DEF Covered
<1>1. DealInv /\ ExercisesContract /\ "seller" \in DealBanks /\ reservation \in Reservations
  BY DEF AgreeInv, BooksInv, DealInv, DealTypes, AssetTypes, DealBanks
<1>2. CASE contract["seller"] = Nothing
  <2>1. PICK x \in Attempts : Deliver("seller", x) /\ MakeContract("seller", x)
    BY <1>1, <1>2, ContractKept DEF Nothing
  <2>2. IsAccept(x) /\ stage["seller"][x] = "deliver" /\ UNCHANGED reservation
    BY <2>1 DEF MakeContract, Deliver, InStage, IsAccept, MoveShares
  <2>3. Live(x) /\ contract'["seller"].terms = attempt[x].terms
    BY <1>1, <2>1, <2>2, MadeBy
  <2>4. InOrder(x)
    <3>1. stage["seller"][x] \in Late
      BY <2>2 DEF Late
    <3> QED BY <1>1, <3>1, AtOneBank, DeliversReady DEF InOrder
  <2>5. reservation = [status |-> "ACTIVE", amount |-> attempt[x].terms]
    BY <2>2, <2>3, <2>4 DEF AgreeInv, AgreementMatches, LiveAccept
  <2> QED BY <2>2, <2>3, <2>5
<1>3. CASE contract["seller"] # Nothing
  <2>1. contract'["seller"].terms = contract["seller"].terms
    BY <1>1, <1>3, ContractKept
  <2>2. contract["seller"].status = "ACTIVE"
    <3>1. contract["seller"] \in LooseContracts
      BY <1>1 DEF DealInv, DealTypes, OfferTypes
    <3>2. ~ \E x \in Attempts : MakeContract("seller", x)
      BY <1>3 DEF MakeContract
    <3>3. ASSUME NEW s \in {"EXERCISED", "EXPIRED"},
                 contract'["seller"] = [contract["seller"] EXCEPT !.status = s]
          PROVE  FALSE
      BY <3>1, <3>3 DEF LooseContracts, Nothing
    <3> QED BY <1>1, <3>2, <3>3, ContractSteps
  <2>3. ~due
    <3>1. due \in BOOLEAN
      BY <1>1 DEF DealInv, DealTypes, HistoryTypes
    <3>2. UNCHANGED due \/ due' = TRUE
      <4>1. CASE UNCHANGED dealVars
        BY <4>1 DEF dealVars
      <4>2. CASE SettlementPasses
        BY <4>2 DEF SettlementPasses
      <4> QED BY <4>1, <4>2, StepKinds, QuietSteps
    <3> QED BY <3>1, <3>2
  <2>4. \/ reservation = [status |-> "ACTIVE", amount |-> contract["seller"].terms]
        \/ reservation.status = "CONSUMED"
    BY <2>2, <2>3 DEF AgreeInv, AgreementMatches, Covered
  <2>5. ~ExpireContract
    BY <2>3 DEF ExpireContract
  <2>6. ASSUME NEW y \in Attempts, IsAccept(y), RollsBack("seller", y) PROVE FALSE
    <3>1. Live(y) /\ dealRecord["seller"][y] # "COMMITTED"
      BY <1>1, <2>6, RollbackEnds
    <3> QED BY <1>1, <1>3, <2>6, <3>1 DEF AgreeInv, AgreementMatches, LiveAccept
  <2>7. reservation.status \in {"ACTIVE", "CONSUMED"}
    BY <2>4
  <2>8. reservation' = reservation \/ reservation' = [reservation EXCEPT !.status = "CONSUMED"]
    BY <1>1, <2>5, <2>6, <2>7, ReservedSteps
  <2>9. reservation' = reservation \/ reservation'.status = "CONSUMED"
    BY <1>1, <2>8 DEF Reservations
  <2> QED BY <2>1, <2>4, <2>9
<1> QED BY <1>2, <1>3

LEMMA AgreeStep ==
    ASSUME DealAssumption, AgreeInv, [DealNext]_dealVars
    PROVE  AgreeInv'
<1>1. BooksInv'
  BY BooksStep DEF AgreeInv
<1>2. DealRowsMatch'
  BY RowsKept DEF AgreeInv
<1>3. ASSUME DealCalm'
      PROVE  /\ \A x \in Attempts : LiveAccept(x)'
             /\ \A b \in DealBanks, x \in Attempts : CommittedAccept(b, x)'
             /\ \A b \in DealBanks : Paid(b)'
             /\ Covered'
  <2>1. DealCalm
    BY <1>3, CalmSteps
  <2> QED BY <1>3, <2>1, LiveAcceptKept, CommittedAcceptKept, PaidKept, CoveredKept
<1> QED BY <1>1, <1>2, <1>3 DEF AgreeInv, AgreementMatches

LEMMA AgreeStart ==
    ASSUME DealAssumption, DealInit
    PROVE  AgreeInv
<1>1. PICK t \in Terms : Offered(t) \/ Agreed(t)
  BY DEF DealInit
<1>2. BooksInv
  BY BooksStart
<1>3. DealRowsMatch
  BY <1>1 DEF DealInit, Offered, Agreed, DealRowsMatch, Agreeing, DealAccepted, CreateFromPeer,
              CreateForLocalBuyer, Proposed, Nothing, NoNegotiation, DealBanks, Other
<1>4. \A x \in Attempts : ~IsAccept(x)
  BY DEF DealInit, IsAccept, NoAttempt
<1>5. \A x \in Attempts : LiveAccept(x)
  BY <1>4 DEF LiveAccept
<1>6. \A b \in DealBanks, x \in Attempts : CommittedAccept(b, x)
  BY <1>4 DEF CommittedAccept
<1>7. Covered
  BY <1>1 DEF Offered, Agreed, Covered, Nothing, DealBanks
<1>8. \A b \in DealBanks : Paid(b)
  BY <1>1, BanksOther DEF Offered, Agreed, Paid, PaidFor, Nothing, Kinds
<1> QED BY <1>2, <1>3, <1>5, <1>6, <1>7, <1>8 DEF AgreeInv, AgreementMatches

LEMMA AlwaysAgree == ASSUME DealAssumption PROVE DealSpec => []AgreeInv
<1>1. DealInit => AgreeInv
  BY AgreeStart
<1>2. AgreeInv /\ [DealNext]_dealVars => AgreeInv'
  BY AgreeStep
<1> QED BY <1>1, <1>2, PTL DEF DealSpec

\* Unless attempts to agree overlap with each other or with a counter-offer, whatever is lost,
\* repeated or given up: a contract that one bank has made the other bank has made by the same
\* terms with the premium paid on both sides, or can still make, and its shares are reserved.
THEOREM ContractsAlwaysAgree == DealAssumption => (DealSpec => []ContractsAgree)
<1> SUFFICES ASSUME DealAssumption PROVE DealSpec => []ContractsAgree
  OBVIOUS
<1>1. AgreeInv => ContractsAgree
  <2> SUFFICES ASSUME AgreeInv, DealCalm PROVE ContractsAgree
    BY DEF ContractsAgree, DealCalm
  <2>1. Covered /\ \A b \in DealBanks : Paid(b)
    BY DEF AgreeInv, AgreementMatches
  <2>2. ASSUME NEW b \in DealBanks, contract[b] # Nothing
        PROVE  /\ PaidFor("accept", b, contract[b].terms)
               /\ \/ /\ contract[Other(b)].terms = contract[b].terms
                     /\ PaidFor("accept", Other(b), contract[b].terms)
                  \/ contract[Other(b)] = Nothing /\ Completes("accept", b)
    <3>1. Other(b) \in DealBanks
      BY BanksOther
    <3> QED BY <2>1, <2>2, <3>1 DEF Paid
  <2> QED BY <2>1, <2>2 DEF ContractsAgree
<1> QED BY <1>1, AlwaysAgree, PTL

-----------------------------------------------------------------------------
(* The shares are delivered once *)

\* A prepared exercise of the seller's bank that can still be committed there.
BackedBy(x) ==
    /\ IsExercise(x) /\ dealRecord["seller"][x] = "PREPARED" /\ vote[x] = "YES"
    /\ dealRecord["buyer"][x] \in {"PREPARED", "COMMITTED"}

LiveExercise(x) ==
    IsExercise(x) =>
        /\ InOrder(x) => /\ reservation.status \in {"ACTIVE", "CONSUMED"}
                         /\ reservation.amount = contract["seller"].terms
        /\ dealRecord["buyer"][x] = "COMMITTED" => credit = attempt[x].terms
CreditMatches ==
    /\ reservation.status = "CONSUMED" => credit = reservation.amount
    /\ credit # 0 =>
         /\ contract["buyer"] # Nothing /\ credit = contract["buyer"].terms
         /\ PaidFor("exercise", "buyer", credit)
         /\ \/ reservation.status = "CONSUMED" /\ PaidFor("exercise", "seller", credit)
            \/ reservation.status = "ACTIVE" /\ \E x \in Attempts : BackedBy(x)
DeliveryMatches == raced = {} => CreditMatches /\ \A x \in Attempts : LiveExercise(x)
DeliverInv == AgreeInv /\ DeliveryMatches

\* What would take the shares away from an exercise is remembered.
LEMMA UnracedSteps ==
    ASSUME [DealNext]_dealVars, raced' = {}
    PROVE  /\ raced = {}
           /\ ExpireContract => ~ \E x \in Attempts : Open("exercise", x)
           /\ \A x \in Attempts : GiveUpNewTx(x) /\ Cash(Coordinator(x), x).status = "COMMITTED" =>
                                    dealRecord[Coordinator(x)][x] = "COMMITTED"
<1>1. raced = {}
  <2>1. CASE UNCHANGED dealVars \/ SettlementPasses
    BY <2>1, QuietSteps
  <2>2. CASE ExpireContract
    BY <2>2 DEF ExpireContract
  <2>3. ASSUME NEW b \in DealBanks, RowStep(b) PROVE raced = {}
    BY <2>3 DEF RowStep, Counter, Withdraw, SaveRow, LoseRow, FindOngoing, ExpireNegotiation, Races
  <2>4. ASSUME NEW x \in Attempts, Forming(x) PROVE raced = {}
    BY <2>4 DEF Forming, Exercise, Accept, Form, Races
  <2>5. ASSUME NEW x \in Attempts, Rolling(x) PROVE raced = {}
    BY <2>5 DEF Rolling, TakeNo, GiveUpNewTx, DeliverRollback
  <2>6. CASE \/ \E x \in Attempts :
                  \/ EnqueueDeal(x) \/ GiveUpFollowUp(x)
                  \/ DeliverNewTx(x) \/ TakeYes(x) \/ DeliverCommit(x)
             \/ \E b \in DealBanks, x \in Attempts : Process(b, x)
    BY <2>6, QuietSteps
  <2> QED BY <2>1, <2>2, <2>3, <2>4, <2>5, <2>6, StepKinds
<1> QED BY <1>1 DEF ExpireContract, GiveUpNewTx

\* The banks' contracts are one contract when they both have it.
LEMMA SameContract ==
    ASSUME AgreeInv, DealCalm, contract["buyer"] # Nothing, contract["seller"] # Nothing
    PROVE  contract["buyer"].terms = contract["seller"].terms
<1>1. "seller" \in DealBanks /\ Other("seller") = "buyer"
  BY DEF DealBanks, Other
<1> QED BY <1>1 DEF AgreeInv, AgreementMatches, Paid

\* The shares move by the terms of the contract, for the cash that has been paid.
LEMMA MovedFor ==
    ASSUME AgreeInv, NEW b \in DealBanks, NEW x \in Attempts, IsExercise(x),
           stage[b][x] = "deliver"
    PROVE  /\ contract["buyer"] # Nothing /\ attempt[x].terms = contract["buyer"].terms
           /\ attempt[x].terms \in Terms /\ attempt[x].by = "buyer"
           /\ PaidFor("exercise", b, attempt[x].terms)
           /\ dealRecord[b][x] = "PREPARED" /\ vote[x] = "YES"
           /\ b = "seller" => InOrder(x) /\ contract["seller"] # Nothing
                              /\ dealRecord["buyer"][x] = "COMMITTED"
           /\ b = "buyer" => dealRecord["seller"][x] = "PREPARED"
<1>1. DealInv /\ attempt[x] \in Transactions
  BY IsFormed DEF AgreeInv, BooksInv, DealInv, DealTypes, TxInv
<1>2. ExercisesOf(x)
  BY DEF AgreeInv, BooksInv, ExercisesContract
<1>3. dealRecord[b][x] = "PREPARED" /\ vote[x] = "YES"
      /\ dealRecord[Coordinator(x)][x] \in {"PREPARED", "COMMITTED"}
  BY <1>1, AtOneBank DEF Late
<1>4. Coordinator(x) = "buyer" /\ Participant(x) = "seller"
  BY <1>2 DEF ExercisesOf, Coordinator, Participant, Other
<1>5. Phases(x, "buyer", "seller")
  BY <1>1, <1>4 DEF DealInv, Protocol
<1>6. PaidFor("exercise", b, attempt[x].terms)
  BY <1>3 DEF AgreeInv, BooksInv, CashMatches, Cash, Known, PaidFor, IsExercise
<1>7. b = "seller" => InOrder(x) /\ dealRecord["buyer"][x] = "COMMITTED"
  BY <1>3, <1>4, <1>5 DEF InOrder, Ready, Phases, Late
<1>8. b = "seller" => contract["seller"] # Nothing
  BY <1>2, <1>7 DEF ExercisesOf, InOrder
<1>9. b = "buyer" => dealRecord["seller"][x] = "PREPARED"
  BY <1>3, <1>5 DEF Phases
<1> QED BY <1>1, <1>2, <1>3, <1>6, <1>7, <1>8, <1>9 DEF ExercisesOf, Transactions

\* The credit is written by an exercise of the buyer's bank only.
LEMMA CreditSteps ==
    ASSUME [DealNext]_dealVars
    PROVE  \/ credit' = credit
           \/ \E x \in Attempts :
                /\ stage["buyer"][x] = "deliver" /\ IsExercise(x) /\ CreditBuyer(x)
                /\ UNCHANGED <<reservation, shares>>
                /\ Deliver("buyer", x) \/ DeliverFails("buyer", x)
<1>1. CASE UNCHANGED credit
  BY <1>1
<1>2. CASE UNCHANGED dealVars \/ SettlementPasses \/ ExpireContract
             \/ \E b \in DealBanks : RowStep(b)
  BY <1>2, QuietSteps DEF assetVars
<1>3. CASE \E x \in Attempts :
             \/ Forming(x) \/ Rolling(x) \/ EnqueueDeal(x) \/ GiveUpFollowUp(x)
             \/ DeliverNewTx(x) \/ TakeYes(x) \/ DeliverCommit(x)
  BY <1>3, QuietSteps DEF assetVars
<1>4. ASSUME NEW b \in DealBanks, NEW x \in Attempts, Process(b, x)
      PROVE  \/ credit' = credit
             \/ /\ stage["buyer"][x] = "deliver" /\ IsExercise(x) /\ CreditBuyer(x)
                /\ UNCHANGED <<reservation, shares>>
                /\ Deliver("buyer", x) \/ DeliverFails("buyer", x)
  <2>1. CASE Deliver(b, x) \/ DeliverFails(b, x)
    <3>1. stage[b][x] = "deliver" /\ (credit' = credit \/ MoveShares(b, x))
      BY <2>1 DEF Deliver, DeliverFails, InStage
    <3>2. MoveShares(b, x) => \/ credit' = credit
                              \/ /\ b = "buyer" /\ IsExercise(x) /\ CreditBuyer(x)
                                 /\ UNCHANGED <<reservation, shares>>
      BY DEF MoveShares, IsExercise, DealBanks
    <3> QED BY <2>1, <3>1, <3>2
  <2>2. CASE PrepareCash(b, x) \/ PrepareAsset(b, x) \/ VoteNo(b, x) \/ ConfirmPrepared(b, x)
             \/ CommitCash(b, x) \/ HandlerCrash(b, x)
    BY <1>1, <2>2 DEF PrepareCash, PrepareAsset, VoteNo, ConfirmPrepared, CommitCash, HandlerCrash,
                assetVars
  <2> QED BY <1>4, <2>1, <2>2 DEF Process
<1> QED BY <1>2, <1>3, <1>4, StepKinds

LEMMA VoteStays ==
    ASSUME DealInv, [DealNext]_dealVars, NEW x \in Attempts, vote[x] = "YES"
    PROVE  vote'[x] = "YES"
<1>1. TxTypes
  BY DEF DealInv, DealTypes
<1>2. CASE UNCHANGED vote
  BY <1>2
<1>3. CASE UNCHANGED dealVars \/ SettlementPasses \/ ExpireContract
             \/ \E b \in DealBanks : RowStep(b)
  BY <1>2, <1>3, QuietSteps DEF txVars
<1>4. CASE \E y \in Attempts :
             \/ Forming(y) \/ Rolling(y) \/ EnqueueDeal(y) \/ GiveUpFollowUp(y)
             \/ TakeYes(y) \/ DeliverCommit(y)
  BY <1>2, <1>4, QuietSteps DEF EnqueueDeal, GiveUpFollowUp, TakeYes, DeliverCommit
<1>5. ASSUME NEW y \in Attempts, DeliverNewTx(y) PROVE vote'[x] = "YES"
  BY <1>1, <1>5, VoteEffect DEF DeliverNewTx
<1>6. ASSUME NEW b \in DealBanks, NEW y \in Attempts, Process(b, y) PROVE vote'[x] = "YES"
  <2>1. CASE VoteNo(b, y) \/ ConfirmPrepared(b, y)
    <3>1. stage[b][y] \in Early /\ \E v \in {"YES", "NO"} : AnswerNewTx(b, y, v)
      BY <2>1 DEF VoteNo, ConfirmPrepared, InStage, Early
    <3>2. y # x
      BY <3>1, AtOneBank
    <3> QED BY <1>1, <3>1, <3>2, VoteEffect DEF AnswerNewTx
  <2>2. CASE PrepareCash(b, y) \/ PrepareAsset(b, y) \/ CommitCash(b, y) \/ Deliver(b, y)
             \/ DeliverFails(b, y) \/ HandlerCrash(b, y)
    BY <1>2, <2>2 DEF PrepareCash, PrepareAsset, CommitCash, Deliver, DeliverFails, HandlerCrash
  <2> QED BY <1>6, <2>1, <2>2 DEF Process
<1> QED BY <1>3, <1>4, <1>5, <1>6, StepKinds

\* While an exercise is in order, the shares of the contract are reserved or consumed.
LEMMA OrderedKept ==
    ASSUME AgreeInv, [DealNext]_dealVars, raced' = {}, NEW x \in Attempts,
           IsExercise(x), InOrder(x), reservation.status \in {"ACTIVE", "CONSUMED"}
    PROVE  /\ contract["seller"] # Nothing
           /\ \/ reservation' = reservation
              \/ /\ reservation.status = "ACTIVE"
                 /\ reservation' = [reservation EXCEPT !.status = "CONSUMED"]
                 /\ \E y \in Attempts : stage["seller"][y] = "deliver" /\ IsExercise(y)
<1>1. DealInv /\ DealCalm /\ "seller" \in DealBanks
  BY UnracedSteps DEF AgreeInv, BooksInv, DealCalm, DealBanks
<1>2. contract["seller"] # Nothing
  BY DEF AgreeInv, BooksInv, ExercisesContract, ExercisesOf, InOrder
<1>3. Open("exercise", x)
  <2>1. stage["seller"][x] = "confirm" => dealRecord["seller"][x] = "PREPARING"
    BY <1>1, AtOneBank DEF InOrder, Early
  <2> QED BY <2>1 DEF Open, InOrder, Ready, IsExercise
<1>4. ~ExpireContract
  BY <1>3, UnracedSteps
<1>5. ASSUME NEW y \in Attempts, IsAccept(y), RollsBack("seller", y) PROVE FALSE
  <2>1. Live(y) /\ dealRecord["seller"][y] # "COMMITTED"
    BY <1>1, <1>5, RollbackEnds
  <2> QED BY <1>1, <1>2, <1>5, <2>1 DEF AgreeInv, AgreementMatches, LiveAccept
<1> QED BY <1>1, <1>2, <1>4, <1>5, ReservedSteps

LEMMA CreditKept ==
    ASSUME DeliverInv, raced = {}, [DealNext]_dealVars, credit # 0
    PROVE  credit' = credit
<1>1. credit = contract["buyer"].terms
  BY DEF DeliverInv, DeliveryMatches, CreditMatches
<1>2. ASSUME NEW x \in Attempts, stage["buyer"][x] = "deliver", IsExercise(x), CreditBuyer(x)
      PROVE  credit' = credit
  <2>1. attempt[x].terms = contract["buyer"].terms
    BY <1>2 DEF DeliverInv, AgreeInv, BooksInv, ExercisesContract, ExercisesOf
  <2> QED BY <1>1, <1>2, <2>1 DEF CreditBuyer
<1> QED BY <1>2, CreditSteps

LEMMA LiveExerciseKept ==
    ASSUME DealAssumption, DeliverInv, [DealNext]_dealVars, raced' = {}, NEW x \in Attempts
    PROVE  LiveExercise(x)'
<1> SUFFICES ASSUME IsExercise(x)' PROVE LiveExercise(x)'
  BY DEF LiveExercise
<1>1. /\ AgreeInv /\ BooksInv /\ DealInv /\ raced = {} /\ DealCalm
      /\ "buyer" \in DealBanks /\ "seller" \in DealBanks
  BY UnracedSteps DEF DeliverInv, AgreeInv, BooksInv, DealCalm, DealBanks
<1>2. CreditMatches /\ LiveExercise(x)
  BY <1>1 DEF DeliverInv, DeliveryMatches
<1>3. ASSUME InOrder(x)'
      PROVE  /\ reservation'.status \in {"ACTIVE", "CONSUMED"}
             /\ reservation'.amount = contract'["seller"].terms
  <2>1. attempt'[x] = attempt[x] /\ IsExercise(x)
    BY <1>1, <1>3, InOrderSteps DEF IsExercise
  <2>2. CASE InOrder(x)
    <3>1. /\ reservation.status \in {"ACTIVE", "CONSUMED"}
          /\ reservation.amount = contract["seller"].terms
      BY <1>2, <2>1, <2>2 DEF LiveExercise
    <3>2. /\ contract["seller"] # Nothing
          /\ \/ reservation' = reservation
             \/ reservation' = [reservation EXCEPT !.status = "CONSUMED"]
      BY <1>1, <2>1, <2>2, <3>1, OrderedKept
    <3>3. contract'["seller"].terms = contract["seller"].terms
      BY <1>1, <3>2, ContractKept DEF BooksInv
    <3>4. reservation \in Reservations
      BY <1>1 DEF DealInv, DealTypes, AssetTypes
    <3> QED BY <3>1, <3>2, <3>3, <3>4 DEF Reservations
  <2>3. CASE PrepareAsset("seller", x) /\ stage'["seller"][x] = "confirm"
    <3>1. contract["seller"].status = "ACTIVE" /\ ~due /\ UNCHANGED <<contract, reservation>>
      <4>1. ~ GoStage("seller", x, "undo")
        BY <1>1, <2>3, GoEffect DEF Stages, DealInv, DealTypes
      <4> QED BY <2>1, <2>3, <4>1 DEF PrepareAsset, IsExercise
    <3>2. \/ reservation = [status |-> "ACTIVE", amount |-> contract["seller"].terms]
          \/ reservation.status = "CONSUMED"
      BY <1>1, <3>1 DEF AgreeInv, AgreementMatches, Covered
    <3>3. CASE reservation.status = "CONSUMED"
      <4>1. credit = reservation.amount /\ reservation.amount # 0
        BY <1>1, <1>2, <3>3 DEF CreditMatches, BooksInv, SharesMatch
      <4>2. contract["buyer"] # Nothing /\ credit = contract["buyer"].terms
        BY <1>2, <4>1 DEF CreditMatches
      <4>3. contract["seller"] # Nothing
        BY <3>1 DEF Nothing
      <4> QED BY <1>1, <3>1, <3>3, <4>1, <4>2, <4>3, SameContract
    <3> QED BY <3>1, <3>2, <3>3
  <2> QED BY <1>1, <1>3, <2>2, <2>3, InOrderSteps
<1>4. ASSUME dealRecord'["buyer"][x] = "COMMITTED" PROVE credit' = attempt'[x].terms
  <2>1. dealRecord["buyer"][x] = "COMMITTED" \/ Deliver("buyer", x)
    BY <1>1, <1>4, RecordSteps
  <2>2. attempt[x] # NoAttempt
    BY <1>1, <2>1, AtOneBank DEF Deliver, InStage
  <2>3. attempt'[x] = attempt[x] /\ IsExercise(x)
    BY <1>1, <2>2, AttemptKept DEF IsExercise
  <2>4. CASE dealRecord["buyer"][x] = "COMMITTED"
    <3>1. credit = attempt[x].terms /\ attempt[x] \in Transactions
      BY <1>1, <1>2, <2>2, <2>3, <2>4 DEF LiveExercise, DealInv, DealTypes, TxTypes
    <3>2. credit # 0
      BY <3>1, TermsNumbers DEF Transactions
    <3> QED BY <1>1, <2>3, <3>1, <3>2, CreditKept
  <2>5. CASE Deliver("buyer", x)
    BY <2>3, <2>5 DEF Deliver, MakeContract, MoveShares, CreditBuyer, IsExercise
  <2> QED BY <2>1, <2>4, <2>5
<1> QED BY <1>3, <1>4 DEF LiveExercise

\* The exercise that the buyer's credit relies on stays prepared in the seller's bank until
\* it is committed there.
LEMMA BackedKept ==
    ASSUME DeliverInv, [DealNext]_dealVars, raced' = {}, credit # 0, NEW x \in Attempts,
           BackedBy(x), reservation.status = "ACTIVE", reservation' = reservation
    PROVE  BackedBy(x)'
<1>1. /\ BooksInv /\ DealInv /\ raced = {}
      /\ "buyer" \in DealBanks /\ "seller" \in DealBanks
  BY UnracedSteps DEF DeliverInv, AgreeInv, BooksInv, DealBanks
<1>2. Coordinator(x) = "buyer" /\ Participant(x) = "seller"
  BY <1>1 DEF BackedBy, BooksInv, ExercisesContract, ExercisesOf, Coordinator, Participant, Other
<1>3. Phases(x, "buyer", "seller")
  BY <1>1, <1>2 DEF DealInv, Protocol
<1>4. attempt'[x] = attempt[x] /\ attempt[x] # NoAttempt
  BY <1>1, AttemptKept DEF BackedBy, IsExercise, NoAttempt
<1>5. vote'[x] = "YES"
  BY <1>1, VoteStays DEF BackedBy
<1>6. ~Forming(x) /\ \A b \in DealBanks : ~VoteNo(b, x) /\ ~ConfirmPrepared(b, x)
  <2>1. ~Forming(x)
    BY <1>4 DEF Forming, Exercise, Accept, Form
  <2>2. \A b \in DealBanks : stage[b][x] \notin Early
    BY <1>1, AtOneBank DEF BackedBy
  <2> QED BY <2>1, <2>2 DEF VoteNo, ConfirmPrepared, InStage, Early
<1>7. dealRecord'["seller"][x] = "PREPARED"
  <2>1. ~RollsBack("seller", x)
    BY <1>2, <1>3 DEF RollsBack, Phases, BackedBy
  <2>2. ~Deliver("seller", x)
    <3>1. Deliver("seller", x) => Consume
      BY DEF Deliver, MakeContract, MoveShares, BackedBy, IsExercise
    <3>2. reservation \in Reservations
      BY <1>1 DEF DealInv, DealTypes, AssetTypes
    <3> QED BY <3>1, <3>2 DEF Consume, Reservations
  <2> QED BY <1>1, <1>6, <2>1, <2>2, RecordSteps DEF BackedBy
<1>8. dealRecord'["buyer"][x] \in {"PREPARED", "COMMITTED"}
  <2>1. ~RollsBack("buyer", x)
    <3>1. SUFFICES ASSUME RollsBack("buyer", x) PROVE FALSE
      OBVIOUS
    <3>2. dealRecord["buyer"][x] = "PREPARED"
      BY <3>1 DEF RollsBack, Rollback, BackedBy
    <3>3. ~TakeNo(x)
      BY DEF TakeNo, BackedBy
    <3>4. ~DeliverRollback(x)
      BY <1>3, <3>2 DEF DeliverRollback, Phases
    <3>5. Cash("buyer", x).status = "COMMITTED"
      BY <1>1 DEF DeliverInv, DeliveryMatches, CreditMatches, PaidFor, Cash, BackedBy, IsExercise
    <3>6. ~GiveUpNewTx(x)
      BY <1>2, <3>2, <3>5, UnracedSteps
    <3> QED BY <3>1, <3>3, <3>4, <3>6 DEF RollsBack, Rolling
  <2>2. ~(DeliverNewTx(x) /\ "buyer" = Participant(x))
    BY <1>2
  <2> QED BY <1>1, <1>6, <2>1, <2>2, RecordSteps DEF BackedBy
<1> QED BY <1>4, <1>5, <1>7, <1>8 DEF BackedBy, IsExercise

\* What has been paid for stays paid for.
LEMMA PaidStays ==
    ASSUME DealInv, [DealNext]_dealVars, NEW k \in Kinds, NEW b \in DealBanks, NEW t,
           PaidFor(k, b, t)
    PROVE  PaidFor(k, b, t)'
BY CashKept DEF PaidFor

LEMMA ConsumedKeeps ==
    ASSUME DealAssumption, DeliverInv, [DealNext]_dealVars, raced' = {},
           reservation'.status = "CONSUMED"
    PROVE  credit' = reservation'.amount
<1>1. /\ AgreeInv /\ BooksInv /\ DealInv /\ raced = {} /\ DealCalm /\ "seller" \in DealBanks
      /\ reservation \in Reservations
  BY UnracedSteps DEF DeliverInv, AgreeInv, BooksInv, DealInv, DealTypes, AssetTypes, DealCalm,
                      DealBanks
<1>2. CreditMatches /\ \A x \in Attempts : LiveExercise(x)
  BY <1>1 DEF DeliverInv, DeliveryMatches
<1>3. CASE reservation.status = "CONSUMED"
  <2>1. contract["seller"] # Nothing
    BY <1>1, <1>3 DEF BooksInv, ConsumedOfContract
  <2>2. ASSUME NEW y \in Attempts, IsAccept(y), RollsBack("seller", y) PROVE FALSE
    <3>1. Live(y) /\ dealRecord["seller"][y] # "COMMITTED"
      BY <1>1, <2>2, RollbackEnds
    <3> QED BY <1>1, <2>1, <2>2, <3>1 DEF AgreeInv, AgreementMatches, LiveAccept
  <2>3. reservation' = reservation
    BY <1>1, <1>3, <2>2, ReservedSteps
  <2>4. credit = reservation.amount /\ credit # 0
    BY <1>1, <1>2, <1>3 DEF CreditMatches, BooksInv, SharesMatch
  <2> QED BY <1>1, <2>3, <2>4, CreditKept
<1>4. CASE reservation.status # "CONSUMED"
  <2>1. PICK x \in Attempts : stage["seller"][x] = "deliver" /\ IsExercise(x) /\ Consume
    <3>1. ReleaseShares => reservation'.status # "CONSUMED"
      BY <1>1, <1>4 DEF ReleaseShares, Reservations
    <3>2. \A x \in Attempts : ReserveAgain(x) => reservation'.status # "CONSUMED"
      BY DEF ReserveAgain
    <3> QED BY <1>1, <1>4, <3>1, <3>2, ShareSteps DEF IsExercise
  <2>2. reservation' = [reservation EXCEPT !.status = "CONSUMED"]
    BY <1>4, <2>1 DEF Consume
  <2>3. /\ attempt[x].terms = contract["buyer"].terms /\ attempt[x].terms \in Terms
        /\ contract["buyer"] # Nothing /\ contract["seller"] # Nothing
        /\ InOrder(x) /\ dealRecord["buyer"][x] = "COMMITTED"
    BY <1>1, <2>1, MovedFor
  <2>4. credit = attempt[x].terms /\ reservation.amount = contract["seller"].terms
    BY <1>2, <2>1, <2>3 DEF LiveExercise
  <2>5. credit # 0
    BY <2>3, <2>4, TermsNumbers
  <2>6. credit' = credit /\ reservation'.amount = reservation.amount
    BY <1>1, <2>2, <2>5, CreditKept DEF Reservations
  <2> QED BY <1>1, <2>3, <2>4, <2>6, SameContract
<1> QED BY <1>3, <1>4

LEMMA CreditMatchesKept ==
    ASSUME DealAssumption, DeliverInv, [DealNext]_dealVars, raced' = {}
    PROVE  CreditMatches'
<1>1. /\ AgreeInv /\ BooksInv /\ DealInv /\ raced = {} /\ DealCalm
      /\ "buyer" \in DealBanks /\ "seller" \in DealBanks /\ "exercise" \in Kinds
      /\ reservation \in Reservations
  BY UnracedSteps DEF DeliverInv, AgreeInv, BooksInv, DealInv, DealTypes, AssetTypes, DealCalm,
                      DealBanks, Kinds
<1>2. CreditMatches /\ \A x \in Attempts : LiveExercise(x)
  BY <1>1 DEF DeliverInv, DeliveryMatches
<1> SUFFICES ASSUME credit' # 0
             PROVE  /\ contract'["buyer"] # Nothing /\ credit' = contract'["buyer"].terms
                    /\ PaidFor("exercise", "buyer", credit)'
                    /\ \/ reservation'.status = "CONSUMED" /\ PaidFor("exercise", "seller", credit)'
                       \/ reservation'.status = "ACTIVE" /\ \E x \in Attempts : BackedBy(x)'
  BY ConsumedKeeps DEF CreditMatches
<1>3. CASE credit = 0
  <2>1. PICK x \in Attempts :
          /\ stage["buyer"][x] = "deliver" /\ IsExercise(x) /\ CreditBuyer(x)
          /\ UNCHANGED <<reservation, shares>> /\ (Deliver("buyer", x) \/ DeliverFails("buyer", x))
    BY <1>3, CreditSteps
  <2>2. /\ contract["buyer"] # Nothing /\ attempt[x].terms = contract["buyer"].terms
        /\ attempt[x].by = "buyer" /\ PaidFor("exercise", "buyer", attempt[x].terms)
        /\ dealRecord["buyer"][x] = "PREPARED" /\ vote[x] = "YES"
        /\ dealRecord["seller"][x] = "PREPARED"
    BY <1>1, <2>1, MovedFor
  <2>3. credit' = attempt[x].terms
    BY <2>1 DEF CreditBuyer
  <2>4. contract'["buyer"] # Nothing /\ credit' = contract'["buyer"].terms
    BY <1>1, <2>2, <2>3, ContractKept DEF BooksInv
  <2>5. PaidFor("exercise", "buyer", credit)'
    <3>1. PaidFor("exercise", "buyer", attempt[x].terms)'
      <4>1. PICK t : t = attempt[x].terms
        OBVIOUS
      <4>2. PaidFor("exercise", "buyer", t)'
        BY <1>1, <2>2, <4>1, PaidStays
      <4>3. attempt' = attempt
        BY <2>1 DEF Deliver, DeliverFails
      <4> QED BY <4>1, <4>2, <4>3 DEF PaidFor
    <3>2. attempt' = attempt
      BY <2>1 DEF Deliver, DeliverFails
    <3> QED BY <2>3, <3>1, <3>2 DEF PaidFor
  <2>6. reservation'.status = "ACTIVE"
    <3>1. InOrder(x)
      BY <2>2 DEF InOrder, Ready, Coordinator
    <3>2. reservation.status \in {"ACTIVE", "CONSUMED"}
      BY <1>2, <2>1, <3>1 DEF LiveExercise
    <3>3. reservation.status # "CONSUMED"
      BY <1>1, <1>2, <1>3 DEF CreditMatches, BooksInv, SharesMatch
    <3> QED BY <2>1, <3>2, <3>3
  <2>7. BackedBy(x)'
    <3>1. attempt' = attempt
      BY <2>1 DEF Deliver, DeliverFails
    <3>2. vote'[x] = "YES"
      BY <1>1, <2>2, VoteStays
    <3>3. CASE DeliverFails("buyer", x)
      BY <2>1, <2>2, <3>1, <3>2, <3>3 DEF DeliverFails, BackedBy, IsExercise
    <3>4. CASE Deliver("buyer", x)
      <4>1. Save("buyer", x, "COMMITTED") /\ "COMMITTED" \in DealStates
        BY <3>4 DEF Deliver, DealStates, Statuses
      <4>2. dealRecord'["buyer"][x] = "COMMITTED"
            /\ dealRecord'["seller"][x] = dealRecord["seller"][x]
        BY <1>1, <4>1, SaveEffect DEF DealInv, DealTypes
      <4> QED BY <2>1, <2>2, <3>1, <3>2, <4>2 DEF BackedBy, IsExercise
    <3> QED BY <2>1, <3>3, <3>4
  <2> QED BY <2>4, <2>5, <2>6, <2>7
<1>4. CASE credit # 0
  <2>1. /\ contract["buyer"] # Nothing /\ credit = contract["buyer"].terms
        /\ PaidFor("exercise", "buyer", credit)
        /\ \/ reservation.status = "CONSUMED" /\ PaidFor("exercise", "seller", credit)
           \/ reservation.status = "ACTIVE" /\ \E x \in Attempts : BackedBy(x)
    BY <1>2, <1>4 DEF CreditMatches
  <2>2. credit' = credit
    BY <1>1, <1>4, CreditKept
  <2>3. contract'["buyer"] # Nothing /\ credit' = contract'["buyer"].terms
    BY <1>1, <2>1, <2>2, ContractKept DEF BooksInv
  <2>4. ASSUME NEW b \in DealBanks, PaidFor("exercise", b, credit)
        PROVE  PaidFor("exercise", b, credit)'
    <3>1. PICK t : t = credit
      OBVIOUS
    <3>2. PaidFor("exercise", b, t)'
      BY <1>1, <2>4, <3>1, PaidStays
    <3> QED BY <2>2, <3>1, <3>2 DEF PaidFor
  <2>5. CASE reservation.status = "CONSUMED" /\ PaidFor("exercise", "seller", credit)
    <3>1. contract["seller"] # Nothing
      BY <1>1, <2>5 DEF BooksInv, ConsumedOfContract
    <3>2. ASSUME NEW y \in Attempts, IsAccept(y), RollsBack("seller", y) PROVE FALSE
      <4>1. Live(y) /\ dealRecord["seller"][y] # "COMMITTED"
        BY <1>1, <3>2, RollbackEnds
      <4> QED BY <1>1, <3>1, <3>2, <4>1 DEF AgreeInv, AgreementMatches, LiveAccept
    <3>3. reservation' = reservation
      BY <1>1, <2>5, <3>2, ReservedSteps
    <3> QED BY <1>1, <2>1, <2>3, <2>4, <2>5, <3>3
  <2>6. ASSUME reservation.status = "ACTIVE", NEW x \in Attempts, BackedBy(x)
        PROVE  \/ reservation'.status = "CONSUMED" /\ PaidFor("exercise", "seller", credit)'
               \/ reservation'.status = "ACTIVE" /\ BackedBy(x)'
    <3>1. InOrder(x)
      BY <1>1, <2>6 DEF BackedBy, InOrder, Ready, Coordinator, BooksInv, ExercisesContract,
                        ExercisesOf
    <3>2. CASE reservation' = reservation
      BY <1>4, <2>6, <3>2, BackedKept
    <3>3. ASSUME reservation' = [reservation EXCEPT !.status = "CONSUMED"],
                 NEW y \in Attempts, stage["seller"][y] = "deliver", IsExercise(y)
          PROVE  reservation'.status = "CONSUMED" /\ PaidFor("exercise", "seller", credit)'
      <4>1. PaidFor("exercise", "seller", attempt[y].terms)
            /\ attempt[y].terms = contract["buyer"].terms
        BY <1>1, <3>3, MovedFor
      <4>2. PaidFor("exercise", "seller", credit)
        BY <2>1, <4>1
      <4> QED BY <1>1, <2>4, <3>3, <4>2 DEF Reservations
    <3> QED BY <1>1, <2>6, <3>1, <3>2, <3>3, OrderedKept DEF BackedBy
  <2> QED BY <1>1, <2>1, <2>3, <2>4, <2>5, <2>6
<1> QED BY <1>3, <1>4

LEMMA DeliverStep ==
    ASSUME DealAssumption, DeliverInv, [DealNext]_dealVars
    PROVE  DeliverInv'
<1>1. AgreeInv'
  BY AgreeStep DEF DeliverInv
<1>2. ASSUME raced' = {} PROVE CreditMatches' /\ \A x \in Attempts : LiveExercise(x)'
  BY <1>2, CreditMatchesKept, LiveExerciseKept
<1> QED BY <1>1, <1>2 DEF DeliverInv, DeliveryMatches

LEMMA DeliverStart ==
    ASSUME DealAssumption, DealInit
    PROVE  DeliverInv
<1>1. PICK t \in Terms : Offered(t) \/ Agreed(t)
  BY DEF DealInit
<1>2. CreditMatches
  BY <1>1 DEF DealInit, Offered, Agreed, CreditMatches
<1>3. \A x \in Attempts : LiveExercise(x)
  BY DEF DealInit, LiveExercise, IsExercise, NoAttempt
<1> QED BY <1>2, <1>3, AgreeStart DEF DeliverInv, DeliveryMatches

\* Unless attempts, counter-offers, the expiry or a late rollback overlap: whatever is lost,
\* repeated or interrupted, the buyer receives the contract's shares only for cash that both
\* banks have paid or will pay, and they are the shares that the seller gives up.
THEOREM DeliveredAtMostOnce == DealAssumption => (DealSpec => []DeliveredOnce)
<1> SUFFICES ASSUME DealAssumption PROVE DealSpec => []DeliveredOnce
  OBVIOUS
<1>1. DealInit => DeliverInv
  BY DeliverStart
<1>2. DeliverInv /\ [DealNext]_dealVars => DeliverInv'
  BY DeliverStep
<1>3. DeliverInv => DeliveredOnce
  BY DEF DeliverInv, DeliveryMatches, CreditMatches, DeliveredOnce, BackedBy, Open, IsExercise
<1> QED BY <1>1, <1>2, <1>3, PTL DEF DealSpec

-----------------------------------------------------------------------------
(* The system that is model-checked: what is proved of payments and of deals  *)
(* holds of it, as each of its behaviours is one of theirs.                   *)

\* Payments and deals do not disturb each other: the bank service that carries both
\* behaves as each of their specifications says.
THEOREM BothAreCarried == InterbankSpec => Spec /\ DealSpec
<1>1. InterbankInit => Init /\ DealInit
  BY DEF InterbankInit
<1>2. [InterbankNext]_<<running, vars, dealVars>> => [Next]_vars /\ [DealNext]_dealVars
  BY DEF InterbankNext, RunPayment, RunDeal
<1> QED BY <1>1, <1>2, PTL DEF InterbankSpec, Spec, DealSpec

\* Records, postings, rows, answers, negotiations, contracts and places keep to their types,
\* whatever fails, and whichever messages are lost, repeated or overtaken.
THEOREM InterbankTypesAlways == InterbankSpec => []InterbankTypeOK
<1>1. DealSpec => []DealTypeOK
  BY DealTypesAlways, InterbankAssumption
<1> QED BY <1>1, BothAreCarried, PaymentTypes, PTL DEF InterbankTypeOK
==============================================================================
