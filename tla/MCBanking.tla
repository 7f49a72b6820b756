------------------------------ MODULE MCBanking ------------------------------
(***************************************************************************)
(* The components of banking-service on small instances.  They share no     *)
(* state that a property relates, so that a behaviour runs one of them, the *)
(* one "running" names, while the others rest in their initial states.      *)
(* Payments runs on a few transactions at a time.                           *)
(***************************************************************************)
EXTENDS MCOtcFunds, Payments, InterbankCash, Loans, Cards

VARIABLES
    running,  \* the component that runs
    scenario  \* Payments: the transactions that are made

-----------------------------------------------------------------------------
(* Payments: two local payments, one of them through the bank's accounts, a  *)
(* foreign one, payments without a code, a transfer that converts and a trade. *)

DealOf(k, p, r, s, e, c) ==
    [kind |-> k, payer |-> p, recipient |-> r, start |-> s, end |-> e, convert |-> c,
     bankIn |-> "bankRSD", bankOut |-> "bankEUR"]

MCDeal ==
       "local"    :> DealOf("payment", "ana", "bob", 1, 1, FALSE)
    @@ "convert"  :> DealOf("payment", "ana", "bobEUR", 2, 1, TRUE)
    @@ "foreign"  :> DealOf("payment", "ana", "abroad", 1, 1, FALSE)
    @@ "direct"   :> DealOf("direct", "ana", "bob", 2, 2, FALSE)
    @@ "transfer" :> DealOf("transfer", "bob", "bobEUR", 2, 1, TRUE)
    @@ "trade"    :> DealOf("settlement", "bankRSD", "ana", 1, 1, FALSE)

MCTxs         == DOMAIN MCDeal
MCPayAccounts == {"ana", "bob", "bobEUR", "bankRSD", "bankEUR"}
MCPayOpening  == [a \in MCPayAccounts |-> IF a = "ana" THEN 3 ELSE 1]

Scenarios == {{"local", "trade"}, {"convert", "transfer"}, {"convert", "trade"},
              {"foreign", "trade"}, {"direct", "trade"}}

ScenarioNext ==
    /\ PaymentsNext
    /\ \A t \in Txs \ scenario : status'[t] = "none" /\ \A c \in Calls : call'[c].tx # t

-----------------------------------------------------------------------------
(* Cash postings: a payer named by account, one named as a client, whose      *)
(* accounts are in another currency, and the bank itself.                     *)

CashRequest(acc, party, currency, amount, initiator) ==
    [account |-> acc, party |-> party, currency |-> currency, amount |-> amount,
     initiator |-> initiator]

MCRequests == {CashRequest("anaRSD", "nobody", "RSD", -1, TRUE),
               CashRequest("no account", "ana", "EUR", -1, FALSE),
               CashRequest("no account", "EMPLOYEE", "RSD", 1, FALSE)}

MCCurrency     == "anaRSD" :> "RSD" @@ "anaEUR" :> "EUR" @@ "bank" :> "RSD"
MCClientOf     == "anaRSD" :> "ana" @@ "anaEUR" :> "ana" @@ "bank" :> "EMPLOYEE"
MCBankAccounts == "RSD" :> "bank" @@ "EUR" :> "no account"
MCCashOpening  == "anaRSD" :> 2 @@ "anaEUR" :> 0 @@ "bank" :> 0

\* Behaviours are followed up to the first race.
CashBound ==
    /\ repeated = {} /\ cashClash = {}
    /\ \A k \in Postings : settled[k] <= 1
    /\ \A a \in CashAccounts : cashBalance[a] <= 3 /\ cashAvailable[a] <= 3

-----------------------------------------------------------------------------
(* Loans and cards                                                            *)

LoanBound == \A i \in Installments : taken[i] <= 1

CardBound == crowded = {}

ASSUME BankingAssumption ==
    PaymentsAssumption /\ CashAssumption /\ LoansAssumption /\ CardsAssumption

-----------------------------------------------------------------------------
otcVars == <<fundsVars, external>>
runVars == <<running, scenario>>

BankingInit ==
    /\ MCInit /\ PaymentsInit /\ CashPostingsInit /\ LoansInit /\ CardsInit
    /\ \/ running \in {"escrow", "cash", "loans", "cards"} /\ scenario = {}
       \/ running = "payments" /\ scenario \in Scenarios

RunEscrow ==
    /\ running = "escrow" /\ MCNext
    /\ UNCHANGED <<runVars, payVars, cashVars, loanVars, cardVars>>
RunPayments ==
    /\ running = "payments" /\ ScenarioNext
    /\ UNCHANGED <<runVars, otcVars, cashVars, loanVars, cardVars>>
RunCash ==
    /\ running = "cash" /\ CashPostingsNext
    /\ UNCHANGED <<runVars, otcVars, payVars, loanVars, cardVars>>
RunLoans ==
    /\ running = "loans" /\ LoansNext
    /\ UNCHANGED <<runVars, otcVars, payVars, cashVars, cardVars>>
RunCards ==
    /\ running = "cards" /\ CardsNext
    /\ UNCHANGED <<runVars, otcVars, payVars, cashVars, loanVars>>

BankingNext == RunEscrow \/ RunPayments \/ RunCash \/ RunLoans \/ RunCards

BankingSpec ==
    BankingInit /\ [][BankingNext]_<<runVars, otcVars, payVars, cashVars, loanVars, cardVars>>

BankingBound ==
    CASE running = "escrow" -> ExternalBound
      [] running = "cash"   -> CashBound
      [] running = "loans"  -> LoanBound
      [] running = "cards"  -> CardBound
      [] OTHER              -> TRUE

BankingSymmetry ==
    Permutations(Calls) \cup Permutations(CardIds) \cup Permutations(RequestIds)
      \cup Permutations(Postings)

-----------------------------------------------------------------------------
\* The variables of every component of banking-service have their types.
BankingTypeOK ==
    /\ running = "escrow" => FundsTypeOK
    /\ running = "payments" => PayTypeOK
    /\ running = "cash" => CashTypeOK
    /\ running = "loans" => LoanTypeOK
    /\ running = "cards" => CardTypeOK
=============================================================================
