------------------------------ MODULE MCInterbank ------------------------------
(***************************************************************************)
(* What interbank-service carries between two banks, on small instances: a  *)
(* payment, message by message, or the deal over an option.  They share no  *)
(* state, so that a behaviour runs the one that "running" names while the   *)
(* other rests in its initial state.                                        *)
(***************************************************************************)
EXTENDS MCInterbankPayment, InterbankDeal

VARIABLE running

ASSUME InterbankAssumption == DealAssumption

\* The one that rests does so in one of its initial states.
InterbankInit ==
    /\ Init /\ DealInit
    /\ \/ /\ running = "payment"
          /\ \A b \in DealBanks : contract[b] = Nothing /\ negotiation[b].terms = 1
       \/ running = "deal" /\ \A b \in Banks, p \in Payments : willing[b][p]

RunPayment == running = "payment" /\ Next /\ UNCHANGED <<running, dealVars>>
RunDeal    == running = "deal" /\ DealNext /\ UNCHANGED <<running, vars>>

InterbankNext == RunPayment \/ RunDeal
InterbankSpec == InterbankInit /\ [][InterbankNext]_<<running, vars, dealVars>>

\* A deal is followed up to the first race, and an expiry job that holds a row up to the
\* first fault, one at a time; a payment past its last fault while at most one handler is
\* busy.
InterbankBound ==
    /\ raced = {}
    /\ \A b \in DealBanks : expiring[b] # NoNegotiation =>
         dealFaults = 0 /\ expiring[Other(b)] = NoNegotiation
    /\ faults = MaxFaults =>
         \A h, g \in Handlers : actor[h].at # "idle" /\ actor[g].at # "idle" => h = g

InterbankSymmetry == Symmetry \cup Permutations(Attempts)

-----------------------------------------------------------------------------
\* The variables of payments and of deals have their types.
InterbankTypeOK == PaymentTypeOK /\ DealTypeOK
=============================================================================
