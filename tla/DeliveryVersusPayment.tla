----------------------- MODULE DeliveryVersusPayment -----------------------
(***************************************************************************)
(* What the exercise of an OTC option promises the two parties, without a  *)
(* word on sagas, retries or compensation: the money of the buyer may be   *)
(* put in escrow and given back, any number of times, but it becomes the   *)
(* seller's in the same step in which the shares become the buyer's and    *)
(* the option is used up.                                                  *)
(***************************************************************************)
CONSTANT Contracts

VARIABLES
    money,     \* whose money the price of the contract is
    stock,     \* whose shares the contract is about
    option     \* whether the option can still be exercised

dvpVars == <<money, stock, option>>

DvpInit ==
    /\ money = [c \in Contracts |-> "buyer"]
    /\ stock = [c \in Contracts |-> "seller"]
    /\ option = [c \in Contracts |-> "ACTIVE"]

Escrow(c) ==
    /\ money[c] = "buyer"
    /\ option[c] # "EXERCISED"
    /\ money' = [money EXCEPT ![c] = "escrow"]
    /\ UNCHANGED <<stock, option>>

GiveBack(c) ==
    /\ money[c] = "escrow"
    /\ option[c] # "EXERCISED"
    /\ money' = [money EXCEPT ![c] = "buyer"]
    /\ UNCHANGED <<stock, option>>

Settle(c) ==
    /\ money[c] = "escrow"
    /\ option[c] = "ACTIVE"
    /\ money' = [money EXCEPT ![c] = "seller"]
    /\ stock' = [stock EXCEPT ![c] = "buyer"]
    /\ option' = [option EXCEPT ![c] = "EXERCISED"]

Lapse(c) ==
    /\ option[c] = "ACTIVE"
    /\ option' = [option EXCEPT ![c] = "EXPIRED"]
    /\ UNCHANGED <<money, stock>>

DvpNext == \E c \in Contracts : Escrow(c) \/ GiveBack(c) \/ Settle(c) \/ Lapse(c)

DvpSafety == DvpInit /\ [][DvpNext]_dvpVars
=============================================================================
