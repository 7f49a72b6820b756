----------------------------- MODULE MCOtcSaga -----------------------------
(***************************************************************************)
(* Small instances of OtcSaga for TLC: one seller, one buyer, contracts of *)
(* one share each at the price of one unit.                                *)
(***************************************************************************)
EXTENDS OtcSaga, TLC

CONSTANTS BuyerMoney, BuyerShares, SellerShares

Symmetric       == Permutations(Contracts) \cup Permutations(Requesters)
MCUsers         == {"buyer", "seller"}
MCAccounts      == {"buyerAcc", "sellerAcc"}
MCKeys          == Contracts \X (1 .. MaxAttempts)
MCBuyerOf       == [c \in Contracts |-> "buyer"]
MCSellerOf      == [c \in Contracts |-> "seller"]
MCBuyerAccount  == [c \in Contracts |-> "buyerAcc"]
MCSellerAccount == [c \in Contracts |-> "sellerAcc"]
MCPrice         == [c \in Contracts |-> 1]
MCQuantity      == [c \in Contracts |-> 1]
MCAmounts       == {1}
MCQuotes        == 1 :> {<<1, 1>>}
MCOpening       == "buyerAcc" :> BuyerMoney @@ "sellerAcc" :> 0
MCOpeningShares == "buyer" :> BuyerShares @@ "seller" :> SellerShares
MCOpeningReserved == "buyer" :> 0 @@ "seller" :> Cardinality(Contracts)
=============================================================================
