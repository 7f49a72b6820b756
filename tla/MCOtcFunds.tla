---------------------------- MODULE MCOtcFunds ----------------------------
(***************************************************************************)
(* OtcFunds on two accounts and two execution keys, with any caller.  The  *)
(* history variable "external" adds up what deposits and withdrawals did   *)
(* to each account, so that LedgerExact can account for every unit.        *)
(***************************************************************************)
EXTENDS OtcFunds, TLC

MCAccounts == {"buyerAcc", "sellerAcc"}
MCAmounts  == {1}
\* One trade amount, two exchange rates: same currency, or one that costs the
\* buyer two units of his own.
MCQuotes   == 1 :> {<<1, 1>>, <<2, 1>>}
MCOpening  == "buyerAcc" :> 3 @@ "sellerAcc" :> 0

VARIABLE external

MCInit == FundsInit /\ external = [a \in Accounts |-> 0]

MCNext ==
    \/ /\ \/ \E k \in Keys, req \in Requests, reply \in Replies : Reserve(k, req, reply)
          \/ \E k \in Keys, reply \in Replies :
               Release(k, reply) \/ Commit(k, reply) \/ Refund(k, reply)
       /\ UNCHANGED external
    \/ \E a \in Accounts : Withdraw(a) /\ external' = [external EXCEPT ![a] = @ - 1]
    \/ \E a \in Accounts : Deposit(a) /\ external' = [external EXCEPT ![a] = @ + 1]

MCSpec == MCInit /\ [][MCNext]_<<fundsVars, external>>

\* Bounds on the history variable: net withdrawals and deposits per account.
ExternalBound == \A a \in Accounts : external[a] \in -4 .. 3

Settled(acc, party(_), amount(_)) ==
    SumFunctionOnSet([k \in Keys |->
        IF Status(k) = "COMMITTED" /\ party(k) = acc THEN amount(k) ELSE 0], Keys)

\* Every account holds its opening balance, what customers moved in and out,
\* and the settlements that are committed and not refunded: no retry, late
\* call or refund moves money a second time or at another rate.
LedgerExact ==
    \A a \in Accounts :
      balance[a] = Opening[a] + external[a]
                   - Settled(a, Buyer, LAMBDA k : reservation[k].source)
                   + Settled(a, Seller, LAMBDA k : reservation[k].destination)
=============================================================================
