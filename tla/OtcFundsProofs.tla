--------------------------- MODULE OtcFundsProofs ---------------------------
(***************************************************************************)
(* Theorems about OtcFunds, for every set of accounts, execution keys,     *)
(* amounts and exchange rates, and any calls in any order.                 *)
(***************************************************************************)
EXTENDS OtcFunds, SumLemmas

-----------------------------------------------------------------------------
(* The bank's operations: what each does to the one key it is given *)

LEMMA ReserveTypes ==
    ASSUME FundsTypeOK, NEW k \in Keys, NEW req \in Requests, NEW reply \in Replies,
           Reserve(k, req, reply)
    PROVE  FundsTypeOK'
<1>1. CASE ReserveKnown(k, req, reply)
  BY <1>1 DEF ReserveKnown, FundsTypeOK, fundsVars
<1>2. CASE ReserveNew(k, req, reply)
  <2>1. PICK quote \in Quotes[req.amount] : ReserveNew(k, req, reply)!2!(quote)
    BY <1>2 DEF ReserveNew
  <2>2. /\ quote[1] \in Nat \ {0}
        /\ quote[2] \in Nat \ {0}
        /\ req.buyer \in Accounts
    <3>1. req.amount \in Amounts /\ req.buyer \in Accounts
      BY DEF Requests
    <3>2. Quotes[req.amount] \subseteq (Nat \ {0}) \X (Nat \ {0})
      BY <3>1, QuotesAssumption
    <3> QED BY <3>1, <3>2
  <2>3. CASE UNCHANGED fundsVars
    BY <2>3 DEF FundsTypeOK, fundsVars
  <2>4. CASE /\ available' = [available EXCEPT ![req.buyer] = @ - quote[1]]
             /\ reservation' = [reservation EXCEPT ![k] =
                  [status |-> "RESERVED", request |-> req,
                   source |-> quote[1], destination |-> quote[2]]]
             /\ UNCHANGED balance
    <3>1. [status |-> "RESERVED", request |-> req,
           source |-> quote[1], destination |-> quote[2]] \in Reservations
      BY <2>2 DEF Reservations
    <3>2. available' \in [Accounts -> Int]
      BY <2>2, <2>4 DEF FundsTypeOK
    <3> HIDE DEF Reservations
    <3>3. reservation' \in [Keys -> Reservations \cup {NoReservation}]
      BY <3>1, <2>4 DEF FundsTypeOK
    <3> QED BY <3>2, <3>3, <2>4 DEF FundsTypeOK
  <2> QED BY <2>1, <2>3, <2>4
<1> QED BY <1>1, <1>2 DEF Reserve

\* A row of the table that exists.
LEMMA RowFields ==
    ASSUME FundsTypeOK, NEW k \in Keys, reservation[k] # NoReservation
    PROVE  /\ reservation[k] \in Reservations
           /\ Buyer(k) \in Accounts /\ Seller(k) \in Accounts /\ Buyer(k) # Seller(k)
           /\ reservation[k].source \in Int /\ reservation[k].source > 0
           /\ reservation[k].destination \in Int /\ reservation[k].destination > 0
  BY DEF FundsTypeOK, Reservations, Requests, Buyer, Seller

LEMMA StatusMeansRow ==
    ASSUME FundsTypeOK, NEW k \in Keys
    PROVE  /\ Status(k) \in {"NONE", "RESERVED", "RELEASED", "COMMITTED", "REFUNDED"}
           /\ Status(k) = "NONE" <=> reservation[k] = NoReservation
  BY DEF FundsTypeOK, Reservations, Status, NoReservation

LEMMA MoveToTypes ==
    ASSUME FundsTypeOK, NEW k \in Keys, reservation[k] # NoReservation,
           NEW s \in {"RESERVED", "RELEASED", "COMMITTED", "REFUNDED"}, MoveTo(k, s)
    PROVE  reservation' \in [Keys -> Reservations \cup {NoReservation}]
<1>1. reservation[k] \in Reservations
  BY RowFields
<1>2. [reservation[k] EXCEPT !.status = s] \in Reservations
  BY <1>1 DEF Reservations
<1> QED BY <1>2 DEF FundsTypeOK, MoveTo

LEMMA ReleaseTypes ==
    ASSUME FundsTypeOK, NEW k \in Keys, NEW reply \in Replies, Release(k, reply)
    PROVE  FundsTypeOK'
<1>1. CASE UNCHANGED fundsVars
  BY <1>1 DEF FundsTypeOK, fundsVars
<1>2. CASE /\ Status(k) = "RESERVED"
           /\ available' = [available EXCEPT ![Buyer(k)] = @ + reservation[k].source]
           /\ MoveTo(k, "RELEASED")
           /\ UNCHANGED balance
  <2>1. reservation[k] # NoReservation
    BY <1>2, StatusMeansRow
  <2>2. reservation' \in [Keys -> Reservations \cup {NoReservation}]
    BY <1>2, <2>1, MoveToTypes
  <2>3. Buyer(k) \in Accounts /\ reservation[k].source \in Int
    BY <2>1, RowFields
  <2>4. available' \in [Accounts -> Int]
    BY <1>2, <2>3 DEF FundsTypeOK
  <2> QED BY <1>2, <2>2, <2>4 DEF FundsTypeOK
<1> QED BY <1>1, <1>2 DEF Release, Done, Refused

LEMMA CommitTypes ==
    ASSUME FundsTypeOK, NEW k \in Keys, NEW reply \in Replies, Commit(k, reply)
    PROVE  FundsTypeOK'
<1>1. CASE UNCHANGED fundsVars
  BY <1>1 DEF FundsTypeOK, fundsVars
<1>2. CASE /\ Status(k) = "RESERVED"
           /\ balance' = [balance EXCEPT ![Buyer(k)]  = @ - reservation[k].source,
                                         ![Seller(k)] = @ + reservation[k].destination]
           /\ available' = [available EXCEPT ![Seller(k)] = @ + reservation[k].destination]
           /\ MoveTo(k, "COMMITTED")
  <2>1. reservation[k] # NoReservation
    BY <1>2, StatusMeansRow
  <2>2. reservation' \in [Keys -> Reservations \cup {NoReservation}]
    BY <1>2, <2>1, MoveToTypes
  <2>3. /\ Buyer(k) \in Accounts /\ reservation[k].source \in Int
        /\ Seller(k) \in Accounts /\ reservation[k].destination \in Int
    BY <2>1, RowFields
  <2>4. balance' \in [Accounts -> Int] /\ available' \in [Accounts -> Int]
    BY <1>2, <2>3 DEF FundsTypeOK
  <2> QED BY <2>2, <2>4 DEF FundsTypeOK
<1> QED BY <1>1, <1>2 DEF Commit, Done, Refused

LEMMA RefundTypes ==
    ASSUME FundsTypeOK, NEW k \in Keys, NEW reply \in Replies, Refund(k, reply)
    PROVE  FundsTypeOK'
<1>1. CASE UNCHANGED fundsVars
  BY <1>1 DEF FundsTypeOK, fundsVars
<1>2. CASE /\ Status(k) = "COMMITTED"
           /\ balance' = [balance EXCEPT ![Seller(k)] = @ - reservation[k].destination,
                                         ![Buyer(k)]  = @ + reservation[k].source]
           /\ available' = [available EXCEPT ![Seller(k)] = @ - reservation[k].destination,
                                             ![Buyer(k)]  = @ + reservation[k].source]
           /\ MoveTo(k, "REFUNDED")
  <2>1. reservation[k] # NoReservation
    BY <1>2, StatusMeansRow
  <2>2. reservation' \in [Keys -> Reservations \cup {NoReservation}]
    BY <1>2, <2>1, MoveToTypes
  <2>3. /\ Buyer(k) \in Accounts /\ reservation[k].source \in Int
        /\ Seller(k) \in Accounts /\ reservation[k].destination \in Int
    BY <2>1, RowFields
  <2>4. balance' \in [Accounts -> Int] /\ available' \in [Accounts -> Int]
    BY <1>2, <2>3 DEF FundsTypeOK
  <2> QED BY <2>2, <2>4 DEF FundsTypeOK
<1> QED BY <1>1, <1>2 DEF Refund, Done, Refused

-----------------------------------------------------------------------------
(* What each operation does to the status of its key *)

\* Nothing but the status of key k changes, and k keeps its request.
OnlyStatusOf(k) ==
    /\ \A j \in Keys : j # k => reservation'[j] = reservation[j]
    /\ reservation[k] # NoReservation => reservation'[k].request = reservation[k].request
    /\ reservation[k] = NoReservation => reservation'[k] = NoReservation

LEMMA ReserveEffect ==
    ASSUME FundsTypeOK, NEW k \in Keys, NEW req \in Requests, NEW reply \in Replies,
           Reserve(k, req, reply)
    PROVE  /\ \A j \in Keys : j # k => reservation'[j] = reservation[j]
           /\ \/ reservation'[k] = reservation[k] /\ reply = "refused"
              \/ /\ reservation'[k] = reservation[k]
                 /\ reservation[k] # NoReservation /\ reservation[k].request = req
                 /\ reply = "ok"
              \/ /\ Status(k) = "NONE" /\ Status(k)' = "RESERVED"
                 /\ reservation'[k].request = req
                 /\ reply = "ok"
           /\ reply = "refused" /\ reservation[k] # NoReservation => reservation[k].request # req
<1>1. CASE ReserveKnown(k, req, reply)
  BY <1>1 DEF ReserveKnown, fundsVars
<1>2. CASE ReserveNew(k, req, reply)
  <2>1. PICK quote \in Quotes[req.amount] : ReserveNew(k, req, reply)!2!(quote)
    BY <1>2 DEF ReserveNew
  <2>2. reservation[k] = NoReservation
    BY <1>2 DEF ReserveNew
  <2>3. CASE reply = "refused" /\ UNCHANGED fundsVars
    BY <2>2, <2>3 DEF fundsVars
  <2>4. CASE /\ reply = "ok"
             /\ reservation' = [reservation EXCEPT ![k] =
                  [status |-> "RESERVED", request |-> req,
                   source |-> quote[1], destination |-> quote[2]]]
    BY <2>2, <2>4 DEF FundsTypeOK, Status, NoReservation
  <2> QED BY <2>1, <2>3, <2>4
<1> QED BY <1>1, <1>2 DEF Reserve

LEMMA MoveToEffect ==
    ASSUME FundsTypeOK, NEW k \in Keys, Status(k) # "NONE", NEW s, MoveTo(k, s)
    PROVE  OnlyStatusOf(k) /\ Status(k)' = s
<1>1. reservation[k] # NoReservation
  BY StatusMeansRow
<1>2. reservation[k] \in Reservations
  BY <1>1, RowFields
<1> QED BY <1>1, <1>2 DEF FundsTypeOK, Reservations, MoveTo, OnlyStatusOf, Status

LEMMA ReleaseEffect ==
    ASSUME FundsTypeOK, NEW k \in Keys, NEW reply \in Replies, Release(k, reply)
    PROVE  /\ OnlyStatusOf(k)
           /\ IF Status(k) \in {"RESERVED", "RELEASED"}
              THEN Status(k)' = "RELEASED" /\ reply = "ok"
              ELSE Status(k)' = Status(k) /\ reply = "refused"
<1>1. CASE UNCHANGED fundsVars /\ Status(k) # "RESERVED"
  BY <1>1 DEF Release, Done, Refused, OnlyStatusOf, fundsVars, Status
<1>2. CASE Status(k) = "RESERVED" /\ reply = "ok" /\ MoveTo(k, "RELEASED")
  BY <1>2, MoveToEffect
<1> QED BY <1>1, <1>2 DEF Release, Done, Refused

LEMMA CommitEffect ==
    ASSUME FundsTypeOK, NEW k \in Keys, NEW reply \in Replies, Commit(k, reply)
    PROVE  /\ OnlyStatusOf(k)
           /\ \/ Status(k) = "RESERVED" /\ Status(k)' = "COMMITTED" /\ reply = "ok"
              \/ Status(k) = "RESERVED" /\ Status(k)' = "RESERVED" /\ reply = "error"
              \/ Status(k) = "COMMITTED" /\ Status(k)' = "COMMITTED" /\ reply = "ok"
              \/ /\ Status(k) \notin {"RESERVED", "COMMITTED"}
                 /\ Status(k)' = Status(k) /\ reply = "refused"
<1>1. CASE /\ UNCHANGED fundsVars
           /\ \/ Status(k) = "RESERVED" /\ reply = "error"
              \/ Status(k) = "COMMITTED" /\ reply = "ok"
              \/ Status(k) \notin {"RESERVED", "COMMITTED"} /\ reply = "refused"
  BY <1>1 DEF OnlyStatusOf, fundsVars, Status
<1>2. CASE Status(k) = "RESERVED" /\ reply = "ok" /\ MoveTo(k, "COMMITTED")
  BY <1>2, MoveToEffect
<1> QED BY <1>1, <1>2 DEF Commit, Done, Refused

LEMMA RefundEffect ==
    ASSUME FundsTypeOK, NEW k \in Keys, NEW reply \in Replies, Refund(k, reply)
    PROVE  /\ OnlyStatusOf(k)
           /\ \/ Status(k) = "COMMITTED" /\ Status(k)' = "REFUNDED" /\ reply = "ok"
              \/ Status(k) = "COMMITTED" /\ Status(k)' = "COMMITTED" /\ reply = "refused"
              \/ Status(k) = "REFUNDED" /\ Status(k)' = "REFUNDED" /\ reply = "ok"
              \/ /\ Status(k) \notin {"COMMITTED", "REFUNDED"}
                 /\ Status(k)' = Status(k) /\ reply = "refused"
<1>1. CASE UNCHANGED fundsVars /\ (reply = "ok" => Status(k) = "REFUNDED")
  BY <1>1 DEF Refund, Done, Refused, OnlyStatusOf, fundsVars, Status
<1>2. CASE Status(k) = "COMMITTED" /\ reply = "ok" /\ MoveTo(k, "REFUNDED")
  BY <1>2, MoveToEffect
<1> QED BY <1>1, <1>2 DEF Refund, Done, Refused

-----------------------------------------------------------------------------
(* Type correctness *)

LEMMA FundsTypesStep == FundsTypeOK /\ [FundsNext]_fundsVars => FundsTypeOK'
<1> SUFFICES ASSUME FundsTypeOK, [FundsNext]_fundsVars PROVE FundsTypeOK'
  OBVIOUS
<1>1. ASSUME NEW a \in Accounts, Withdraw(a) \/ Deposit(a) PROVE FundsTypeOK'
  BY <1>1 DEF Withdraw, Deposit, FundsTypeOK
<1>2. CASE UNCHANGED fundsVars
  BY <1>2 DEF fundsVars, FundsTypeOK
<1> QED BY <1>1, <1>2, ReserveTypes, ReleaseTypes, CommitTypes, RefundTypes DEF FundsNext

\* Balances and reservations have their types, however the calls come.
THEOREM FundsTypeCorrect == FundsSpec => []FundsTypeOK
<1>1. FundsInit => FundsTypeOK
  BY OpeningAssumption DEF FundsInit, FundsTypeOK
<1> QED BY <1>1, FundsTypesStep, PTL DEF FundsSpec

-----------------------------------------------------------------------------
(* Holds *)

\* What one reservation claims of an account.
Claim(k, a) == IF Status(k) = "RESERVED" /\ Buyer(k) = a THEN reservation[k].source ELSE 0

LEMMA ClaimTypes ==
    ASSUME FundsTypeOK, NEW k \in Keys, NEW a
    PROVE  Claim(k, a) \in Int /\ Claim(k, a) >= 0
<1>1. CASE reservation[k] = NoReservation
  BY <1>1 DEF Claim, Status, NoReservation
<1>2. CASE reservation[k] # NoReservation
  BY <1>2, RowFields DEF Claim
<1> QED BY <1>1, <1>2

LEMMA HeldIsClaimed ==
    \A a : /\ Held(a) = SumFunctionOnSet([k \in Keys |-> Claim(k, a)], Keys)
          /\ Held(a)' = SumFunctionOnSet([k \in Keys |-> Claim(k, a)'], Keys)
<1> SUFFICES ASSUME NEW a
             PROVE  /\ Held(a) = SumFunctionOnSet([k \in Keys |-> Claim(k, a)], Keys)
                    /\ Held(a)' = SumFunctionOnSet([k \in Keys |-> Claim(k, a)'], Keys)
  OBVIOUS
<1>1. [k \in Keys |-> IF k \in InStatus(a, "RESERVED") THEN reservation[k].source ELSE 0]
        = [k \in Keys |-> Claim(k, a)]
  BY DEF InStatus, Claim
<1>2. [k \in Keys |-> IF k \in InStatus(a, "RESERVED") THEN reservation[k].source ELSE 0]'
        = [k \in Keys |-> Claim(k, a)']
  BY DEF InStatus, Claim
<1> QED BY <1>1, <1>2 DEF Held

\* A call about one key changes what is held by what that key claims.
LEMMA HeldChanges ==
    ASSUME FundsTypeOK, FundsTypeOK', NEW k \in Keys, NEW a,
           \A j \in Keys : j # k => reservation'[j] = reservation[j]
    PROVE  /\ Held(a) \in Int /\ Held(a)' = Held(a) - Claim(k, a) + Claim(k, a)'
           /\ Claim(k, a) \in Int /\ Claim(k, a)' \in Int
           /\ Claim(k, a) >= 0 /\ Held(a) >= Claim(k, a)
<1> DEFINE f == [j \in Keys |-> Claim(j, a)]
           g == [j \in Keys |-> Claim(j, a)']
<1>1. ASSUME NEW j \in Keys
      PROVE  /\ Claim(j, a) \in Int /\ Claim(j, a)' \in Int
             /\ Claim(j, a) >= 0
  <2>1. Claim(j, a) \in Int /\ Claim(j, a) >= 0
    BY ClaimTypes
  <2>2. Claim(j, a)' \in Int
    BY DEF FundsTypeOK, Reservations, NoReservation, Claim, Status, Buyer
  <2> QED BY <2>1, <2>2
<1>2. \A j \in Keys \ {k} : Claim(j, a)' = Claim(j, a)
  BY DEF Claim, Status, Buyer
<1>3. /\ f \in [Keys -> Int] /\ g \in [Keys -> Int] /\ IsFiniteSet(Keys)
      /\ \A j \in Keys \ {k} : f[j] = g[j]
      /\ \A j \in Keys : f[j] >= 0
      /\ f[k] = Claim(k, a) /\ g[k] = Claim(k, a)'
  BY <1>1, <1>2, KeysAssumption
<1>4. Held(a) = SumFunctionOnSet(f, Keys) /\ Held(a)' = SumFunctionOnSet(g, Keys)
  BY HeldIsClaimed
<1> HIDE DEF f, g
<1>5. SumFunctionOnSet(f, Keys) \in Int /\ f[k] <= SumFunctionOnSet(f, Keys)
  BY <1>3, SumType, SumAtLeast
<1>6. SumFunctionOnSet(g, Keys) = SumFunctionOnSet(f, Keys) - f[k] + g[k]
  BY <1>3, SumUpdated
<1> QED BY <1>1, <1>3, <1>4, <1>5, <1>6

\* An operation that changes the claim of its key and the gap between the two
\* balances of each account alike keeps them equal.
LEMMA GapFollowsClaim ==
    ASSUME FundsTypeOK, FundsTypeOK', NEW k \in Keys, HoldsMatchReservations,
           \A j \in Keys : j # k => reservation'[j] = reservation[j],
           \A a \in Accounts :
             /\ (balance'[a] - available'[a]) - (balance[a] - available[a])
                   = Claim(k, a)' - Claim(k, a)
             /\ available'[a] >= 0
    PROVE  HoldsMatchReservations'
<1> SUFFICES ASSUME NEW a \in Accounts
             PROVE  balance'[a] - available'[a] = Held(a)' /\ available'[a] >= 0
  BY DEF HoldsMatchReservations
<1>1. /\ Held(a) \in Int /\ Held(a)' = Held(a) - Claim(k, a) + Claim(k, a)'
      /\ Claim(k, a) \in Int /\ Claim(k, a)' \in Int
  BY HeldChanges
<1>2. /\ balance[a] \in Int /\ available[a] \in Int
      /\ balance'[a] \in Int /\ available'[a] \in Int
  BY DEF FundsTypeOK
<1>3. balance[a] - available[a] = Held(a)
  BY DEF HoldsMatchReservations
<1> QED BY <1>1, <1>2, <1>3
LEMMA NothingChanges ==
    ASSUME HoldsMatchReservations, UNCHANGED fundsVars
    PROVE  HoldsMatchReservations'
<1>1. balance' = balance /\ available' = available /\ reservation' = reservation
  BY DEF fundsVars
<1> QED BY <1>1 DEF HoldsMatchReservations, Held, InStatus, Status, Buyer

LEMMA ReserveHolds ==
    ASSUME FundsTypeOK, HoldsMatchReservations, NEW k \in Keys, NEW req \in Requests,
           NEW reply \in Replies, Reserve(k, req, reply)
    PROVE  HoldsMatchReservations'
<1>1. CASE UNCHANGED fundsVars
  BY <1>1, NothingChanges
<1>2. CASE reservation[k] = NoReservation /\ ~UNCHANGED fundsVars
  <2>1. PICK quote \in Quotes[req.amount] :
          /\ available[req.buyer] >= quote[1]
          /\ available' = [available EXCEPT ![req.buyer] = @ - quote[1]]
          /\ reservation' = [reservation EXCEPT ![k] =
               [status |-> "RESERVED", request |-> req,
                source |-> quote[1], destination |-> quote[2]]]
          /\ UNCHANGED balance
    BY <1>2 DEF Reserve, ReserveKnown, ReserveNew
  <2>2. quote[1] \in Int /\ req.buyer \in Accounts
    <3>1. req.amount \in Amounts /\ req.buyer \in Accounts
      BY DEF Requests
    <3>2. Quotes[req.amount] \subseteq (Nat \ {0}) \X (Nat \ {0})
      BY <3>1, QuotesAssumption
    <3> QED BY <3>1, <3>2
  <2>3. ASSUME NEW a \in Accounts
        PROVE  /\ (balance'[a] - available'[a]) - (balance[a] - available[a])
                    = Claim(k, a)' - Claim(k, a)
               /\ available'[a] >= 0
    <3>1. Claim(k, a) = 0
      BY <1>2 DEF Claim, Status, NoReservation
    <3>2. Claim(k, a)' = IF req.buyer = a THEN quote[1] ELSE 0
      BY <2>1 DEF Claim, Status, Buyer, FundsTypeOK
    <3>3. /\ balance[a] \in Int /\ available[a] \in Int /\ available[a] >= 0
          /\ balance'[a] = balance[a]
          /\ available'[a] = IF req.buyer = a THEN available[a] - quote[1] ELSE available[a]
      BY <2>1, <2>2 DEF FundsTypeOK, HoldsMatchReservations
    <3> QED BY <2>1, <2>2, <3>1, <3>2, <3>3
  <2>4. FundsTypeOK' /\ \A j \in Keys : j # k => reservation'[j] = reservation[j]
    BY ReserveTypes, ReserveEffect
  <2> QED BY <2>3, <2>4, GapFollowsClaim
<1> QED BY <1>1, <1>2 DEF Reserve, ReserveKnown, ReserveNew

LEMMA ReleaseHolds ==
    ASSUME FundsTypeOK, HoldsMatchReservations, NEW k \in Keys, NEW reply \in Replies,
           Release(k, reply)
    PROVE  HoldsMatchReservations'
<1>1. CASE UNCHANGED fundsVars
  BY <1>1, NothingChanges
<1>2. CASE /\ Status(k) = "RESERVED" /\ MoveTo(k, "RELEASED") /\ UNCHANGED balance
           /\ available' = [available EXCEPT ![Buyer(k)] = @ + reservation[k].source]
  <2>1. /\ FundsTypeOK' /\ Status(k)' = "RELEASED"
        /\ \A j \in Keys : j # k => reservation'[j] = reservation[j]
    BY <1>2, ReleaseTypes, ReleaseEffect DEF OnlyStatusOf
  <2>2. /\ Buyer(k) \in Accounts /\ reservation[k].source \in Int /\ reservation[k].source > 0
    BY <1>2, StatusMeansRow, RowFields
  <2>3. ASSUME NEW a \in Accounts
        PROVE  /\ (balance'[a] - available'[a]) - (balance[a] - available[a])
                    = Claim(k, a)' - Claim(k, a)
               /\ available'[a] >= 0
    <3>1. /\ Claim(k, a) = IF Buyer(k) = a THEN reservation[k].source ELSE 0
          /\ Claim(k, a)' = 0
      BY <1>2, <2>1 DEF Claim
    <3>2. /\ balance[a] \in Int /\ available[a] \in Int /\ available[a] >= 0
          /\ balance'[a] = balance[a]
          /\ available'[a] = IF Buyer(k) = a THEN available[a] + reservation[k].source
                                             ELSE available[a]
      BY <1>2, <2>2 DEF FundsTypeOK, HoldsMatchReservations
    <3> QED BY <2>2, <3>1, <3>2
  <2> QED BY <2>1, <2>3, GapFollowsClaim
<1> QED BY <1>1, <1>2 DEF Release, Done, Refused

LEMMA CommitHolds ==
    ASSUME FundsTypeOK, HoldsMatchReservations, NEW k \in Keys, NEW reply \in Replies,
           Commit(k, reply)
    PROVE  HoldsMatchReservations'
<1>1. CASE UNCHANGED fundsVars
  BY <1>1, NothingChanges
<1>2. CASE /\ Status(k) = "RESERVED" /\ MoveTo(k, "COMMITTED")
           /\ balance' = [balance EXCEPT ![Buyer(k)]  = @ - reservation[k].source,
                                         ![Seller(k)] = @ + reservation[k].destination]
           /\ available' = [available EXCEPT ![Seller(k)] = @ + reservation[k].destination]
  <2>1. /\ FundsTypeOK' /\ Status(k)' = "COMMITTED"
        /\ \A j \in Keys : j # k => reservation'[j] = reservation[j]
    <3>1. reservation[k] # NoReservation
      BY <1>2, StatusMeansRow
    <3>2. Status(k)' = "COMMITTED"
      BY <1>2, MoveToEffect
    <3> QED BY <3>2, CommitTypes, CommitEffect DEF OnlyStatusOf
  <2>2. /\ Buyer(k) \in Accounts /\ Seller(k) \in Accounts /\ Buyer(k) # Seller(k)
        /\ reservation[k].source \in Int /\ reservation[k].destination \in Int
        /\ reservation[k].destination > 0
    BY <1>2, StatusMeansRow, RowFields
  <2>3. ASSUME NEW a \in Accounts
        PROVE  /\ (balance'[a] - available'[a]) - (balance[a] - available[a])
                    = Claim(k, a)' - Claim(k, a)
               /\ available'[a] >= 0
    <3>1. /\ Claim(k, a) = IF Buyer(k) = a THEN reservation[k].source ELSE 0
          /\ Claim(k, a)' = 0
      BY <1>2, <2>1 DEF Claim
    <3>2. /\ balance[a] \in Int /\ available[a] \in Int /\ available[a] >= 0
          /\ balance'[a] = IF Buyer(k) = a THEN balance[a] - reservation[k].source
                           ELSE IF Seller(k) = a THEN balance[a] + reservation[k].destination
                           ELSE balance[a]
          /\ available'[a] = IF Seller(k) = a THEN available[a] + reservation[k].destination
                                              ELSE available[a]
      BY <1>2, <2>2 DEF FundsTypeOK, HoldsMatchReservations
    <3> QED BY <2>2, <3>1, <3>2
  <2> QED BY <2>1, <2>3, GapFollowsClaim
<1> QED BY <1>1, <1>2 DEF Commit, Done, Refused

LEMMA RefundHolds ==
    ASSUME FundsTypeOK, HoldsMatchReservations, NEW k \in Keys, NEW reply \in Replies,
           Refund(k, reply)
    PROVE  HoldsMatchReservations'
<1>1. CASE UNCHANGED fundsVars
  BY <1>1, NothingChanges
<1>2. CASE /\ Status(k) = "COMMITTED" /\ SellerCovers(k) /\ MoveTo(k, "REFUNDED")
           /\ balance' = [balance EXCEPT ![Seller(k)] = @ - reservation[k].destination,
                                         ![Buyer(k)]  = @ + reservation[k].source]
           /\ available' = [available EXCEPT ![Seller(k)] = @ - reservation[k].destination,
                                             ![Buyer(k)]  = @ + reservation[k].source]
  <2>1. /\ FundsTypeOK' /\ Status(k)' = "REFUNDED"
        /\ \A j \in Keys : j # k => reservation'[j] = reservation[j]
    <3>1. Status(k)' = "REFUNDED"
      BY <1>2, MoveToEffect
    <3> QED BY <3>1, RefundTypes, RefundEffect DEF OnlyStatusOf
  <2>2. /\ Buyer(k) \in Accounts /\ Seller(k) \in Accounts /\ Buyer(k) # Seller(k)
        /\ reservation[k].source \in Int /\ reservation[k].destination \in Int
        /\ reservation[k].source > 0 /\ available[Seller(k)] >= reservation[k].destination
    BY <1>2, StatusMeansRow, RowFields DEF SellerCovers
  <2>3. ASSUME NEW a \in Accounts
        PROVE  /\ (balance'[a] - available'[a]) - (balance[a] - available[a])
                    = Claim(k, a)' - Claim(k, a)
               /\ available'[a] >= 0
    <3>1. Claim(k, a) = 0 /\ Claim(k, a)' = 0
      BY <1>2, <2>1 DEF Claim
    <3>2. /\ balance[a] \in Int /\ available[a] \in Int /\ available[a] >= 0
          /\ balance'[a] = IF Buyer(k) = a THEN balance[a] + reservation[k].source
                           ELSE IF Seller(k) = a THEN balance[a] - reservation[k].destination
                           ELSE balance[a]
          /\ available'[a] = IF Buyer(k) = a THEN available[a] + reservation[k].source
                             ELSE IF Seller(k) = a THEN available[a] - reservation[k].destination
                             ELSE available[a]
      BY <1>2, <2>2 DEF FundsTypeOK, HoldsMatchReservations
    <3> QED BY <2>2, <3>1, <3>2
  <2> QED BY <2>1, <2>3, GapFollowsClaim
<1> QED BY <1>1, <1>2 DEF Refund, Done, Refused

\* Customers move both balances alike.
LEMMA CustomersHold ==
    ASSUME FundsTypeOK, HoldsMatchReservations, NEW b \in Accounts, Withdraw(b) \/ Deposit(b)
    PROVE  HoldsMatchReservations'
<1>1. PICK n \in {-1, 1} :
        /\ balance' = [balance EXCEPT ![b] = @ + n] /\ available' = [available EXCEPT ![b] = @ + n]
        /\ available[b] + n >= 0 /\ reservation' = reservation
  <2>1. available[b] \in Int /\ balance[b] \in Int /\ available[b] >= 0
    BY DEF FundsTypeOK, HoldsMatchReservations
  <2>2. CASE Withdraw(b)
    <3>1. /\ available[b] + (-1) >= 0 /\ available[b] - 1 = available[b] + (-1)
          /\ balance[b] - 1 = balance[b] + (-1)
      BY <2>1, <2>2 DEF Withdraw
    <3> QED BY <2>2, <3>1 DEF Withdraw
  <2>3. CASE Deposit(b)
    BY <2>1, <2>3 DEF Deposit
  <2> QED BY <2>2, <2>3
<1> SUFFICES ASSUME NEW a \in Accounts
             PROVE  balance'[a] - available'[a] = Held(a)' /\ available'[a] >= 0
  BY DEF HoldsMatchReservations
<1>2. Held(a)' = Held(a)
  BY <1>1 DEF Held, InStatus, Status, Buyer
<1>3. /\ balance[a] \in Int /\ available[a] \in Int /\ available[a] >= 0
      /\ balance[a] - available[a] = Held(a)
  BY DEF FundsTypeOK, HoldsMatchReservations
<1>4. /\ balance'[a] = IF a = b THEN balance[a] + n ELSE balance[a]
      /\ available'[a] = IF a = b THEN available[a] + n ELSE available[a]
  BY <1>1 DEF FundsTypeOK
<1> QED BY <1>1, <1>2, <1>3, <1>4

LEMMA HoldsStep == FundsTypeOK /\ HoldsMatchReservations /\ [FundsNext]_fundsVars
                     => HoldsMatchReservations'
BY ReserveHolds, ReleaseHolds, CommitHolds, RefundHolds, CustomersHold, NothingChanges
   DEF FundsNext

LEMMA HoldsInitially == FundsInit => HoldsMatchReservations
<1> SUFFICES ASSUME FundsInit, NEW a \in Accounts
             PROVE  balance[a] - available[a] = Held(a) /\ available[a] >= 0
  BY DEF HoldsMatchReservations
<1> DEFINE f == [k \in Keys |-> Claim(k, a)]
<1>1. \A k \in Keys : Claim(k, a) = 0
  BY DEF FundsInit, Claim, Status, NoReservation
<1>2. f \in [Keys -> Int] /\ IsFiniteSet(Keys) /\ \A k \in Keys : f[k] = 0
  BY <1>1, KeysAssumption
<1>3. Held(a) = SumFunctionOnSet(f, Keys)
  BY HeldIsClaimed
<1> HIDE DEF f
<1>4. Held(a) = 0
  BY <1>2, <1>3, SumOfZeros
<1>5. balance[a] = Opening[a] /\ available[a] = Opening[a] /\ Opening[a] \in Nat
  BY OpeningAssumption DEF FundsInit
<1> QED BY <1>4, <1>5

\* What an account holds back is what its open reservations claim, and no account
\* falls below zero, for any accounts, settlements, rates and order of calls.
THEOREM HoldsAlwaysMatch == FundsSpec => []HoldsMatchReservations
<1>1. FundsInit => HoldsMatchReservations
  BY HoldsInitially
<1>2. FundsSpec => []FundsTypeOK
  BY FundsTypeCorrect
<1> QED BY <1>1, <1>2, HoldsStep, PTL DEF FundsSpec

-----------------------------------------------------------------------------
(* What this means for Commit *)

HoldsAreIntact == \A k \in Keys : Status(k) = "RESERVED" => HoldIntact(k)

LEMMA IntactWhenMatching ==
    ASSUME FundsTypeOK, HoldsMatchReservations
    PROVE  HoldsAreIntact
<1> SUFFICES ASSUME NEW k \in Keys, Status(k) = "RESERVED" PROVE HoldIntact(k)
  BY DEF HoldsAreIntact
<1> DEFINE a == Buyer(k)
           f == [j \in Keys |-> Claim(j, a)]
<1>1. a \in Accounts /\ reservation[k].source \in Int
  BY StatusMeansRow, RowFields
<1>2. Claim(k, a) = reservation[k].source
  BY DEF Claim
<1>3. /\ f \in [Keys -> Int] /\ IsFiniteSet(Keys) /\ \A j \in Keys : f[j] >= 0
      /\ f[k] = Claim(k, a)
  BY ClaimTypes, KeysAssumption
<1>4. Held(a) = SumFunctionOnSet(f, Keys)
  BY HeldIsClaimed
<1>5. /\ balance[a] \in Int /\ available[a] \in Int /\ available[a] >= 0
      /\ balance[a] - available[a] = Held(a)
  BY <1>1 DEF FundsTypeOK, HoldsMatchReservations
<1> HIDE DEF f, a
<1>6. f[k] <= SumFunctionOnSet(f, Keys)
  BY <1>3, SumAtLeast
<1>7. balance[a] - available[a] >= reservation[k].source /\ balance[a] >= reservation[k].source
  BY <1>1, <1>2, <1>3, <1>4, <1>5, <1>6
<1> QED BY <1>7 DEF HoldIntact, a

\* The check with which Commit looks for the hold it is about to take never fails:
\* nothing else that the service does can have taken it away.
THEOREM CommitFindsItsHold == FundsSpec => []HoldsAreIntact
<1>1. FundsTypeOK /\ HoldsMatchReservations => HoldsAreIntact
  BY IntactWhenMatching
<1> QED BY <1>1, FundsTypeCorrect, HoldsAlwaysMatch, PTL
=============================================================================
