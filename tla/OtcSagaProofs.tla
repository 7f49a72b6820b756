--------------------------- MODULE OtcSagaProofs ---------------------------
(***************************************************************************)
(* Theorems about OtcSaga, for every set of contracts, users, accounts and *)
(* requests, and any number of attempts.                                   *)
(***************************************************************************)
EXTENDS OtcSaga, OtcFundsProofs

-----------------------------------------------------------------------------
(* Type correctness *)

LEMMA ConstantTypes ==
    /\ Contracts # {}
    /\ MaxAttempts \in Nat
    /\ Keys = Contracts \X (1 .. MaxAttempts)
    /\ BuyerOf \in [Contracts -> Users] /\ SellerOf \in [Contracts -> Users]
    /\ BuyerAccount \in [Contracts -> Accounts] /\ SellerAccount \in [Contracts -> Accounts]
    /\ \A c \in Contracts : BuyerAccount[c] # SellerAccount[c]
    /\ Price \in [Contracts -> Amounts]
    /\ Quantity \in [Contracts -> Nat \ {0}]
    /\ OpeningShares \in [Users -> Nat] /\ OpeningReserved \in [Users -> Nat]
    /\ Worker \in Runners /\ NoRunner \notin Runners
<1>1. Worker \in Runners
  BY DEF Runners
<1> QED BY <1>1, SagaAssumption

LEMMA TermsAreRequests == \A c \in Contracts : TermsOf(c) \in Requests
  BY ConstantTypes DEF TermsOf, Requests

\* A row with another step, status and backoff is a row.
LEMMA RowTypes ==
    ASSUME NEW row \in SagaRows, NEW step \in Steps, NEW backoff \in BOOLEAN,
           NEW status \in LiveStatuses \cup TerminalStatuses
    PROVE  [row EXCEPT !.step = step, !.status = status, !.backoff = backoff] \in SagaRows
  BY DEF SagaRows

LEMMA StoreTypes ==
    ASSUME TypeOK, NEW c \in Contracts, NEW row \in SagaRows, Store(c, row)
    PROVE  saga' \in [Contracts -> SagaRows]
  BY DEF TypeOK, Store

LEMMA OutcomeTypes ==
    ASSUME TypeOK, NEW c \in Contracts, NEW step \in Steps,
           \/ AdvanceExecution(c, step) \/ ScheduleRetry(c, step)
           \/ ScheduleCompensating(c, step) \/ BeginCompensation(c, step)
           \/ MarkFailed(c, step)
    PROVE  saga' \in [Contracts -> SagaRows]
<1> USE RowTypes, StoreTypes DEF TypeOK, LiveStatuses, TerminalStatuses
<1>0. saga[c] \in SagaRows
  OBVIOUS
<1>1. CASE AdvanceExecution(c, step)
  BY <1>0, <1>1 DEF AdvanceExecution
<1>2. CASE ScheduleRetry(c, step)
  BY <1>0, <1>2 DEF ScheduleRetry
<1>3. CASE ScheduleCompensating(c, step)
  BY <1>0, <1>3 DEF ScheduleCompensating
<1>4. CASE BeginCompensation(c, step)
  BY <1>0, <1>4 DEF BeginCompensation
<1>5. CASE MarkFailed(c, step)
  BY <1>0, <1>5 DEF MarkFailed
<1> QED BY <1>1, <1>2, <1>3, <1>4, <1>5

RunnerTypes ==
    /\ lock \in [Contracts -> Runners \cup {NoRunner}]
    /\ pc \in [Runners -> Places]
    /\ job \in [Runners -> Contracts]
    /\ view \in [Runners -> SagaRows]
    /\ answer \in [Runners -> Replies]

LEMMA MoveTypes ==
    ASSUME RunnerTypes, NEW r \in Runners, NEW place \in Places,
           \/ Proceed(r, place) \/ Leave(r)
           \/ \E reply \in Replies : Answered(r, reply, place)
    PROVE  RunnerTypes'
<1>1. NoSaga \in SagaRows /\ "ok" \in Replies /\ "idle" \in Places
  BY ConstantTypes DEF NoSaga, SagaRows, Steps, Replies, Places
<1>2. CASE Proceed(r, place)
  BY <1>2 DEF RunnerTypes, Proceed, GoTo
<1>3. CASE Leave(r)
  BY <1>1, <1>3 DEF RunnerTypes, Leave
<1>4. CASE \E reply \in Replies : Answered(r, reply, place)
  BY <1>4 DEF RunnerTypes, Answered, GoTo
<1> QED BY <1>2, <1>3, <1>4

\* Who reads and writes ownership rows beside the saga.
AccessTypes ==
    /\ copy \in [Users -> Copies]
    /\ accesses \in 0 .. MaxAccesses
    /\ traded \in [Users -> Int]
    /\ lostMoves \in [Users -> SUBSET Contracts]
    /\ lostFrees \in [Users -> SUBSET Contracts]

ContractTypes ==
    /\ AccessTypes
    /\ contract \in [Contracts -> {"ACTIVE", "EXERCISED", "EXPIRED"}]
    /\ due \in [Contracts -> BOOLEAN]
    /\ shareRes \in [Contracts -> {"ACTIVE", "CONSUMED", "RELEASED"}]
    /\ shares \in [Users -> Int]
    /\ public \in [Users -> Int]
    /\ reserved \in [Users -> Int]

LEMMA TypeParts ==
    /\ TypeOK <=> FundsTypeOK /\ ContractTypes /\ RunnerTypes
                  /\ saga \in [Contracts -> SagaRows]
    /\ TypeOK' <=> FundsTypeOK' /\ ContractTypes' /\ RunnerTypes'
                   /\ saga' \in [Contracts -> SagaRows]
  BY DEF TypeOK, ContractTypes, AccessTypes, RunnerTypes

LEMMA AccessTypesKept == AccessTypes /\ UNCHANGED copyVars => AccessTypes'
  BY DEF AccessTypes, copyVars

LEMMA SharesKept == UNCHANGED shareVars => UNCHANGED <<shares, public, reserved, copyVars>>
  BY DEF shareVars, copyVars

LEMMA ExpireTypes ==
    ASSUME ContractTypes, NEW c \in Contracts, Expire(c)
    PROVE  ContractTypes'
<1>1. SellerOf[c] \in Users /\ Quantity[c] \in Int
  BY ConstantTypes
<1>2. reserved' \in [Users -> Int]
  BY <1>1 DEF ContractTypes, Expire, AtLeastZero
<1>3. /\ contract' \in [Contracts -> {"ACTIVE", "EXERCISED", "EXPIRED"}]
      /\ shareRes' \in [Contracts -> {"ACTIVE", "CONSUMED", "RELEASED"}]
  BY DEF ContractTypes, Expire
<1>4. AccessTypes'
  BY AccessTypesKept DEF ContractTypes, Expire
<1> QED BY <1>2, <1>3, <1>4 DEF ContractTypes, Expire

LEMMA SettleTypes ==
    ASSUME TypeOK, NEW r \in Runners, Settle(r)
    PROVE  FundsTypeOK' /\ ContractTypes' /\ saga' \in [Contracts -> SagaRows]
<1> DEFINE c == job[r]
<1>1. c \in Contracts /\ view[r] \in SagaRows
  BY DEF TypeOK
<1>2. SellerOf[c] \in Users /\ BuyerOf[c] \in Users /\ Quantity[c] \in Int
  BY <1>1, ConstantTypes
<1>3. shares' \in [Users -> Int] /\ public' \in [Users -> Int] /\ reserved' \in [Users -> Int]
  BY <1>2 DEF Settle, MoveShares, TypeOK, AtLeastZero
<1>4. saga' \in [Contracts -> SagaRows]
  <2>1. [view[r] EXCEPT !.step = "OWNERSHIP_TRANSFERRED", !.status = "IN_PROGRESS",
                        !.backoff = FALSE] \in SagaRows
    BY <1>1, RowTypes DEF LiveStatuses, Steps
  <2> QED BY <1>1, <2>1 DEF Settle, SaveView, TypeOK
<1>5. ContractTypes'
  <2>1. AccessTypes'
    BY TypeParts, AccessTypesKept DEF Settle, MoveShares, ContractTypes
  <2> QED BY <1>1, <1>3, <2>1 DEF Settle, ContractTypes, TypeOK
<1>6. FundsTypeOK'
  BY DEF Settle, TypeOK, FundsTypeOK, fundsVars
<1> QED BY <1>4, <1>5, <1>6

LEMMA InitTypes == Init => TypeOK
<1> SUFFICES ASSUME Init PROVE TypeOK
  OBVIOUS
<1>1. FundsTypeOK
  BY OpeningAssumption DEF Init, FundsInit, FundsTypeOK
<1>2. ContractTypes
  <2>1. AccessTypes
    BY ConstantTypes, SagaAssumption DEF Init, AccessTypes, Copies, NoCopy
  <2> QED BY <2>1, ConstantTypes DEF Init, ContractTypes
<1>3. NoSaga \in SagaRows
  BY ConstantTypes DEF NoSaga, SagaRows, Steps
<1>4. RunnerTypes
  <2>1. (CHOOSE c \in Contracts : TRUE) \in Contracts
    BY ConstantTypes
  <2> QED BY <1>3, <2>1 DEF Init, RunnerTypes, Places, Replies
<1> QED BY <1>1, <1>2, <1>3, <1>4, TypeParts DEF Init

\* The key of a call is always one of the table's keys: an attempt that is on
\* its way has a number, and numbers never fall back to zero.
Numbered(row) == row.attempt \in 1 .. MaxAttempts

KeysInUse ==
    /\ \A c \in Contracts : saga[c].status # "NONE" => Numbered(saga[c])
    /\ \A r \in Runners : pc[r] \notin {"idle", "lock", "load"} =>
         Numbered(view[r]) /\ Numbered(saga[job[r]])

TypeInv == TypeOK /\ KeysInUse

\* Storing an outcome keeps the numbers.
LEMMA OutcomeNumbers ==
    ASSUME TypeOK, NEW c \in Contracts, NEW step \in Steps,
           \/ AdvanceExecution(c, step) \/ ScheduleRetry(c, step)
           \/ ScheduleCompensating(c, step) \/ BeginCompensation(c, step)
           \/ MarkFailed(c, step)
    PROVE  \A d \in Contracts : /\ saga'[d].attempt = saga[d].attempt
                                /\ d # c => saga'[d] = saga[d]
<1>1. saga[c] \in SagaRows
  BY DEF TypeOK
<1>2. ASSUME NEW status \in LiveStatuses \cup TerminalStatuses, NEW backoff \in BOOLEAN,
             Store(c, [saga[c] EXCEPT !.step = step, !.status = status, !.backoff = backoff])
      PROVE  \A d \in Contracts : /\ saga'[d].attempt = saga[d].attempt
                                  /\ d # c => saga'[d] = saga[d]
  BY <1>1, <1>2 DEF Store, SagaRows, TypeOK
<1> QED
  BY <1>2 DEF AdvanceExecution, ScheduleRetry, ScheduleCompensating, BeginCompensation,
              MarkFailed, LiveStatuses, TerminalStatuses

\* A runner that stores an outcome and moves on keeps KeysInUse.
LEMMA OutcomeKeepsKeys ==
    ASSUME TypeInv, NEW r \in Runners, NEW c \in Contracts,
           pc[r] \notin {"idle", "lock", "load"}, c = job[r],
           UNCHANGED saga \/ \A d \in Contracts :
             saga'[d].attempt = saga[d].attempt /\ (d # c => saga'[d] = saga[d]),
           UNCHANGED <<job, view>> \/ Leave(r),
           \A q \in Runners : q # r => pc'[q] = pc[q]
    PROVE  KeysInUse'
<1>1. \A d \in Contracts : saga'[d].status # "NONE" => Numbered(saga'[d])
  BY DEF TypeInv, KeysInUse, Numbered
<1>2. ASSUME NEW q \in Runners, pc'[q] \notin {"idle", "lock", "load"}
      PROVE  Numbered(view'[q]) /\ Numbered(saga'[job'[q]])
  <2>1. job' = job /\ view'[q] = view[q]
    BY <1>2 DEF Leave, TypeInv, TypeOK
  <2>2. job[q] \in Contracts /\ saga'[job[q]].attempt = saga[job[q]].attempt
    BY DEF TypeInv, TypeOK
  <2>3. pc[q] \notin {"idle", "lock", "load"}
    BY <1>2
  <2> QED BY <2>1, <2>2, <2>3 DEF TypeInv, KeysInUse, Numbered
<1> QED BY <1>1, <1>2 DEF KeysInUse

\* Moves of a runner leave every other runner where it is.
LEMMA MoveKeepsOthers ==
    ASSUME TypeOK, NEW r \in Runners, NEW place,
           \/ Proceed(r, place) \/ Leave(r)
           \/ \E reply \in Replies : Answered(r, reply, place)
    PROVE  /\ \A q \in Runners : q # r =>
                pc'[q] = pc[q] /\ view'[q] = view[q] /\ answer'[q] = answer[q]
           /\ job' = job
           /\ view' = view \/ Leave(r)
  BY DEF TypeOK, Proceed, GoTo, Leave, Answered

\* A call to the bank, whose answer r carries to the next place.
LEMMA CallTypes ==
    ASSUME TypeInv, NEW r \in Runners, pc[r] \in {"F1", "F3", "C1", "C3"},
           NEW place \in Places, NEW reply \in Replies, Answered(r, reply, place),
           FundsTypeOK'
    PROVE  TypeInv'
<1>1. RunnerTypes' /\ ContractTypes' /\ saga' \in [Contracts -> SagaRows]
  <2>1. RunnerTypes' 
    BY MoveTypes, TypeParts DEF TypeInv
  <2>2. UNCHANGED <<contractVars, shareVars, saga>>
    BY DEF Answered
  <2> QED
    BY <2>1, <2>2, TypeParts DEF TypeInv, ContractTypes, AccessTypes, contractVars, shareVars
<1>2. KeysInUse'
  <2>1. job[r] \in Contracts
    BY DEF TypeInv, TypeOK
  <2>2. UNCHANGED <<job, view, saga>>
    BY DEF Answered, GoTo
  <2> QED BY <2>1, <2>2, OutcomeKeepsKeys, MoveKeepsOthers DEF TypeInv
<1> QED BY <1>1, <1>2, TypeParts DEF TypeInv

\* A transaction that stores an outcome and leaves contract and shares alone.
LEMMA OutcomeTypeInv ==
    ASSUME TypeInv, NEW r \in Runners, pc[r] \notin {"idle", "lock", "load"},
           NEW place \in Places, Proceed(r, place) \/ Leave(r),
           NEW step \in Steps,
           \/ UNCHANGED saga
           \/ AdvanceExecution(job[r], step) \/ ScheduleRetry(job[r], step)
           \/ ScheduleCompensating(job[r], step) \/ BeginCompensation(job[r], step)
           \/ MarkFailed(job[r], step),
           UNCHANGED <<fundsVars, contractVars, shareVars>>
    PROVE  TypeInv'
<1>1. job[r] \in Contracts /\ TypeOK
  BY DEF TypeInv, TypeOK
<1>2. RunnerTypes'
  BY MoveTypes, TypeParts DEF TypeInv
<1>3. FundsTypeOK' /\ ContractTypes'
  BY TypeParts DEF TypeInv, ContractTypes, AccessTypes, contractVars, shareVars, FundsTypeOK, fundsVars
<1>4. saga' \in [Contracts -> SagaRows]
  BY <1>1, OutcomeTypes DEF TypeOK
<1>5. \A d \in Contracts : saga'[d].attempt = saga[d].attempt
                           /\ (d # job[r] => saga'[d] = saga[d])
  BY <1>1, OutcomeNumbers
<1>6. KeysInUse'
  BY <1>1, <1>5, OutcomeKeepsKeys, MoveKeepsOthers
<1> QED BY <1>2, <1>3, <1>4, <1>6, TypeParts DEF TypeInv

LEMMA KeyInTable ==
    ASSUME TypeInv, NEW r \in Runners, pc[r] \notin {"idle", "lock", "load"}
    PROVE  Key(job[r], view[r]) \in Keys
  BY ConstantTypes DEF TypeInv, TypeOK, KeysInUse, Numbered, Key

\* Saving the row as the runner loaded it keeps the numbers too.
LEMMA SaveViewTypes ==
    ASSUME TypeInv, NEW r \in Runners, pc[r] \notin {"idle", "lock", "load"},
           NEW step \in Steps, SaveView(r, step), NEW place \in Places, Proceed(r, place)
    PROVE  saga' \in [Contracts -> SagaRows] /\ KeysInUse' /\ RunnerTypes'
<1>1. job[r] \in Contracts /\ view[r] \in SagaRows /\ TypeOK
  BY DEF TypeInv, TypeOK
<1> DEFINE new == [view[r] EXCEPT !.step = step, !.status = "IN_PROGRESS", !.backoff = FALSE]
<1>2. new \in SagaRows
  BY <1>1, RowTypes DEF LiveStatuses
<1>3. new.attempt = view[r].attempt
  BY <1>1 DEF SagaRows
<1>4. Numbered(new)
  BY <1>3 DEF TypeInv, KeysInUse, Numbered
<1> HIDE DEF new
<1>5. saga' = [saga EXCEPT ![job[r]] = new]
  BY DEF SaveView, new
<1>6. /\ job' = job /\ view' = view
      /\ \A q \in Runners : q # r => pc'[q] = pc[q]
  BY <1>1 DEF Proceed, GoTo, TypeOK
<1>7. \A c \in Contracts : saga'[c] = IF c = job[r] THEN new ELSE saga[c]
  BY <1>5, <1>1 DEF TypeOK
<1>8. KeysInUse'
  <2>1. \A c \in Contracts : saga'[c].status # "NONE" => Numbered(saga'[c])
    BY <1>4, <1>7 DEF TypeInv, KeysInUse
  <2>2. ASSUME NEW q \in Runners, pc'[q] \notin {"idle", "lock", "load"}
        PROVE  Numbered(view'[q]) /\ Numbered(saga'[job'[q]])
    <3>1. pc[q] \notin {"idle", "lock", "load"}
      BY <2>2, <1>6
    <3>2. job[q] \in Contracts
      BY <1>1 DEF TypeOK
    <3> QED BY <3>1, <3>2, <1>4, <1>6, <1>7 DEF TypeInv, KeysInUse
  <2> QED BY <2>1, <2>2 DEF KeysInUse
<1> QED BY <1>1, <1>2, <1>5, <1>8, MoveTypes, TypeParts DEF TypeOK

\* A runner finds the contract past its date, expires it and moves on.
LEMMA ExpiryTypeInv ==
    ASSUME TypeInv, NEW r \in Runners, pc[r] \notin {"idle", "lock", "load"},
           NEW place \in Places, Proceed(r, place), Expire(job[r]),
           UNCHANGED <<fundsVars, saga>>
    PROVE  TypeInv'
<1>1. job[r] \in Contracts /\ TypeOK
  BY DEF TypeInv, TypeOK
<1>2. RunnerTypes' /\ ContractTypes'
  BY <1>1, MoveTypes, ExpireTypes, TypeParts
<1>3. FundsTypeOK' /\ saga' \in [Contracts -> SagaRows]
  BY <1>1 DEF TypeOK, FundsTypeOK, fundsVars
<1>4. KeysInUse'
  BY <1>1, OutcomeKeepsKeys, MoveKeepsOthers
<1> QED BY <1>2, <1>3, <1>4, TypeParts DEF TypeInv

\* One step of a runner.
LEMMA RunnerStepTypes ==
    ASSUME TypeInv, NEW r \in Runners, RunnerStep(r)
    PROVE  TypeInv'
<1> DEFINE c == job[r]
<1>0. /\ TypeOK /\ FundsTypeOK /\ ContractTypes /\ RunnerTypes
      /\ c \in Contracts /\ view[r] \in SagaRows /\ view[r].step \in Steps
      /\ pc[r] \in Places
  BY TypeParts DEF TypeInv, TypeOK, SagaRows
<1>1. CASE AcquireLock(r)
  <2>1. RunnerTypes'
    BY <1>0, <1>1 DEF AcquireLock, RunnerTypes, Places
  <2>2. FundsTypeOK' /\ ContractTypes' /\ saga' = saga
    BY <1>0, <1>1 DEF AcquireLock, ContractTypes, AccessTypes, contractVars, shareVars, FundsTypeOK, fundsVars
  <2>3. KeysInUse'
    BY <1>0, <1>1 DEF AcquireLock, TypeInv, TypeOK, KeysInUse, Numbered
  <2> QED BY <2>1, <2>2, <2>3, TypeParts DEF TypeInv
<1>2. CASE LoadExecution(r)
  <2>1. FundsTypeOK' /\ ContractTypes' /\ saga' = saga
    BY <1>0, <1>2 DEF LoadExecution, ContractTypes, AccessTypes, contractVars, shareVars, FundsTypeOK, fundsVars
  <2>2. CASE Leave(r)
    <3>1. RunnerTypes'
      BY <1>0, <2>2, MoveTypes
    <3>2. KeysInUse'
      BY <1>0, <2>1, <2>2 DEF Leave, TypeInv, TypeOK, KeysInUse, Numbered
    <3> QED BY <2>1, <3>1, <3>2, TypeParts DEF TypeInv
  <2>3. CASE /\ Place(saga[c]) # "idle"
             /\ view' = [view EXCEPT ![r] = saga[c]]
             /\ pc' = [pc EXCEPT ![r] = Place(saga[c])]
             /\ answer' = [answer EXCEPT ![r] = "ok"]
             /\ UNCHANGED <<lock, job>>
    <3>1. saga[c] \in SagaRows
      BY <1>0 DEF TypeOK
    <3>2. Place(saga[c]) \in Places /\ saga[c].status # "NONE"
      BY <2>3, <3>1 DEF Place, Places
    <3>3. RunnerTypes'
      BY <1>0, <2>3, <3>1, <3>2 DEF RunnerTypes, Replies
    <3>4. KeysInUse'
      BY <1>0, <2>1, <2>3, <3>2 DEF TypeInv, TypeOK, KeysInUse, Numbered
    <3> QED BY <2>1, <3>3, <3>4, TypeParts DEF TypeInv
  <2> QED BY <1>2, <2>2, <2>3 DEF LoadExecution
<1>3. CASE ReserveFunds(r)
  <2>1. PICK reply \in Replies :
          Reserve(Key(c, view[r]), TermsOf(c), reply) /\ Answered(r, reply, "F1done")
    BY <1>3 DEF ReserveFunds
  <2>2. pc[r] = "F1"
    BY <1>3 DEF ReserveFunds
  <2>3. FundsTypeOK'
    BY <1>0, <2>1, <2>2, KeyInTable, TermsAreRequests, ReserveTypes
  <2> QED BY <2>1, <2>2, <2>3, CallTypes DEF Places
<1>4. CASE CommitFunds(r)
  <2>1. PICK reply \in Replies :
          Commit(Key(c, view[r]), reply) /\ Answered(r, reply, "F3done")
    BY <1>4 DEF CommitFunds
  <2>2. pc[r] = "F3"
    BY <1>4 DEF CommitFunds
  <2>3. FundsTypeOK'
    BY <1>0, <2>1, <2>2, KeyInTable, CommitTypes
  <2> QED BY <2>1, <2>2, <2>3, CallTypes DEF Places
<1>5. CASE ReleaseFunds(r)
  <2>1. PICK reply \in Replies :
          Release(Key(c, view[r]), reply) /\ Answered(r, reply, "C1done")
    BY <1>5 DEF ReleaseFunds
  <2>2. pc[r] = "C1"
    BY <1>5 DEF ReleaseFunds
  <2>3. FundsTypeOK'
    BY <1>0, <2>1, <2>2, KeyInTable, ReleaseTypes
  <2> QED BY <2>1, <2>2, <2>3, CallTypes DEF Places
<1>6. CASE RefundFunds(r)
  <2>1. PICK reply \in Replies :
          Refund(Key(c, view[r]), reply) /\ Answered(r, reply, "C3done")
    BY <1>6 DEF RefundFunds
  <2>2. pc[r] = "C3"
    BY <1>6 DEF RefundFunds
  <2>3. FundsTypeOK'
    BY <1>0, <2>1, <2>2, KeyInTable, RefundTypes
  <2> QED BY <2>1, <2>2, <2>3, CallTypes DEF Places
<1>7. CASE FinishReserve(r)
  <2>1. /\ pc[r] = "F1done"
        /\ \/ AdvanceExecution(c, "FUNDS_RESERVED") \/ MarkFailed(c, view[r].step)
           \/ ScheduleRetry(c, view[r].step)
        /\ Proceed(r, "load")
        /\ UNCHANGED <<fundsVars, contractVars, shareVars>>
    BY <1>0, <1>7 DEF FinishReserve, TypeOK, Replies
  <2> QED BY <1>0, <2>1, OutcomeTypeInv DEF Places, Steps
<1>8. CASE RetryConfirm(r)
  BY <1>0, <1>8, OutcomeTypeInv DEF RetryConfirm, Places
<1>9. CASE FinishCommit(r)
  <2>1. /\ pc[r] = "F3done"
        /\ \/ AdvanceExecution(c, "FUNDS_COMMITTED") \/ UNCHANGED saga
           \/ ScheduleRetry(c, view[r].step)
        /\ \E place \in Places : Proceed(r, place)
        /\ UNCHANGED <<fundsVars, contractVars, shareVars>>
    BY <1>0, <1>9 DEF FinishCommit, Places
  <2> QED BY <1>0, <2>1, OutcomeTypeInv DEF Steps
<1>10. CASE CompensateTransfer(r)
  BY <1>0, <1>10, OutcomeTypeInv DEF CompensateTransfer, Places, Steps
<1>11. CASE FinishCompensation(r)
  <2>1. PICK step \in Steps : MarkFailed(c, step) \/ ScheduleCompensating(c, step)
    BY <1>0, <1>11 DEF FinishCompensation, Steps
  <2>2. /\ pc[r] \notin {"idle", "lock", "load"}
        /\ Proceed(r, "load") \/ Leave(r)
        /\ UNCHANGED <<fundsVars, contractVars, shareVars>>
    BY <1>11 DEF FinishCompensation
  <2> QED BY <1>0, <2>1, <2>2, OutcomeTypeInv DEF Places
<1>12. CASE ConfirmShares(r)
  <2>1. pc[r] = "F2" /\ UNCHANGED fundsVars
    BY <1>12 DEF ConfirmShares
  <2>2. CASE Expire(c) /\ Proceed(r, "C1") /\ UNCHANGED saga
    BY <1>0, <2>1, <2>2, ExpiryTypeInv DEF Places
  <2>3. CASE UNCHANGED <<contractVars, shareVars, saga>> /\ Proceed(r, "C1")
    BY <1>0, <2>1, <2>3, OutcomeTypeInv DEF Places
  <2>4. CASE /\ SaveView(r, "SHARES_CONFIRMED") /\ Proceed(r, "load")
             /\ UNCHANGED <<contractVars, shareVars>>
    <3>1. ContractTypes' /\ FundsTypeOK'
      BY <1>0, <2>1, <2>4 DEF ContractTypes, AccessTypes, contractVars, shareVars, FundsTypeOK, fundsVars
    <3> QED BY <2>1, <2>4, <3>1, SaveViewTypes, TypeParts DEF Places, Steps, TypeInv
  <2> QED BY <1>12, <2>2, <2>3, <2>4 DEF ConfirmShares
<1>13. CASE TransferOwnership(r)
  <2>1. pc[r] = "F4"
    BY <1>13 DEF TransferOwnership
  <2>2. CASE Settle(r) /\ Proceed(r, "load")
    <3>1. SaveView(r, "OWNERSHIP_TRANSFERRED")
      BY <2>2 DEF Settle
    <3>2. KeysInUse' /\ RunnerTypes'
      BY <2>1, <2>2, <3>1, SaveViewTypes DEF Places, Steps
    <3> QED BY <1>0, <2>2, <3>2, SettleTypes, TypeParts DEF TypeInv
  <2>3. CASE Expire(c) /\ Proceed(r, "F4done") /\ UNCHANGED <<fundsVars, saga>>
    BY <1>0, <2>1, <2>3, ExpiryTypeInv DEF Places
  <2>4. CASE Proceed(r, "F4done") /\ UNCHANGED <<fundsVars, contractVars, shareVars, saga>>
    BY <1>0, <2>1, <2>4, OutcomeTypeInv DEF Places
  <2> QED BY <1>13, <2>2, <2>3, <2>4 DEF TransferOwnership
<1>14. CASE CompleteExecution(r)
  <2>1. /\ pc[r] = "F5" /\ Proceed(r, "load")
        /\ UNCHANGED <<fundsVars, contractVars, shareVars>>
    BY <1>14 DEF CompleteExecution
  <2>2. /\ saga' \in [Contracts -> SagaRows]
        /\ \A d \in Contracts : saga'[d].attempt = saga[d].attempt
                                /\ (d # c => saga'[d] = saga[d])
    <3> DEFINE new == [saga[c] EXCEPT !.step = "COMPLETED", !.status = "COMPLETED",
                                      !.backoff = FALSE]
    <3>1. saga[c] \in SagaRows /\ saga \in [Contracts -> SagaRows]
      BY <1>0 DEF TypeOK
    <3>2. new \in SagaRows
      BY <3>1, RowTypes DEF TerminalStatuses, Steps
    <3>3. saga' = saga \/ saga' = [saga EXCEPT ![c] = new]
      BY <1>0, <3>1, <1>14 DEF CompleteExecution
    <3>4. new.attempt = saga[c].attempt
      BY <3>1 DEF SagaRows
    <3> HIDE DEF new
    <3> QED BY <1>0, <3>1, <3>2, <3>3, <3>4
  <2>3. KeysInUse'
    BY <1>0, <2>1, <2>2, OutcomeKeepsKeys, MoveKeepsOthers
  <2>4. ContractTypes' /\ FundsTypeOK'
    BY <1>0, <2>1 DEF ContractTypes, AccessTypes, contractVars, shareVars, FundsTypeOK, fundsVars
  <2>5. RunnerTypes'
    BY <1>0, <2>1, MoveTypes DEF Places
  <2> QED BY <2>2, <2>3, <2>4, <2>5, TypeParts DEF TypeInv
<1> QED
  BY <1>1, <1>2, <1>3, <1>4, <1>5, <1>6, <1>7, <1>8, <1>9, <1>10, <1>11, <1>12,
     <1>13, <1>14 DEF RunnerStep

LEMMA EnsureTypes ==
    ASSUME TypeInv, NEW r \in Runners, NEW c \in Contracts, EnsureExecutionSaga(r, c)
    PROVE  TypeInv'
<1>0. /\ TypeOK /\ FundsTypeOK /\ ContractTypes /\ RunnerTypes
      /\ saga \in [Contracts -> SagaRows] /\ saga[c] \in SagaRows
  BY TypeParts DEF TypeInv, TypeOK
<1>1. FundsTypeOK'
  BY <1>0 DEF EnsureExecutionSaga, FundsTypeOK, fundsVars
<1>2. CASE ResumeSaga(r, c)
  <2>1. [saga[c] EXCEPT !.backoff = FALSE] \in SagaRows
    BY <1>0 DEF SagaRows
  <2>2. saga' = [saga EXCEPT ![c] = [saga[c] EXCEPT !.backoff = FALSE]]
    BY <1>0, <1>2 DEF ResumeSaga
  <2>3. \A d \in Contracts : saga'[d].attempt = saga[d].attempt
                             /\ saga'[d].status = saga[d].status
    BY <1>0, <2>2 DEF SagaRows
  <2>4. RunnerTypes' /\ ContractTypes'
    BY <1>0, <1>2 DEF ResumeSaga, RunnerTypes, Places, ContractTypes, AccessTypes, contractVars, shareVars
  <2>5. KeysInUse'
    BY <1>0, <1>2, <2>3 DEF ResumeSaga, TypeInv, TypeOK, KeysInUse, Numbered
  <2>6. saga' \in [Contracts -> SagaRows]
    BY <1>0, <2>1, <2>2
  <2> QED BY <1>1, <2>4, <2>5, <2>6, TypeParts DEF TypeInv
<1>3. CASE StartSaga(r, c)
  <2> DEFINE new == [step |-> "INIT", status |-> "IN_PROGRESS",
                     attempt |-> saga[c].attempt + 1, backoff |-> FALSE]
  <2>1. saga[c].attempt + 1 \in 1 .. MaxAttempts
    BY <1>0, <1>3, ConstantTypes DEF StartSaga, SagaRows
  <2>2. new \in SagaRows /\ Numbered(new)
    BY <2>1 DEF SagaRows, Numbered, Steps, LiveStatuses
  <2>3. saga' = [saga EXCEPT ![c] = new]
    BY <1>3 DEF StartSaga
  <2> HIDE DEF new
  <2>4. RunnerTypes' /\ ContractTypes'
    BY <1>0, <1>3 DEF StartSaga, RunnerTypes, Places, ContractTypes, AccessTypes, contractVars, shareVars
  <2>5. KeysInUse'
    <3>1. /\ pc' = [pc EXCEPT ![r] = "lock"] /\ job' = [job EXCEPT ![r] = c] /\ view' = view
          /\ r \in Runners /\ pc \in [Runners -> Places] /\ job \in [Runners -> Contracts]
      BY <1>0, <1>3 DEF StartSaga, RunnerTypes, Runners
    <3>2. \A d \in Contracts : saga'[d] = IF d = c THEN new ELSE saga[d]
      BY <1>0, <2>3
    <3>3. \A d \in Contracts : saga'[d].status # "NONE" => Numbered(saga'[d])
      BY <2>2, <3>2 DEF TypeInv, KeysInUse
    <3>4. ASSUME NEW q \in Runners, pc'[q] \notin {"idle", "lock", "load"}
          PROVE  Numbered(view'[q]) /\ Numbered(saga'[job'[q]])
      <4>1. q # r /\ pc[q] \notin {"idle", "lock", "load"} /\ job'[q] = job[q] /\ job[q] \in Contracts
        BY <3>1, <3>4
      <4>2. Numbered(view[q]) /\ Numbered(saga[job[q]])
        BY <4>1 DEF TypeInv, KeysInUse
      <4> QED BY <2>2, <3>1, <3>2, <4>1, <4>2
    <3> QED BY <3>3, <3>4 DEF KeysInUse, Numbered
  <2>6. saga' \in [Contracts -> SagaRows]
    BY <1>0, <2>2, <2>3
  <2> QED BY <1>1, <2>4, <2>5, <2>6, TypeParts DEF TypeInv
<1>4. CASE ExpireOnRequest(c)
  <2>1. UNCHANGED <<saga, runnerVars>> /\ Expire(c)
    BY <1>4 DEF ExpireOnRequest
  <2>2. ContractTypes'
    BY <1>0, <2>1, ExpireTypes
  <2>3. RunnerTypes' /\ saga' = saga /\ KeysInUse'
    BY <1>0, <2>1 DEF RunnerTypes, runnerVars, TypeInv, KeysInUse, Numbered
  <2> QED BY <1>0, <1>1, <2>2, <2>3, TypeParts DEF TypeInv
<1> QED BY <1>2, <1>3, <1>4 DEF EnsureExecutionSaga

LEMMA PickTypes ==
    ASSUME TypeInv, NEW c \in Contracts, PickPending(c)
    PROVE  TypeInv'
<1>1. RunnerTypes'
  BY TypeParts, ConstantTypes DEF PickPending, TypeInv, RunnerTypes, Places
<1>2. FundsTypeOK' /\ ContractTypes' /\ saga' = saga
  BY TypeParts DEF PickPending, TypeInv, ContractTypes, AccessTypes, contractVars, shareVars,
                   FundsTypeOK, fundsVars
<1>3. KeysInUse'
  BY ConstantTypes DEF PickPending, TypeInv, TypeOK, KeysInUse, Numbered
<1> QED BY <1>1, <1>2, <1>3, TypeParts DEF TypeInv

\* Reading and writing an ownership row beside the saga leaves the rest alone.
LEMMA AccessRest ==
    ASSUME NEW u, OwnershipAccess(u)
    PROVE  UNCHANGED <<fundsVars, contractVars, saga, runnerVars>>
BY DEF OwnershipAccess, FindOwnership, UpsertOwnership, UpdateOTCFields, DropOwnership, PutBack

LEMMA CopyTypes ==
    ASSUME ContractTypes, NEW u \in Users
    PROVE  /\ NoCopy \in Copies
           /\ copy[u].shares \in Int /\ copy[u].public \in Int /\ copy[u].reserved \in Int
           /\ [held |-> TRUE, shares |-> shares[u], public |-> public[u],
               reserved |-> reserved[u], ended |-> Ended] \in Copies
<1>1. Ended \in SUBSET Contracts
  BY DEF Ended
<1>2. NoCopy \in Copies /\ copy[u] \in Copies
  BY DEF NoCopy, Copies, ContractTypes, AccessTypes
<1>3. copy[u].shares \in Int /\ copy[u].public \in Int /\ copy[u].reserved \in Int
  BY <1>2 DEF Copies
<1>4. shares[u] \in Int /\ public[u] \in Int /\ reserved[u] \in Int
  BY DEF ContractTypes
<1> QED BY <1>1, <1>2, <1>3, <1>4 DEF Copies

LEMMA AccessKeepsTypes ==
    ASSUME ContractTypes, NEW u \in Users, OwnershipAccess(u)
    PROVE  ContractTypes'
<1>1. UNCHANGED <<contract, due, shareRes>>
  BY AccessRest DEF contractVars
<1>2. AccessTypes /\ Ended \in SUBSET Contracts /\ Consumed \in SUBSET Contracts
  BY DEF ContractTypes, Ended, Consumed
<1>3. CASE FindOwnership(u)
  <2>1. copy' \in [Users -> Copies]
    BY <1>2, <1>3, CopyTypes DEF FindOwnership, AccessTypes
  <2>2. accesses' = accesses + 1 /\ accesses < MaxAccesses /\ accesses \in 0 .. MaxAccesses
    BY <1>2, <1>3 DEF FindOwnership, AccessTypes
  <2>3. accesses' \in 0 .. MaxAccesses
    BY <2>2, SagaAssumption
  <2> QED BY <1>1, <1>2, <1>3, <2>1, <2>3 DEF FindOwnership, ContractTypes, AccessTypes
<1>4. ASSUME NEW published \in Int, PutBack(u, published)
      PROVE  /\ public' \in [Users -> Int] /\ reserved' \in [Users -> Int]
             /\ lostFrees' \in [Users -> SUBSET Contracts] /\ copy' \in [Users -> Copies]
             /\ accesses' \in 0 .. MaxAccesses
  BY <1>2, <1>4, CopyTypes DEF PutBack, ContractTypes, AccessTypes
<1>5. CASE UpsertOwnership(u)
  <2>1. PutBack(u, copy[u].public) /\ copy[u].public \in Int
    BY <1>5, CopyTypes DEF UpsertOwnership
  <2>2. PICK d \in {-1, 1} : /\ shares' = [shares EXCEPT ![u] = copy[u].shares + d]
                             /\ traded' = [traded EXCEPT ![u] = @ + d]
    BY <1>5 DEF UpsertOwnership
  <2>3. shares' \in [Users -> Int] /\ traded' \in [Users -> Int]
    <3>1. copy[u].shares \in Int
      BY CopyTypes
    <3>2. traded[u] \in Int /\ d \in Int
      BY <1>2 DEF AccessTypes
    <3>3. copy[u].shares + d \in Int /\ traded[u] + d \in Int
      BY <3>1, <3>2
    <3> QED BY <1>2, <2>2, <3>3 DEF ContractTypes, AccessTypes
  <2>4. lostMoves' \in [Users -> SUBSET Contracts]
    BY <1>2, <1>5 DEF UpsertOwnership, AccessTypes
  <2> QED BY <1>1, <1>2, <1>4, <2>1, <2>3, <2>4 DEF ContractTypes, AccessTypes
<1>6. CASE UpdateOTCFields(u)
  <2>1. PICK n \in {0, 1} : PutBack(u, copy[u].public + n)
    BY <1>6 DEF UpdateOTCFields
  <2>2. copy[u].public \in Int
    BY CopyTypes
  <2>3. copy[u].public + n \in Int
    BY <2>2
  <2> QED BY <1>1, <1>2, <1>4, <1>6, <2>1, <2>3 DEF UpdateOTCFields, ContractTypes, AccessTypes
<1>7. CASE DropOwnership(u)
  BY <1>1, <1>2, <1>7, CopyTypes DEF DropOwnership, ContractTypes, AccessTypes
<1> QED BY <1>3, <1>5, <1>6, <1>7 DEF OwnershipAccess

LEMMA EnvironmentTypes ==
    ASSUME TypeInv, Environment
    PROVE  TypeInv'
<1>0. /\ TypeOK /\ FundsTypeOK /\ ContractTypes /\ RunnerTypes
      /\ saga \in [Contracts -> SagaRows]
  BY TypeParts DEF TypeInv, TypeOK
<1>1. RunnerTypes'
  BY <1>0, AccessRest DEF Environment, SettlementDatePasses, RetryDelayPasses, ExpireContract,
              AccountActivity, sagaVars, runnerVars, RunnerTypes
<1>2. ASSUME UNCHANGED <<saga, runnerVars>> PROVE KeysInUse' /\ saga' \in [Contracts -> SagaRows]
  BY <1>0, <1>2 DEF TypeInv, KeysInUse, Numbered, runnerVars
<1>3. ASSUME NEW c \in Contracts, SettlementDatePasses(c) PROVE TypeInv'
  BY <1>0, <1>1, <1>2, <1>3, TypeParts
     DEF SettlementDatePasses, TypeInv, ContractTypes, AccessTypes, shareVars, FundsTypeOK, fundsVars
<1>4. ASSUME NEW c \in Contracts, RetryDelayPasses(c) PROVE TypeInv'
  <2>1. /\ saga[c] \in SagaRows
        /\ saga' = [saga EXCEPT ![c] = [saga[c] EXCEPT !.backoff = FALSE]]
    BY <1>0, <1>4 DEF RetryDelayPasses
  <2>2. [saga[c] EXCEPT !.backoff = FALSE] \in SagaRows
    BY <2>1 DEF SagaRows
  <2>3. saga' \in [Contracts -> SagaRows]
    BY <1>0, <2>1, <2>2
  <2>4. \A d \in Contracts : saga'[d].attempt = saga[d].attempt
                             /\ saga'[d].status = saga[d].status
    BY <1>0, <2>1 DEF SagaRows
  <2>5. KeysInUse'
    BY <1>0, <1>4, <2>4 DEF RetryDelayPasses, runnerVars, TypeInv, TypeOK, KeysInUse, Numbered
  <2>6. FundsTypeOK' /\ ContractTypes'
    BY <1>0, <1>4 DEF RetryDelayPasses, ContractTypes, AccessTypes, contractVars, shareVars,
                      FundsTypeOK, fundsVars
  <2> QED BY <1>1, <2>3, <2>5, <2>6, TypeParts DEF TypeInv
<1>5. ASSUME NEW c \in Contracts, ExpireContract(c) PROVE TypeInv'
  <2>1. Expire(c) /\ UNCHANGED <<fundsVars, saga, runnerVars>>
    BY <1>5 DEF ExpireContract
  <2>2. ContractTypes' /\ FundsTypeOK'
    BY <1>0, <2>1, ExpireTypes DEF FundsTypeOK, fundsVars
  <2> QED BY <1>1, <1>2, <2>1, <2>2, TypeParts DEF TypeInv
<1>6. ASSUME NEW u \in Users, OwnershipAccess(u) PROVE TypeInv'
  <2>1. UNCHANGED <<fundsVars, contractVars, saga, runnerVars>>
    BY <1>6, AccessRest
  <2>2. FundsTypeOK'
    BY <1>0, <2>1 DEF FundsTypeOK, fundsVars
  <2>3. ContractTypes'
    BY <1>0, <1>6, AccessKeepsTypes
  <2> QED BY <1>1, <1>2, <2>1, <2>2, <2>3, TypeParts DEF TypeInv
<1>7. ASSUME NEW a \in Accounts, AccountActivity(a) PROVE TypeInv'
  <2>1. FundsTypeOK'
    BY <1>0, <1>7 DEF AccountActivity, Withdraw, Deposit, FundsTypeOK
  <2>2. ContractTypes' /\ UNCHANGED <<saga, runnerVars>>
    BY <1>0, <1>7 DEF AccountActivity, sagaVars, ContractTypes, AccessTypes, contractVars, shareVars
  <2> QED BY <1>1, <1>2, <2>1, <2>2, TypeParts DEF TypeInv
<1> QED BY <1>3, <1>4, <1>5, <1>6, <1>7 DEF Environment

LEMMA FaultTypes ==
    ASSUME TypeInv, NEW r \in Runners, Fault(r)
    PROVE  TypeInv'
<1> DEFINE c == job[r]
<1>0. /\ TypeOK /\ FundsTypeOK /\ ContractTypes /\ RunnerTypes
      /\ c \in Contracts
  BY TypeParts DEF TypeInv, TypeOK
<1>1. CASE Abort(r)
  <2>1. Leave(r) /\ UNCHANGED <<fundsVars, contractVars, shareVars, saga>>
    BY <1>1 DEF Abort
  <2>2. FundsTypeOK' /\ ContractTypes'
    BY <1>0, <2>1 DEF ContractTypes, AccessTypes, contractVars, shareVars, FundsTypeOK, fundsVars
  <2>3. RunnerTypes'
    <3>1. "idle" \in Places
      BY DEF Places
    <3> QED BY <1>0, <2>1, <3>1, MoveTypes
  <2>4. KeysInUse'
    BY <1>0, <2>1 DEF Leave, TypeInv, TypeOK, KeysInUse, Numbered
  <2> QED BY <1>0, <2>1, <2>2, <2>3, <2>4, TypeParts DEF TypeInv, TypeOK
<1>2. CASE CallFails(r)
  <2>1. pc[r] \in {"F1", "F3", "C1", "C3"}
    BY <1>2 DEF CallFails
  <2>2. Key(c, view[r]) \in Keys
    BY <2>1, KeyInTable
  <2>3. FundsTypeOK'
    BY <1>0, <1>2, <2>2, TermsAreRequests, ReserveTypes, CommitTypes, ReleaseTypes, RefundTypes
       DEF CallFails, FundsTypeOK, fundsVars
  <2>4. \E place \in Places : Answered(r, "error", place)
    BY <1>2 DEF CallFails, Places
  <2> QED BY <2>1, <2>3, <2>4, CallTypes DEF Replies
<1>3. CASE TransactionFails(r)
  <2>1. /\ pc[r] \in {"F2", "F4"}
        /\ \E place \in Places : Proceed(r, place)
        /\ UNCHANGED <<fundsVars, contractVars, shareVars, saga>>
    BY <1>3 DEF TransactionFails, Places
  <2> QED BY <1>0, <2>1, OutcomeTypeInv DEF Steps
<1>4. CASE TransferUnacknowledged(r)
  <2>1. pc[r] = "F4" /\ Settle(r) /\ Proceed(r, "F4done")
    BY <1>4 DEF TransferUnacknowledged
  <2>2. SaveView(r, "OWNERSHIP_TRANSFERRED")
    BY <2>1 DEF Settle
  <2>3. KeysInUse' /\ RunnerTypes'
    BY <2>1, <2>2, SaveViewTypes DEF Places, Steps
  <2> QED BY <1>0, <2>1, <2>3, SettleTypes, TypeParts DEF TypeInv
<1>5. CASE ConfirmNotSaved(r)
  <2>1. /\ view' = [view EXCEPT ![r].step = "SHARES_CONFIRMED"]
        /\ pc' = [pc EXCEPT ![r] = "F2done"]
        /\ UNCHANGED <<fundsVars, contractVars, shareVars, saga, lock, job, answer>>
    BY <1>5 DEF ConfirmNotSaved
  <2>2. FundsTypeOK' /\ ContractTypes'
    BY <1>0, <2>1 DEF ContractTypes, AccessTypes, contractVars, shareVars, FundsTypeOK, fundsVars
  <2>3. /\ view'[r] = [view[r] EXCEPT !.step = "SHARES_CONFIRMED"]
        /\ view'[r] \in SagaRows /\ view'[r].attempt = view[r].attempt
        /\ \A q \in Runners : q # r => view'[q] = view[q]
        /\ pc'[r] = "F2done" /\ \A q \in Runners : q # r => pc'[q] = pc[q]
    <3>1. /\ view \in [Runners -> SagaRows] /\ pc \in [Runners -> Places]
          /\ view[r] \in SagaRows
      BY <1>0 DEF RunnerTypes
    <3>2. [view[r] EXCEPT !.step = "SHARES_CONFIRMED"] \in SagaRows
      BY <3>1 DEF SagaRows, Steps
    <3>3. [view[r] EXCEPT !.step = "SHARES_CONFIRMED"].attempt = view[r].attempt
      BY <3>1 DEF SagaRows
    <3>4. \A q \in Runners : view'[q] = IF q = r
                                THEN [view[r] EXCEPT !.step = "SHARES_CONFIRMED"] ELSE view[q]
      BY <2>1, <3>1
    <3>5. \A q \in Runners : pc'[q] = IF q = r THEN "F2done" ELSE pc[q]
      BY <2>1, <3>1
    <3>6. view'[r] = [view[r] EXCEPT !.step = "SHARES_CONFIRMED"]
      BY <3>4
    <3>7. view'[r] \in SagaRows /\ view'[r].attempt = view[r].attempt
      BY <3>2, <3>3, <3>6
    <3> QED BY <3>4, <3>5, <3>6, <3>7
  <2>4. RunnerTypes'
    BY <1>0, <2>1, <2>3 DEF RunnerTypes, Places
  <2>5. pc[r] = "F2"
    BY <1>5 DEF ConfirmNotSaved
  <2>6. KeysInUse'
    BY <1>0, <2>1, <2>3, <2>5 DEF TypeInv, KeysInUse, Numbered, TypeOK
  <2>7. saga' \in [Contracts -> SagaRows]
    BY <1>0, <2>1 DEF TypeOK
  <2> QED BY <2>2, <2>4, <2>6, <2>7, TypeParts DEF TypeInv
<1> QED BY <1>1, <1>2, <1>3, <1>4, <1>5 DEF Fault

LEMMA TypeInvStep == TypeInv /\ [Next]_vars => TypeInv'
<1> SUFFICES ASSUME TypeInv, [Next]_vars PROVE TypeInv'
  OBVIOUS
<1>1. CASE UNCHANGED vars
  BY <1>1 DEF vars, sagaVars, contractVars, shareVars, runnerVars, fundsVars, TypeInv, TypeOK,
              FundsTypeOK, KeysInUse, Numbered
<1>2. ASSUME NEW r \in Requesters, NEW c \in Contracts, EnsureExecutionSaga(r, c)
      PROVE  TypeInv'
  BY <1>2, EnsureTypes DEF Runners
<1> QED
  BY <1>1, <1>2, PickTypes, RunnerStepTypes, EnvironmentTypes, FaultTypes
     DEF Next, FaultlessNext

\* Every variable stays in its range, and no runner ever calls the bank with a
\* key that does not exist: under any number of requests, failures and crashes.
THEOREM TypeCorrect == Spec => []TypeOK
<1>1. Init => TypeInv
  <2>1. Init => KeysInUse
    BY DEF Init, KeysInUse, NoSaga
  <2> QED BY <2>1, InitTypes DEF TypeInv
<1>2. TypeInv /\ [Next]_vars => TypeInv'
  BY TypeInvStep
<1>3. TypeInv => TypeOK
  BY DEF TypeInv
<1> QED BY <1>1, <1>2, <1>3, PTL DEF Spec

-----------------------------------------------------------------------------
(* The saga invariant.  The runner that holds the mutex of a contract is the *)
(* only one whose place depends on the row of that contract, so a step has   *)
(* to be checked for its own contract and runner alone.                      *)

Inv == TypeInv /\ SagaInv

LEMMA InvParts ==
    ASSUME Inv
    PROVE  /\ TypeInv /\ TypeOK
           /\ \A c \in Contracts : RowMatchesBank(c) /\ ContractMatchesRow(c) /\ TermsAreKept(c)
           /\ \A r \in Runners : MutexHeld(r) /\ RunnerMatchesRow(r)
  BY DEF Inv, SagaInv

\* What a runner between two steps of the saga knows.
Knows(r) == /\ pc[r] \notin {"idle", "lock", "load"}
            /\ job[r] \in Contracts
            /\ lock[job[r]] = r
            /\ view[r] \in SagaRows /\ saga[job[r]] \in SagaRows
            /\ saga[job[r]].status \in LiveStatuses
            /\ saga[job[r]].status = view[r].status
            /\ saga[job[r]].step = StoredStep(pc[r], view[r])
            /\ saga[job[r]].attempt = view[r].attempt
            /\ view[r].attempt \in Attempts
            /\ PlaceMatchesView(pc[r], view[r])
            /\ AnswerMatchesBank(pc[r], answer[r], StatusOf(job[r], view[r].attempt))
            /\ StatusOf(job[r], view[r].attempt) \in BankStatuses(saga[job[r]])

LEMMA RunnerKnows ==
    ASSUME Inv, NEW r \in Runners, pc[r] \notin {"idle", "lock", "load"}
    PROVE  Knows(r)
<1>1. /\ job[r] \in Contracts /\ view[r] \in SagaRows /\ saga[job[r]] \in SagaRows
      /\ Processing(r) /\ MutexHeld(r) /\ RunnerMatchesRow(r)
      /\ RowMatchesBank(job[r])
  BY InvParts DEF TypeOK, Processing
<1>2. /\ saga[job[r]].status \in LiveStatuses
      /\ saga[job[r]].status = view[r].status
      /\ saga[job[r]].step = StoredStep(pc[r], view[r])
      /\ saga[job[r]].attempt = view[r].attempt
      /\ PlaceMatchesView(pc[r], view[r])
      /\ AnswerMatchesBank(pc[r], answer[r], StatusOf(job[r], view[r].attempt))
  BY <1>1 DEF RunnerMatchesRow
<1>3. saga[job[r]].status # "NONE"
  BY <1>2 DEF LiveStatuses
<1>4. /\ saga[job[r]].attempt \in Attempts
      /\ StatusOf(job[r], saga[job[r]].attempt) \in BankStatuses(saga[job[r]])
  BY <1>1, <1>3 DEF RowMatchesBank, NoSaga
<1> QED BY <1>1, <1>2, <1>4 DEF Knows, MutexHeld

\* The frame: a runner that holds the mutex of c changes nothing that another
\* contract or another runner depends on.
LEMMA OneContractStep ==
    ASSUME Inv, TypeInv', NEW r \in Runners, Processing(r), NEW c \in Contracts, c = job[r],
           \A d \in Contracts : d # c =>
             /\ saga'[d] = saga[d] /\ contract'[d] = contract[d] /\ shareRes'[d] = shareRes[d]
             /\ \A n \in Attempts : reservation'[<<d, n>>] = reservation[<<d, n>>],
           \A q \in Runners : q # r =>
             pc'[q] = pc[q] /\ view'[q] = view[q] /\ answer'[q] = answer[q],
           job' = job,
           lock' = lock \/ Leave(r),
           RowMatchesBank(c)', ContractMatchesRow(c)', TermsAreKept(c)', RunnerMatchesRow(r)'
    PROVE  Inv'
<1>1. ASSUME NEW d \in Contracts, d # c
      PROVE  RowMatchesBank(d)' /\ ContractMatchesRow(d)' /\ TermsAreKept(d)'
  <2>1. RowMatchesBank(d) /\ ContractMatchesRow(d) /\ TermsAreKept(d)
    BY InvParts
  <2>2. \A n \in Attempts : StatusOf(d, n)' = StatusOf(d, n)
    BY <1>1 DEF StatusOf, Status
  <2>3. RowMatchesBank(d)'
    <3>1. CASE saga[d] = NoSaga /\ \A n \in Attempts : StatusOf(d, n) = "NONE"
      BY <1>1, <2>2, <3>1 DEF RowMatchesBank
    <3>2. CASE saga[d].status # "NONE" /\ saga[d].attempt \in Attempts
      BY <1>1, <2>1, <2>2, <3>2 DEF RowMatchesBank, NoSaga
    <3> QED BY <2>1, <3>1, <3>2 DEF RowMatchesBank
  <2>4. ContractMatchesRow(d)' /\ TermsAreKept(d)'
    BY <1>1, <2>1 DEF ContractMatchesRow, TermsAreKept
  <2> QED BY <2>3, <2>4
<1>2. lock[c] = r
  BY InvParts DEF MutexHeld
<1>3. ASSUME NEW q \in Runners, q # r, Processing(q)
      PROVE  job[q] \in Contracts /\ job[q] # c /\ lock'[job[q]] = q
  <2>1. job[q] \in Contracts /\ lock[job[q]] = q
    BY <1>3, InvParts DEF MutexHeld, TypeOK
  <2> QED BY <1>2, <1>3, <2>1, InvParts DEF Leave, TypeOK
<1>4. ASSUME NEW q \in Runners, q # r
      PROVE  MutexHeld(q)' /\ RunnerMatchesRow(q)'
  <2>1. MutexHeld(q)'
    BY <1>3, <1>4 DEF MutexHeld, Processing
  <2>2. ASSUME Processing(q), pc[q] # "load"
        PROVE  StatusOf(job[q], view[q].attempt)' = StatusOf(job[q], view[q].attempt)
    <3>1. Knows(q)
      BY <2>2, RunnerKnows DEF Processing
    <3> QED BY <1>3, <1>4, <2>2, <3>1 DEF Knows, StatusOf, Status
  <2>3. RunnerMatchesRow(q)'
    <3>1. CASE ~(Processing(q) /\ pc[q] # "load")
      BY <1>4, <3>1 DEF RunnerMatchesRow, Processing
    <3>2. CASE Processing(q) /\ pc[q] # "load"
      <4>1. RunnerMatchesRow(q) /\ saga'[job[q]] = saga[job[q]]
        BY <1>3, <1>4, <3>2, InvParts
      <4> QED BY <1>4, <2>2, <3>2, <4>1 DEF RunnerMatchesRow
    <3> QED BY <3>1, <3>2
  <2> QED BY <2>1, <2>3
<1>5. MutexHeld(r)'
  <2>1. CASE Leave(r)
    BY <2>1, InvParts DEF Leave, MutexHeld, Processing, TypeOK
  <2>2. CASE lock' = lock
    BY <1>2, <2>2 DEF MutexHeld, Processing
  <2> QED BY <2>1, <2>2
<1>6. TypeOK'
  BY DEF TypeInv
<1> QED BY <1>1, <1>4, <1>5, <1>6 DEF Inv, SagaInv

\* A call to the bank: one key changes, and the runner carries the answer.
LEMMA CallKeepsInv ==
    ASSUME Inv, TypeInv', NEW r \in Runners, pc[r] \in {"F1", "F3", "C1", "C3"},
           NEW c \in Contracts, c = job[r],
           NEW n \in Attempts, n = view[r].attempt,
           NEW reply \in Replies, NEW place \in Places, place # "F2done",
           Answered(r, reply, place),
           \A j \in Keys : j # <<c, n>> => reservation'[j] = reservation[j],
           StatusOf(c, n)' \in BankStatuses(saga[c]),
           \/ reservation'[<<c, n>>] = NoReservation
           \/ reservation'[<<c, n>>].request = TermsOf(c),
           PlaceMatchesView(place, view[r]),
           AnswerMatchesBank(place, reply, StatusOf(c, n)')
    PROVE  Inv'
<1>1. Knows(r)
  BY RunnerKnows
<1>2. \A d \in Contracts, m \in Attempts :
        d # c \/ m # n => reservation'[<<d, m>>] = reservation[<<d, m>>]
  BY <1>1, ConstantTypes DEF Attempts
<1>3. /\ UNCHANGED <<saga, contract, shareRes, job, view, lock>>
      /\ pc' = [pc EXCEPT ![r] = place] /\ answer' = [answer EXCEPT ![r] = reply]
  BY DEF Answered, GoTo, contractVars
<1>4. /\ pc'[r] = place /\ answer'[r] = reply
      /\ \A q \in Runners : q # r => pc'[q] = pc[q] /\ answer'[q] = answer[q]
  BY <1>3, InvParts DEF TypeOK
<1>5. RowMatchesBank(c)'
  <2>1. RowMatchesBank(c) /\ saga[c].status # "NONE" /\ saga[c].attempt = n
    BY <1>1, InvParts DEF Knows, LiveStatuses
  <2>2. \A m \in Attempts : m # n => StatusOf(c, m)' = StatusOf(c, m)
    BY <1>2 DEF StatusOf, Status
  <2>3. saga[c].attempt \in Nat /\ Attempts \subseteq Nat
    BY <1>1, ConstantTypes DEF Knows, Attempts
  <2> QED BY <1>3, <2>1, <2>2, <2>3 DEF RowMatchesBank, NoSaga
<1>6. ContractMatchesRow(c)'
  BY <1>3, InvParts DEF ContractMatchesRow
<1>7. TermsAreKept(c)'
  BY <1>1, <1>2, InvParts DEF TermsAreKept
<1>8. RunnerMatchesRow(r)'
  BY <1>1, <1>3, <1>4 DEF Knows, RunnerMatchesRow, StoredStep
<1> QED
  BY <1>1, <1>2, <1>3, <1>4, <1>5, <1>6, <1>7, <1>8, OneContractStep DEF Processing

\* The outcome is stored: the row changes, and the runner goes back to the head
\* of the loop, or leaves.
LEMMA NewRowKeepsInv ==
    ASSUME Inv, TypeInv', NEW r \in Runners, pc[r] \notin {"idle", "lock", "load"},
           NEW c \in Contracts, c = job[r],
           Proceed(r, "load") \/ Leave(r),
           UNCHANGED reservation,
           \A d \in Contracts : d # c =>
             saga'[d] = saga[d] /\ contract'[d] = contract[d] /\ shareRes'[d] = shareRes[d],
           saga'[c].attempt = saga[c].attempt, saga'[c].status # "NONE",
           StatusOf(c, saga[c].attempt) \in BankStatuses(saga'[c]),
           ContractMatchesRow(c)'
    PROVE  Inv'
<1>1. Knows(r) /\ Processing(r)
  BY RunnerKnows DEF Processing
<1>2. /\ pc'[r] \in {"load", "idle"}
      /\ \A q \in Runners : q # r =>
           pc'[q] = pc[q] /\ view'[q] = view[q] /\ answer'[q] = answer[q]
      /\ job' = job
      /\ lock' = lock \/ Leave(r)
  BY InvParts DEF Proceed, GoTo, Leave, TypeOK
<1>3. RowMatchesBank(c)'
  <2>1. RowMatchesBank(c) /\ saga[c].status # "NONE"
    BY <1>1, InvParts DEF Knows, LiveStatuses
  <2>2. \A m \in Attempts : StatusOf(c, m)' = StatusOf(c, m)
    BY DEF StatusOf, Status
  <2> QED BY <2>1, <2>2 DEF RowMatchesBank, NoSaga
<1>4. TermsAreKept(c)'
  BY InvParts DEF TermsAreKept
<1>5. RunnerMatchesRow(r)'
  BY <1>2 DEF RunnerMatchesRow, Processing
<1> QED BY <1>1, <1>2, <1>3, <1>4, <1>5, OneContractStep

\* Nothing is stored, unless the contract expires: the runner goes on to a place
\* that fits the row it has loaded.
LEMMA MoveKeepsInv ==
    ASSUME Inv, TypeInv', NEW r \in Runners, pc[r] \notin {"idle", "lock", "load"},
           NEW c \in Contracts, c = job[r],
           NEW place \in Places, Proceed(r, place),
           UNCHANGED <<reservation, saga>>,
           UNCHANGED contractVars \/ (ShouldExpire(c) /\ Expire(c)),
           PlaceMatchesView(place, view[r]),
           StoredStep(place, view[r]) = saga[c].step,
           AnswerMatchesBank(place, answer[r], StatusOf(c, view[r].attempt))
    PROVE  Inv'
<1>1. Knows(r) /\ Processing(r)
  BY RunnerKnows DEF Processing
<1>2. /\ pc'[r] = place
      /\ \A q \in Runners : q # r => pc'[q] = pc[q]
      /\ UNCHANGED <<job, view, answer, lock>>
  BY InvParts DEF Proceed, GoTo, TypeOK
<1>3. RowMatchesBank(c)'
  BY InvParts DEF RowMatchesBank, StatusOf, Status
<1>4. TermsAreKept(c)'
  BY InvParts DEF TermsAreKept
<1>5. /\ ContractMatchesRow(c)'
      /\ \A d \in Contracts : d # c => contract'[d] = contract[d] /\ shareRes'[d] = shareRes[d]
  <2>1. ContractMatchesRow(c)
    BY InvParts
  <2>2. CASE UNCHANGED contractVars
    BY <2>1, <2>2 DEF contractVars, ContractMatchesRow
  <2>3. CASE ShouldExpire(c) /\ Expire(c)
    BY <2>1, <2>3, InvParts DEF ShouldExpire, Expire, ContractMatchesRow, TypeOK
  <2> QED BY <2>2, <2>3
<1>6. RunnerMatchesRow(r)'
  BY <1>1, <1>2 DEF Knows, RunnerMatchesRow, StatusOf, Status
<1> QED BY <1>1, <1>2, <1>3, <1>4, <1>5, <1>6, OneContractStep

\* The row that a live execution is stored with.
LEMMA StoreLive ==
    ASSUME Inv, NEW r \in Runners, pc[r] \notin {"idle", "lock", "load"},
           NEW c \in Contracts, c = job[r], NEW row, Store(c, row)
    PROVE  /\ saga'[c] = row
           /\ \A d \in Contracts : d # c => saga'[d] = saga[d]
<1>1. Knows(r)
  BY RunnerKnows
<1>2. saga[c].status \notin TerminalStatuses
  BY <1>1 DEF Knows, LiveStatuses, TerminalStatuses
<1> QED BY <1>2, InvParts DEF Store, TypeOK

\* The step, status and attempt of the row that each outcome stores.
LEMMA OutcomeRow ==
    ASSUME Inv, NEW r \in Runners, pc[r] \notin {"idle", "lock", "load"},
           NEW c \in Contracts, c = job[r], NEW step \in Steps
    PROVE  /\ AdvanceExecution(c, step) \/ ScheduleRetry(c, step) =>
                saga'[c].step = step /\ saga'[c].status = "IN_PROGRESS"
           /\ ScheduleCompensating(c, step) \/ BeginCompensation(c, step) =>
                saga'[c].step = step /\ saga'[c].status = "COMPENSATING"
           /\ MarkFailed(c, step) => saga'[c].step = step /\ saga'[c].status = "FAILED"
           /\ SaveView(r, step) => saga'[c].step = step /\ saga'[c].status = "IN_PROGRESS"
           /\ \/ AdvanceExecution(c, step) \/ ScheduleRetry(c, step)
              \/ ScheduleCompensating(c, step) \/ BeginCompensation(c, step)
              \/ MarkFailed(c, step) \/ SaveView(r, step)
              => /\ saga'[c].attempt = saga[c].attempt
                 /\ \A d \in Contracts : d # c => saga'[d] = saga[d]
<1>1. Knows(r)
  BY RunnerKnows
<1>2. ASSUME NEW status, NEW backoff,
             Store(c, [saga[c] EXCEPT !.step = step, !.status = status, !.backoff = backoff])
      PROVE  /\ saga'[c].step = step /\ saga'[c].status = status
             /\ saga'[c].attempt = saga[c].attempt
             /\ \A d \in Contracts : d # c => saga'[d] = saga[d]
  <2>1. saga[c] \in SagaRows
    BY <1>1 DEF Knows
  <2> DEFINE new == [saga[c] EXCEPT !.step = step, !.status = status, !.backoff = backoff]
  <2>2. new.step = step /\ new.status = status /\ new.attempt = saga[c].attempt
    BY <2>1 DEF SagaRows
  <2>3. Store(c, new)
    BY <1>2
  <2> HIDE DEF new
  <2> QED BY <2>2, <2>3, StoreLive
<1>3. ASSUME SaveView(r, step)
      PROVE  /\ saga'[c].step = step /\ saga'[c].status = "IN_PROGRESS"
             /\ saga'[c].attempt = saga[c].attempt
             /\ \A d \in Contracts : d # c => saga'[d] = saga[d]
  BY <1>1, <1>3, InvParts DEF Knows, SaveView, SagaRows, TypeOK
<1> QED
  BY <1>2, <1>3 DEF AdvanceExecution, ScheduleRetry, ScheduleCompensating,
                    BeginCompensation, MarkFailed

\* The calls, whether their answer arrives or is lost on the way.
LEMMA CallsKeepInv ==
    ASSUME Inv, TypeInv', NEW r \in Runners,
           \/ ReserveFunds(r) \/ CommitFunds(r) \/ ReleaseFunds(r) \/ RefundFunds(r)
           \/ CallFails(r)
    PROVE  Inv'
<1>1. pc[r] \in {"F1", "F3", "C1", "C3"}
  BY DEF ReserveFunds, CommitFunds, ReleaseFunds, RefundFunds, CallFails
<1>0. Knows(r) /\ Key(job[r], view[r]) \in Keys
  BY <1>1, RunnerKnows, KeyInTable, InvParts
<1>c. PICK c \in Contracts : c = job[r]
  BY <1>0 DEF Knows
<1>n. PICK n \in Attempts : n = view[r].attempt
  BY <1>0 DEF Knows
<1>k. PICK k \in Keys : k = Key(c, view[r])
  BY <1>0, <1>c
<1>2. /\ Knows(r) /\ k = <<c, n>> /\ c = job[r] /\ n = view[r].attempt
      /\ StatusOf(c, n) = Status(k) /\ StatusOf(c, n)' = Status(k)' /\ TermsAreKept(c)
  BY <1>0, <1>c, <1>n, <1>k, InvParts DEF Key, StatusOf
<1>3. FundsTypeOK /\ TermsOf(c) \in Requests
  BY <1>2, TermsAreRequests, InvParts DEF TypeOK
<1>4. reservation[k] # NoReservation => reservation[k].request = TermsOf(c)
  BY <1>2 DEF TermsAreKept, Knows
<1>5. Status(k) \in BankStatuses(saga[c])
  BY <1>2 DEF Knows
<1>6. ASSUME UNCHANGED reservation, Answered(r, "error", "F1done") \/ Answered(r, "error", "F3done")
             \/ Answered(r, "error", "C1done") \/ Answered(r, "error", "C3done"),
             CallFails(r)
      PROVE  Inv'
  <2>1. StatusOf(c, n)' = Status(k)
    BY <1>2, <1>6 DEF Status
  <2>2. ASSUME NEW place \in {"F1done", "F3done", "C1done", "C3done"}, Answered(r, "error", place),
               PlaceMatchesView(place, view[r]), AnswerMatchesBank(place, "error", Status(k))
        PROVE  Inv'
    <3>1. "error" \in Replies /\ place \in Places /\ place # "F2done"
      BY <2>2 DEF Replies, Places
    <3>2. /\ \A j \in Keys : j # <<c, n>> => reservation'[j] = reservation[j]
          /\ \/ reservation'[<<c, n>>] = NoReservation
             \/ reservation'[<<c, n>>].request = TermsOf(c)
      BY <1>2, <1>4, <1>6
    <3>3. StatusOf(c, n)' \in BankStatuses(saga[c])
      BY <1>5, <2>1
    <3>4. AnswerMatchesBank(place, "error", StatusOf(c, n)')
      BY <2>1, <2>2
    <3> QED BY <1>1, <1>2, <2>2, <3>1, <3>2, <3>3, <3>4, CallKeepsInv
  <2>3. PlaceMatchesView(pc[r], view[r]) /\ AnswerMatchesBank(pc[r], answer[r], Status(k))
    BY <1>2 DEF Knows
  <2>4. CASE pc[r] = "F1" /\ Answered(r, "error", "F1done")
    <3>1. PlaceMatchesView("F1done", view[r]) /\ AnswerMatchesBank("F1done", "error", Status(k))
      BY <2>3, <2>4 DEF PlaceMatchesView, AnswerMatchesBank
    <3> QED BY <2>2, <2>4, <3>1
  <2>5. CASE pc[r] = "F3" /\ Answered(r, "error", "F3done")
    <3>1. PlaceMatchesView("F3done", view[r]) /\ AnswerMatchesBank("F3done", "error", Status(k))
      BY <2>3, <2>5 DEF PlaceMatchesView, AnswerMatchesBank
    <3> QED BY <2>2, <2>5, <3>1
  <2>6. CASE pc[r] = "C1" /\ Answered(r, "error", "C1done")
    <3>1. PlaceMatchesView("C1done", view[r]) /\ AnswerMatchesBank("C1done", "error", Status(k))
      BY <2>3, <2>6 DEF PlaceMatchesView, AnswerMatchesBank
    <3> QED BY <2>2, <2>6, <3>1
  <2>7. CASE pc[r] = "C3" /\ Answered(r, "error", "C3done")
    <3>1. PlaceMatchesView("C3done", view[r]) /\ AnswerMatchesBank("C3done", "error", Status(k))
      BY <2>3, <2>7 DEF PlaceMatchesView, AnswerMatchesBank
    <3> QED BY <2>2, <2>7, <3>1
  <2> QED BY <1>6, <2>4, <2>5, <2>6, <2>7 DEF CallFails
<1>7. ASSUME pc[r] = "F1", NEW reply \in Replies, Reserve(k, TermsOf(c), reply),
             NEW ans \in {reply, "error"}, Answered(r, ans, "F1done")
      PROVE  Inv'
  <2>1. BankStatuses(saga[c]) = {"NONE", "RESERVED"} /\ PlaceMatchesView("F1done", view[r])
    BY <1>2, <1>7 DEF Knows, PlaceMatchesView, BankStatuses, StoredStep
  <2>2. /\ \A j \in Keys : j # k => reservation'[j] = reservation[j]
        /\ reservation'[k] = NoReservation \/ reservation'[k].request = TermsOf(c)
        /\ StatusOf(c, n)' \in {"NONE", "RESERVED"}
        /\ reply = "ok" => StatusOf(c, n)' = "RESERVED"
        /\ reply = "refused" => StatusOf(c, n)' = "NONE"
        /\ reply # "error"
    <3>2. reservation'[k] = reservation[k] => Status(k)' = Status(k)
      BY DEF Status
    <3>3. Status(k) \in {"NONE", "RESERVED"}
      BY <1>5, <2>1
    <3>4. Status(k) = "NONE" <=> reservation[k] = NoReservation
      BY <1>2, <1>3, StatusMeansRow
    <3> QED BY <1>2, <1>3, <1>4, <1>7, <3>2, <3>3, <3>4, ReserveEffect
  <2>3. AnswerMatchesBank("F1done", ans, StatusOf(c, n)')
    BY <2>2 DEF AnswerMatchesBank
  <2> QED BY <1>1, <1>2, <1>7, <2>1, <2>2, <2>3, CallKeepsInv DEF Replies, Places
\* What OnlyStatusOf leaves to show.
<1>8. ASSUME OnlyStatusOf(k), NEW ans \in Replies, NEW place \in Places,
             pc[r] \in {"F3", "C1", "C3"}, place # "F2done",
             Answered(r, ans, place), PlaceMatchesView(place, view[r]),
             Status(k)' \in BankStatuses(saga[c]),
             AnswerMatchesBank(place, ans, Status(k)')
      PROVE  Inv'
  <2>1. /\ \A j \in Keys : j # k => reservation'[j] = reservation[j]
        /\ reservation'[k] = NoReservation \/ reservation'[k].request = TermsOf(c)
    BY <1>4, <1>8 DEF OnlyStatusOf
  <2> QED BY <1>1, <1>2, <1>8, <2>1, CallKeepsInv
<1>9. ASSUME pc[r] = "F3", NEW reply \in Replies, Commit(k, reply),
             NEW ans \in {reply, "error"}, Answered(r, ans, "F3done")
      PROVE  Inv'
  <2>1. /\ BankStatuses(saga[c]) = {"RESERVED", "RELEASED", "COMMITTED"}
        /\ PlaceMatchesView("F3done", view[r])
    BY <1>2, <1>9 DEF Knows, PlaceMatchesView, BankStatuses, StoredStep
  <2>2. /\ OnlyStatusOf(k)
        /\ Status(k)' \in {"RESERVED", "RELEASED", "COMMITTED"}
        /\ reply = "ok" => Status(k)' = "COMMITTED"
        /\ reply = "refused" => Status(k)' = "RELEASED"
    BY <1>2, <1>3, <1>5, <1>9, <2>1, CommitEffect
  <2>3. AnswerMatchesBank("F3done", ans, Status(k)')
    BY <1>9, <2>2 DEF AnswerMatchesBank
  <2> QED BY <1>8, <1>9, <2>1, <2>2, <2>3 DEF Replies, Places
<1>10. ASSUME pc[r] = "C1", NEW reply \in Replies, Release(k, reply),
              NEW ans \in {reply, "error"}, Answered(r, ans, "C1done")
       PROVE  Inv'
  <2>1. Status(k) \in {"RESERVED", "RELEASED"} /\ PlaceMatchesView("C1done", view[r])
    BY <1>2, <1>10 DEF Knows, PlaceMatchesView, AnswerMatchesBank
  <2>2. OnlyStatusOf(k) /\ Status(k)' = "RELEASED"
    BY <1>2, <1>3, <1>10, <2>1, ReleaseEffect
  <2>3. "RELEASED" \in BankStatuses(saga[c])
    <3>1. \/ saga[c].status \in LiveStatuses /\ saga[c].step = "FUNDS_RESERVED"
          \/ saga[c].status = "IN_PROGRESS" /\ saga[c].step = "SHARES_CONFIRMED"
      BY <1>2, <1>10 DEF Knows, PlaceMatchesView, StoredStep
    <3> QED BY <3>1 DEF BankStatuses, LiveStatuses
  <2>4. AnswerMatchesBank("C1done", ans, Status(k)')
    BY <1>10, <2>2 DEF AnswerMatchesBank
  <2> QED BY <1>8, <1>10, <2>1, <2>2, <2>3, <2>4 DEF Replies, Places
<1>11. ASSUME pc[r] = "C3", NEW reply \in Replies, Refund(k, reply),
              NEW ans \in {reply, "error"}, Answered(r, ans, "C3done")
       PROVE  Inv'
  <2>1. /\ BankStatuses(saga[c]) = {"COMMITTED", "REFUNDED"}
        /\ PlaceMatchesView("C3done", view[r])
    BY <1>2, <1>11 DEF Knows, PlaceMatchesView, BankStatuses, StoredStep
  <2>2. /\ OnlyStatusOf(k)
        /\ Status(k)' \in {"COMMITTED", "REFUNDED"}
        /\ reply = "ok" => Status(k)' = "REFUNDED"
    BY <1>2, <1>3, <1>5, <1>11, <2>1, RefundEffect
  <2>3. AnswerMatchesBank("C3done", ans, Status(k)')
    BY <1>11, <2>2 DEF AnswerMatchesBank
  <2> QED BY <1>8, <1>11, <2>1, <2>2, <2>3 DEF Replies, Places
<1>12. CASE CallFails(r)
  <2>1. CASE UNCHANGED fundsVars
    BY <1>6, <1>12, <2>1 DEF CallFails, fundsVars
  <2>2. CASE \E reply \in Replies :
               \/ /\ pc[r] = "F1" /\ Reserve(k, TermsOf(c), reply)
                  /\ Answered(r, "error", "F1done")
               \/ pc[r] = "F3" /\ Commit(k, reply) /\ Answered(r, "error", "F3done")
               \/ pc[r] = "C1" /\ Release(k, reply) /\ Answered(r, "error", "C1done")
               \/ pc[r] = "C3" /\ Refund(k, reply) /\ Answered(r, "error", "C3done")
    BY <1>7, <1>9, <1>10, <1>11, <2>2
  <2> QED BY <1>2, <1>k, <1>12, <2>1, <2>2 DEF CallFails
<1>13. CASE ReserveFunds(r)
  BY <1>2, <1>k, <1>7, <1>13 DEF ReserveFunds
<1>14. CASE CommitFunds(r)
  BY <1>2, <1>k, <1>9, <1>14 DEF CommitFunds
<1>15. CASE ReleaseFunds(r)
  BY <1>2, <1>k, <1>10, <1>15 DEF ReleaseFunds
<1>16. CASE RefundFunds(r)
  BY <1>2, <1>k, <1>11, <1>16 DEF RefundFunds
<1> QED BY <1>12, <1>13, <1>14, <1>15, <1>16

\* The transactions that store what a call answered.
LEMMA OutcomesKeepInv ==
    ASSUME Inv, TypeInv', NEW r \in Runners,
           \/ FinishReserve(r) \/ FinishCommit(r) \/ RetryConfirm(r)
           \/ CompensateTransfer(r) \/ FinishCompensation(r)
    PROVE  Inv'
<1>0. pc[r] \in {"F1done", "F2done", "F3done", "F4done", "C1done", "C3done"}
  BY DEF FinishReserve, FinishCommit, RetryConfirm, CompensateTransfer, FinishCompensation
<1>1. PICK c \in Contracts : c = job[r]
  BY <1>0, RunnerKnows DEF Knows
<1>2. PICK n \in Attempts : n = view[r].attempt
  BY <1>0, RunnerKnows DEF Knows
<1>3. /\ Knows(r)
      /\ saga[c].attempt = n
      /\ saga[c].status = view[r].status
      /\ pc[r] # "F2done" => saga[c].step = view[r].step
      /\ pc[r] = "F2done" => saga[c].step = "FUNDS_RESERVED"
      /\ saga[c].step \in Steps /\ view[r].step \in Steps
      /\ ContractMatchesRow(c)
  BY <1>0, <1>1, <1>2, RunnerKnows, InvParts DEF Knows, SagaRows, StoredStep
<1>4. UNCHANGED <<fundsVars, contractVars, shareVars>>
  BY DEF FinishReserve, FinishCommit, RetryConfirm, CompensateTransfer, FinishCompensation
<1>5. ASSUME NEW step \in Steps,
             \/ AdvanceExecution(c, step) \/ ScheduleRetry(c, step)
             \/ ScheduleCompensating(c, step) \/ BeginCompensation(c, step)
             \/ MarkFailed(c, step),
             Proceed(r, "load") \/ Leave(r),
             step \in {"OWNERSHIP_TRANSFERRED", "COMPLETED"}
               <=> saga[c].step \in {"OWNERSHIP_TRANSFERRED", "COMPLETED"},
             saga'[c].status # "NONE",
             StatusOf(c, n) \in BankStatuses(saga'[c])
      PROVE  Inv'
  <2>1. /\ saga'[c].step = step /\ saga'[c].attempt = saga[c].attempt
        /\ \A d \in Contracts : d # c => saga'[d] = saga[d]
    BY <1>0, <1>1, <1>5, OutcomeRow
  <2>2. ContractMatchesRow(c)'
    BY <1>3, <1>4, <1>5, <2>1 DEF ContractMatchesRow, contractVars
  <2> QED
    BY <1>0, <1>1, <1>3, <1>4, <1>5, <2>1, <2>2, NewRowKeepsInv DEF contractVars, fundsVars
<1>6. ASSUME NEW place \in Places, Proceed(r, place), UNCHANGED saga,
             place # "F2done", pc[r] # "F2done",
             PlaceMatchesView(place, view[r]),
             AnswerMatchesBank(place, answer[r], StatusOf(c, n))
      PROVE  Inv'
  <2>1. StoredStep(place, view[r]) = saga[c].step
    BY <1>3, <1>6 DEF StoredStep
  <2> QED BY <1>0, <1>1, <1>2, <1>4, <1>6, <2>1, MoveKeepsInv DEF fundsVars
<1>7. CASE FinishReserve(r)
  <2>1. pc[r] = "F1done" /\ Proceed(r, "load") /\ answer[r] \in Replies
    BY <1>7, InvParts DEF FinishReserve, TypeOK
  <2>2. /\ saga[c].step = "INIT" /\ saga[c].status = "IN_PROGRESS"
        /\ StatusOf(c, n) \in {"NONE", "RESERVED"}
        /\ answer[r] = "ok" => StatusOf(c, n) = "RESERVED"
        /\ answer[r] = "refused" => StatusOf(c, n) = "NONE"
    BY <1>1, <1>2, <1>3, <2>1 DEF Knows, PlaceMatchesView, AnswerMatchesBank, BankStatuses
  <2>3. CASE answer[r] = "ok"
    <3>1. AdvanceExecution(c, "FUNDS_RESERVED")
      BY <1>1, <1>7, <2>3 DEF FinishReserve
    <3>2. saga'[c].step = "FUNDS_RESERVED" /\ saga'[c].status = "IN_PROGRESS"
      BY <1>0, <1>1, <3>1, OutcomeRow DEF Steps
    <3>3. StatusOf(c, n) \in BankStatuses(saga'[c])
      BY <2>2, <2>3, <3>2 DEF BankStatuses
    <3> QED BY <1>5, <2>1, <2>2, <3>1, <3>2, <3>3 DEF Steps
  <2>4. CASE answer[r] = "refused"
    <3>1. MarkFailed(c, saga[c].step)
      BY <1>1, <1>3, <1>7, <2>1, <2>4 DEF FinishReserve
    <3>2. saga'[c].step = "INIT" /\ saga'[c].status = "FAILED"
      BY <1>0, <1>1, <2>2, <3>1, OutcomeRow DEF Steps
    <3>3. StatusOf(c, n) \in BankStatuses(saga'[c])
      BY <2>2, <2>4, <3>2 DEF BankStatuses, Dead
    <3> QED BY <1>3, <1>5, <2>1, <2>2, <3>1, <3>2, <3>3
  <2>5. CASE answer[r] = "error"
    <3>1. ScheduleRetry(c, saga[c].step)
      BY <1>1, <1>3, <1>7, <2>1, <2>5 DEF FinishReserve
    <3>2. saga'[c].step = "INIT" /\ saga'[c].status = "IN_PROGRESS"
      BY <1>0, <1>1, <2>2, <3>1, OutcomeRow DEF Steps
    <3>3. StatusOf(c, n) \in BankStatuses(saga'[c])
      BY <2>2, <3>2 DEF BankStatuses
    <3> QED BY <1>3, <1>5, <2>1, <2>2, <3>1, <3>2, <3>3
  <2> QED BY <2>1, <2>3, <2>4, <2>5 DEF Replies
<1>8. CASE RetryConfirm(r)
  <2>1. pc[r] = "F2done" /\ ScheduleRetry(c, view[r].step) /\ Proceed(r, "load")
    BY <1>1, <1>8 DEF RetryConfirm
  <2>2. /\ saga[c].step = "FUNDS_RESERVED" /\ saga[c].status = "IN_PROGRESS"
        /\ view[r].step \in {"FUNDS_RESERVED", "SHARES_CONFIRMED"}
        /\ StatusOf(c, n) \in BankStatuses(saga[c])
    BY <1>1, <1>2, <1>3, <2>1 DEF Knows, PlaceMatchesView
  <2>3. saga'[c].step = view[r].step /\ saga'[c].status = "IN_PROGRESS"
    BY <1>0, <1>1, <1>3, <2>1, <2>2, OutcomeRow
  <2>4. StatusOf(c, n) \in BankStatuses(saga'[c])
    BY <2>2, <2>3 DEF BankStatuses
  <2> QED BY <1>3, <1>5, <2>1, <2>2, <2>3, <2>4
<1>9. CASE FinishCommit(r)
  <2>1. pc[r] = "F3done"
    BY <1>9 DEF FinishCommit
  <2>2. /\ saga[c].step = "SHARES_CONFIRMED" /\ saga[c].status = "IN_PROGRESS"
        /\ StatusOf(c, n) \in {"RESERVED", "RELEASED", "COMMITTED"}
        /\ answer[r] = "ok" => StatusOf(c, n) = "COMMITTED"
        /\ answer[r] = "refused" => StatusOf(c, n) = "RELEASED"
    BY <1>1, <1>2, <1>3, <2>1 DEF Knows, PlaceMatchesView, AnswerMatchesBank, BankStatuses
  <2>3. CASE answer[r] = "ok" /\ AdvanceExecution(c, "FUNDS_COMMITTED") /\ Proceed(r, "load")
    <3>1. saga'[c].step = "FUNDS_COMMITTED" /\ saga'[c].status = "IN_PROGRESS"
      BY <1>0, <1>1, <2>3, OutcomeRow DEF Steps
    <3>2. StatusOf(c, n) \in BankStatuses(saga'[c])
      BY <2>2, <2>3, <3>1 DEF BankStatuses
    <3> QED BY <1>5, <2>2, <2>3, <3>1, <3>2 DEF Steps
  <2>4. CASE answer[r] = "refused" /\ Proceed(r, "C1") /\ UNCHANGED saga
    <3>1. PlaceMatchesView("C1", view[r]) /\ AnswerMatchesBank("C1", answer[r], StatusOf(c, n))
      BY <1>3, <2>2, <2>4 DEF PlaceMatchesView, AnswerMatchesBank
    <3> QED BY <1>6, <2>1, <2>4, <3>1 DEF Places
  <2>5. CASE ScheduleRetry(c, saga[c].step) /\ Proceed(r, "load")
    <3>1. saga'[c].step = "SHARES_CONFIRMED" /\ saga'[c].status = "IN_PROGRESS"
      BY <1>0, <1>1, <1>3, <2>2, <2>5, OutcomeRow
    <3>2. StatusOf(c, n) \in BankStatuses(saga'[c])
      BY <2>2, <3>1 DEF BankStatuses
    <3> QED BY <1>3, <1>5, <2>5, <3>1, <3>2
  <2> QED BY <1>1, <1>3, <1>9, <2>1, <2>3, <2>4, <2>5 DEF FinishCommit
<1>10. CASE CompensateTransfer(r)
  <2>1. pc[r] = "F4done" /\ BeginCompensation(c, "FUNDS_COMMITTED") /\ Proceed(r, "load")
    BY <1>1, <1>10 DEF CompensateTransfer
  <2>2. saga[c].step = "FUNDS_COMMITTED" /\ StatusOf(c, n) = "COMMITTED"
    BY <1>1, <1>2, <1>3, <2>1 DEF Knows, PlaceMatchesView, BankStatuses
  <2>3. saga'[c].step = "FUNDS_COMMITTED" /\ saga'[c].status = "COMPENSATING"
    BY <1>0, <1>1, <2>1, OutcomeRow DEF Steps
  <2>4. StatusOf(c, n) \in BankStatuses(saga'[c])
    BY <2>2, <2>3 DEF BankStatuses
  <2> QED BY <1>5, <2>1, <2>2, <2>3, <2>4 DEF Steps
<1>11. CASE FinishCompensation(r)
  <2>1. Proceed(r, "load") \/ Leave(r)
    BY <1>11 DEF FinishCompensation
  <2>2. CASE pc[r] = "C3done"
    <3>1. /\ saga[c].step = "FUNDS_COMMITTED" /\ saga[c].status = "COMPENSATING"
          /\ StatusOf(c, n) \in {"COMMITTED", "REFUNDED"}
          /\ answer[r] = "ok" => StatusOf(c, n) = "REFUNDED"
      BY <1>1, <1>2, <1>3, <2>2 DEF Knows, PlaceMatchesView, AnswerMatchesBank, BankStatuses
    <3>2. CASE answer[r] = "ok" /\ MarkFailed(c, "FUNDS_COMMITTED")
      <4>1. saga'[c].step = "FUNDS_COMMITTED" /\ saga'[c].status = "FAILED"
        BY <1>0, <1>1, <3>2, OutcomeRow DEF Steps
      <4>2. StatusOf(c, n) \in BankStatuses(saga'[c])
        BY <3>1, <3>2, <4>1 DEF BankStatuses, Dead
      <4> QED BY <1>5, <2>1, <3>1, <3>2, <4>1, <4>2 DEF Steps
    <3>3. CASE ScheduleCompensating(c, "FUNDS_COMMITTED")
      <4>1. saga'[c].step = "FUNDS_COMMITTED" /\ saga'[c].status = "COMPENSATING"
        BY <1>0, <1>1, <3>3, OutcomeRow DEF Steps
      <4>2. StatusOf(c, n) \in BankStatuses(saga'[c])
        BY <3>1, <4>1 DEF BankStatuses
      <4> QED BY <1>5, <2>1, <3>1, <3>3, <4>1, <4>2 DEF Steps
    <3> QED BY <1>1, <1>11, <2>2, <3>2, <3>3 DEF FinishCompensation
  <2>3. CASE pc[r] = "C1done"
    <3>1. /\ saga[c].step \in {"FUNDS_RESERVED", "SHARES_CONFIRMED"}
          /\ saga[c].status = "COMPENSATING" => saga[c].step = "FUNDS_RESERVED"
          /\ StatusOf(c, n) \in {"RESERVED", "RELEASED"}
          /\ answer[r] = "ok" => StatusOf(c, n) = "RELEASED"
      BY <1>1, <1>2, <1>3, <2>3 DEF Knows, PlaceMatchesView, AnswerMatchesBank
    <3>2. CASE answer[r] = "ok" /\ MarkFailed(c, "FUNDS_RESERVED")
      <4>1. saga'[c].step = "FUNDS_RESERVED" /\ saga'[c].status = "FAILED"
        BY <1>0, <1>1, <3>2, OutcomeRow DEF Steps
      <4>2. StatusOf(c, n) \in BankStatuses(saga'[c])
        BY <3>1, <3>2, <4>1 DEF BankStatuses, Dead
      <4> QED BY <1>5, <2>1, <3>1, <3>2, <4>1, <4>2 DEF Steps
    <3>3. CASE ScheduleCompensating(c, "FUNDS_RESERVED")
      <4>1. saga'[c].step = "FUNDS_RESERVED" /\ saga'[c].status = "COMPENSATING"
        BY <1>0, <1>1, <3>3, OutcomeRow DEF Steps
      <4>2. StatusOf(c, n) \in BankStatuses(saga'[c])
        BY <3>1, <4>1 DEF BankStatuses
      <4> QED BY <1>5, <2>1, <3>1, <3>3, <4>1, <4>2 DEF Steps
    <3> QED BY <1>1, <1>3, <1>11, <2>3, <3>1, <3>2, <3>3 DEF FinishCompensation
  <2> QED BY <1>11, <2>2, <2>3 DEF FinishCompensation
<1> QED BY <1>7, <1>8, <1>9, <1>10, <1>11

\* The database transactions F2, F4 and F5.
LEMMA TransactionsKeepInv ==
    ASSUME Inv, TypeInv', NEW r \in Runners,
           \/ ConfirmShares(r) \/ TransferOwnership(r) \/ CompleteExecution(r)
           \/ TransactionFails(r)
    PROVE  Inv'
<1>0. pc[r] \in {"F2", "F4", "F5"}
  BY DEF ConfirmShares, TransferOwnership, CompleteExecution, TransactionFails
<1>1. PICK c \in Contracts : c = job[r]
  BY <1>0, RunnerKnows DEF Knows
<1>2. PICK n \in Attempts : n = view[r].attempt
  BY <1>0, RunnerKnows DEF Knows
<1>3. /\ Knows(r)
      /\ saga[c].attempt = n
      /\ saga[c].status = view[r].status /\ saga[c].step = view[r].step
      /\ saga[c].status = "IN_PROGRESS"
      /\ pc[r] = "F2" => saga[c].step = "FUNDS_RESERVED"
      /\ pc[r] = "F4" => saga[c].step = "FUNDS_COMMITTED"
      /\ pc[r] = "F5" => saga[c].step = "OWNERSHIP_TRANSFERRED"
      /\ StatusOf(c, n) \in BankStatuses(saga[c])
      /\ ContractMatchesRow(c)
  BY <1>0, <1>1, <1>2, RunnerKnows, InvParts DEF Knows, PlaceMatchesView, StoredStep
<1>4. UNCHANGED fundsVars
  BY <1>3 DEF ConfirmShares, TransferOwnership, CompleteExecution, TransactionFails, Settle
<1>5. ASSUME NEW place \in Places, Proceed(r, place), UNCHANGED saga,
             UNCHANGED contractVars \/ (ShouldExpire(c) /\ Expire(c)),
             \/ pc[r] = "F2" /\ place \in {"C1", "F2done"}
             \/ pc[r] = "F4" /\ place = "F4done"
      PROVE  Inv'
  <2>1. PlaceMatchesView(place, view[r]) /\ AnswerMatchesBank(place, answer[r], StatusOf(c, n))
    BY <1>3, <1>5 DEF PlaceMatchesView, AnswerMatchesBank, BankStatuses
  <2>2. StoredStep(place, view[r]) = saga[c].step
    BY <1>3, <1>5 DEF StoredStep
  <2> QED BY <1>0, <1>1, <1>2, <1>4, <1>5, <2>1, <2>2, MoveKeepsInv DEF fundsVars
<1>6. CASE ConfirmShares(r)
  <2>1. pc[r] = "F2"
    BY <1>6 DEF ConfirmShares
  <2>2. CASE Proceed(r, "C1") /\ UNCHANGED saga
    BY <1>1, <1>5, <1>6, <2>1, <2>2 DEF ConfirmShares, Places
  <2>3. CASE /\ SaveView(r, "SHARES_CONFIRMED") /\ Proceed(r, "load")
             /\ UNCHANGED <<contractVars, shareVars>>
    <3>1. /\ saga'[c].step = "SHARES_CONFIRMED" /\ saga'[c].status = "IN_PROGRESS"
          /\ saga'[c].attempt = saga[c].attempt
          /\ \A d \in Contracts : d # c => saga'[d] = saga[d]
      BY <1>0, <1>1, <2>3, OutcomeRow DEF Steps
    <3>2. StatusOf(c, n) \in BankStatuses(saga'[c])
      BY <1>3, <2>1, <3>1 DEF BankStatuses
    <3>3. ContractMatchesRow(c)'
      BY <1>3, <2>1, <2>3, <3>1 DEF ContractMatchesRow, contractVars
    <3> QED
      BY <1>0, <1>1, <1>3, <1>4, <2>3, <3>1, <3>2, <3>3, NewRowKeepsInv
         DEF contractVars, fundsVars
  <2> QED BY <1>6, <2>2, <2>3 DEF ConfirmShares
<1>7. CASE TransferOwnership(r)
  <2>1. pc[r] = "F4"
    BY <1>7 DEF TransferOwnership
  <2>2. CASE Proceed(r, "F4done") /\ UNCHANGED saga
    <3>1. \/ ShouldExpire(c) /\ Expire(c)
          \/ UNCHANGED contractVars
          \/ Settle(r) /\ Proceed(r, "load")
      BY <1>1, <1>7 DEF TransferOwnership
    <3>2. ~Proceed(r, "load")
      BY <2>2, InvParts DEF Proceed, GoTo, TypeOK
    <3> QED BY <1>5, <2>1, <2>2, <3>1, <3>2 DEF Places
  <2>3. CASE Settle(r) /\ Proceed(r, "load")
    <3>1. SaveView(r, "OWNERSHIP_TRANSFERRED")
      BY <2>3 DEF Settle
    <3>2. /\ saga'[c].step = "OWNERSHIP_TRANSFERRED" /\ saga'[c].status = "IN_PROGRESS"
          /\ saga'[c].attempt = saga[c].attempt
          /\ \A d \in Contracts : d # c => saga'[d] = saga[d]
      BY <1>0, <1>1, <3>1, OutcomeRow DEF Steps
    <3>3. StatusOf(c, n) \in BankStatuses(saga'[c])
      BY <1>3, <2>1, <3>2 DEF BankStatuses
    <3>4. /\ contract'[c] = "EXERCISED" /\ shareRes'[c] = "CONSUMED"
          /\ \A d \in Contracts : d # c => contract'[d] = contract[d] /\ shareRes'[d] = shareRes[d]
      BY <1>1, <2>3, InvParts DEF Settle, TypeOK
    <3>5. ContractMatchesRow(c)'
      BY <3>2, <3>4 DEF ContractMatchesRow
    <3> QED
      BY <1>0, <1>1, <1>3, <1>4, <2>3, <3>2, <3>3, <3>4, <3>5, NewRowKeepsInv DEF fundsVars
  <2> QED BY <1>7, <2>2, <2>3 DEF TransferOwnership
<1>8. CASE CompleteExecution(r)
  <2>1. pc[r] = "F5" /\ Proceed(r, "load") /\ UNCHANGED <<contractVars, shareVars>>
    BY <1>8 DEF CompleteExecution
  <2>2. /\ saga'[c].step = "COMPLETED" /\ saga'[c].status = "COMPLETED"
        /\ saga'[c].attempt = saga[c].attempt
        /\ \A d \in Contracts : d # c => saga'[d] = saga[d]
    BY <1>1, <1>3, <1>8, InvParts DEF CompleteExecution, Knows, SagaRows, TypeOK
  <2>3. StatusOf(c, n) \in BankStatuses(saga'[c])
    BY <1>3, <2>1, <2>2 DEF BankStatuses
  <2>4. ContractMatchesRow(c)'
    BY <1>3, <2>1, <2>2 DEF ContractMatchesRow, contractVars
  <2> QED
    BY <1>0, <1>1, <1>3, <1>4, <2>1, <2>2, <2>3, <2>4, NewRowKeepsInv
       DEF contractVars, fundsVars
<1>9. CASE TransactionFails(r)
  BY <1>1, <1>5, <1>9 DEF TransactionFails, Places
<1> QED BY <1>6, <1>7, <1>8, <1>9

\* F2 passed and was rolled back: only the runner's copy of the row has moved on.
LEMMA ConfirmNotSavedKeepsInv ==
    ASSUME Inv, TypeInv', NEW r \in Runners, ConfirmNotSaved(r)
    PROVE  Inv'
<1>0. pc[r] = "F2" /\ UNCHANGED <<reservation, contract, shareRes, saga, lock, job, answer>>
  BY DEF ConfirmNotSaved, fundsVars, contractVars
<1>1. PICK c \in Contracts : c = job[r]
  BY <1>0, RunnerKnows DEF Knows
<1>2. Knows(r) /\ Processing(r)
  BY <1>0, RunnerKnows DEF Processing
<1>3. /\ pc'[r] = "F2done" /\ view'[r] = [view[r] EXCEPT !.step = "SHARES_CONFIRMED"]
      /\ \A q \in Runners : q # r => pc'[q] = pc[q] /\ view'[q] = view[q]
  BY InvParts DEF ConfirmNotSaved, TypeOK
<1>4. /\ view'[r].status = view[r].status /\ view'[r].attempt = view[r].attempt
      /\ view'[r].step = "SHARES_CONFIRMED"
  BY <1>2, <1>3 DEF Knows, SagaRows
<1>5. saga[c].step = "FUNDS_RESERVED" /\ view[r].status = "IN_PROGRESS"
  BY <1>0, <1>1, <1>2 DEF Knows, PlaceMatchesView, StoredStep
<1>6. RunnerMatchesRow(r)'
  BY <1>0, <1>1, <1>2, <1>3, <1>4, <1>5
     DEF Knows, RunnerMatchesRow, PlaceMatchesView, AnswerMatchesBank, StoredStep
<1>7. RowMatchesBank(c)' /\ ContractMatchesRow(c)' /\ TermsAreKept(c)'
  BY <1>0, InvParts DEF RowMatchesBank, ContractMatchesRow, TermsAreKept, StatusOf, Status
<1> QED BY <1>0, <1>1, <1>2, <1>3, <1>6, <1>7, OneContractStep

\* Taking the mutex and loading the row.
LEMMA LoadsKeepInv ==
    ASSUME Inv, TypeInv', NEW r \in Runners, AcquireLock(r) \/ LoadExecution(r)
    PROVE  Inv'
<1>0. /\ UNCHANGED <<reservation, saga, contract, shareRes, job>>
      /\ job[r] \in Contracts /\ TypeOK /\ TypeOK'
  BY InvParts DEF AcquireLock, LoadExecution, Leave, fundsVars, contractVars, TypeOK, TypeInv
<1>1. \A c \in Contracts : RowMatchesBank(c)' /\ ContractMatchesRow(c)' /\ TermsAreKept(c)'
  BY <1>0, InvParts DEF RowMatchesBank, ContractMatchesRow, TermsAreKept, StatusOf, Status
<1>2. CASE AcquireLock(r)
  <2>1. /\ pc' = [pc EXCEPT ![r] = "load"] /\ lock' = [lock EXCEPT ![job[r]] = r]
        /\ lock[job[r]] = NoRunner /\ UNCHANGED <<view, answer>>
    BY <1>2 DEF AcquireLock
  <2>2. ASSUME NEW q \in Runners PROVE MutexHeld(q)' /\ RunnerMatchesRow(q)'
    <3>1. CASE q = r
      BY <1>0, <2>1, <3>1 DEF MutexHeld, RunnerMatchesRow, TypeOK
    <3>2. CASE q # r
      <4>1. MutexHeld(q) /\ RunnerMatchesRow(q) /\ pc'[q] = pc[q]
        BY <1>0, <2>1, <3>2, InvParts DEF TypeOK
      <4>2. MutexHeld(q)'
        BY <1>0, <2>1, <4>1, ConstantTypes DEF MutexHeld, Processing, TypeOK
      <4>3. RunnerMatchesRow(q)'
        BY <1>0, <2>1, <4>1 DEF RunnerMatchesRow, Processing, StatusOf, Status
      <4> QED BY <4>2, <4>3
    <3> QED BY <3>1, <3>2
  <2> QED BY <1>0, <1>1, <2>2 DEF Inv, SagaInv
<1>3. CASE LoadExecution(r)
  <2>1. PICK c \in Contracts : c = job[r]
    BY <1>0
  <2>2. /\ pc[r] = "load"
        /\ \A q \in Runners : q # r =>
             pc'[q] = pc[q] /\ view'[q] = view[q] /\ answer'[q] = answer[q]
        /\ lock' = lock \/ Leave(r)
    BY <1>0, <1>3 DEF LoadExecution, Leave, TypeOK
  <2>3. RunnerMatchesRow(r)'
    <3>1. CASE Leave(r)
      BY <1>0, <3>1 DEF Leave, RunnerMatchesRow, Processing, TypeOK
    <3>2. CASE /\ Place(saga[c]) # "idle"
               /\ view' = [view EXCEPT ![r] = saga[c]]
               /\ pc' = [pc EXCEPT ![r] = Place(saga[c])]
               /\ answer' = [answer EXCEPT ![r] = "ok"]
      <4>1. /\ view'[r] = saga[c] /\ pc'[r] = Place(saga[c]) /\ answer'[r] = "ok"
            /\ job'[r] = c /\ saga' = saga /\ saga[c] \in SagaRows
        BY <1>0, <2>1, <3>2 DEF TypeOK
      <4>2. saga[c].status \in LiveStatuses
        BY <3>2, <4>1 DEF Place, LiveStatuses
      <4>3. StatusOf(c, saga[c].attempt) \in BankStatuses(saga[c])
        BY <4>2, InvParts DEF RowMatchesBank, NoSaga, LiveStatuses
      <4>4. /\ PlaceMatchesView(Place(saga[c]), saga[c])
            /\ AnswerMatchesBank(Place(saga[c]), "ok", StatusOf(c, saga[c].attempt))
        <5>1. CASE saga[c].status = "IN_PROGRESS"
          <6>1. Place(saga[c]) \in {"F1", "F2", "F3", "F4", "F5"}
            BY <3>2, <5>1 DEF Place
          <6>2. PlaceMatchesView(Place(saga[c]), saga[c])
            BY <5>1, <6>1 DEF Place, PlaceMatchesView
          <6> QED BY <6>1, <6>2 DEF AnswerMatchesBank
        <5>2. CASE saga[c].status = "COMPENSATING"
          <6>1. \/ saga[c].step = "FUNDS_RESERVED" /\ Place(saga[c]) = "C1"
                \/ saga[c].step = "FUNDS_COMMITTED" /\ Place(saga[c]) = "C3"
            <7>1. CASE saga[c].step \notin {"FUNDS_RESERVED", "FUNDS_COMMITTED"}
              <8>1. BankStatuses(saga[c]) = {}
                BY <5>2, <7>1 DEF BankStatuses
              <8> QED BY <4>3, <8>1
            <7>2. CASE saga[c].step = "FUNDS_RESERVED"
              BY <5>2, <7>2 DEF Place
            <7>3. CASE saga[c].step = "FUNDS_COMMITTED"
              BY <5>2, <7>3 DEF Place
            <7> QED BY <7>1, <7>2, <7>3
          <6> QED BY <4>3, <5>2, <6>1 DEF PlaceMatchesView, AnswerMatchesBank, BankStatuses
        <5> QED BY <4>2, <5>1, <5>2 DEF LiveStatuses
      <4>5. StatusOf(c, saga[c].attempt)' = StatusOf(c, saga[c].attempt)
        BY <1>0 DEF StatusOf, Status
      <4>6. Place(saga[c]) # "F2done"
        BY DEF Place
      <4> QED BY <4>1, <4>2, <4>4, <4>5, <4>6 DEF RunnerMatchesRow, StoredStep
    <3> QED BY <1>3, <2>1, <3>1, <3>2 DEF LoadExecution
  <2> QED
    BY <1>0, <1>1, <2>1, <2>2, <2>3, OneContractStep DEF Processing, Inv
<1> QED BY <1>2, <1>3

\* A runner that stops, or that turns to a contract, claims nothing.
LEMMA OthersKeepInv ==
    ASSUME Inv, TypeInv', NEW r \in Runners,
           \A q \in Runners : q # r =>
             pc'[q] = pc[q] /\ view'[q] = view[q] /\ answer'[q] = answer[q] /\ job'[q] = job[q],
           pc'[r] \in {"idle", "lock"},
           lock' = lock \/ Leave(r),
           UNCHANGED reservation,
           \A c \in Contracts :
             /\ saga[c].status \in LiveStatuses =>
                  saga'[c] = [saga[c] EXCEPT !.backoff = saga'[c].backoff]
             /\ RowMatchesBank(c)' /\ ContractMatchesRow(c)'
    PROVE  Inv'
<1>1. TypeOK /\ TypeOK'
  BY InvParts DEF TypeInv
<1>2. ASSUME NEW q \in Runners, q # r PROVE MutexHeld(q)' /\ RunnerMatchesRow(q)'
  <2>1. /\ MutexHeld(q) /\ RunnerMatchesRow(q) /\ job[q] \in Contracts
        /\ pc'[q] = pc[q] /\ view'[q] = view[q] /\ answer'[q] = answer[q] /\ job'[q] = job[q]
    BY <1>1, <1>2, InvParts DEF TypeOK
  <2>2. MutexHeld(q)'
    BY <1>1, <1>2, <2>1 DEF MutexHeld, Processing, Leave, TypeOK
  <2>3. ASSUME saga[job[q]].status \in LiveStatuses
        PROVE  /\ saga'[job[q]].status = saga[job[q]].status
               /\ saga'[job[q]].step = saga[job[q]].step
               /\ saga'[job[q]].attempt = saga[job[q]].attempt
    <3>1. saga[job[q]] \in SagaRows
      BY <1>1, <2>1 DEF TypeOK
    <3>2. saga'[job[q]] = [saga[job[q]] EXCEPT !.backoff = saga'[job[q]].backoff]
      BY <2>1, <2>3
    <3> QED BY <3>1, <3>2 DEF SagaRows
  <2>4. RunnerMatchesRow(q)'
    BY <2>1, <2>3 DEF RunnerMatchesRow, Processing, StatusOf, Status
  <2> QED BY <2>2, <2>4
<1>3. MutexHeld(r)' /\ RunnerMatchesRow(r)'
  BY DEF MutexHeld, RunnerMatchesRow, Processing
<1>4. \A c \in Contracts : TermsAreKept(c)'
  BY InvParts DEF TermsAreKept
<1> QED BY <1>1, <1>2, <1>3, <1>4 DEF Inv, SagaInv

\* Backoff is no part of what the invariant says of a row.
LEMMA BackoffDoesNotMatter ==
    ASSUME Inv, NEW c \in Contracts, saga' = [saga EXCEPT ![c].backoff = FALSE],
           saga[c].status \in LiveStatuses \/ saga[c].backoff,
           UNCHANGED <<reservation, contract, shareRes>>
    PROVE  \A d \in Contracts :
             /\ saga'[d] = [saga[d] EXCEPT !.backoff = saga'[d].backoff]
             /\ RowMatchesBank(d)' /\ ContractMatchesRow(d)'
<1>1. \A d \in Contracts : saga[d] \in SagaRows
  BY InvParts DEF TypeOK
<1>2. /\ saga'[c] = [saga[c] EXCEPT !.backoff = FALSE]
      /\ \A d \in Contracts : d # c => saga'[d] = saga[d]
  BY InvParts DEF TypeOK
<1>3. ASSUME NEW d \in Contracts
      PROVE  /\ saga'[d] = [saga[d] EXCEPT !.backoff = saga'[d].backoff]
             /\ saga'[d].status = saga[d].status /\ saga'[d].step = saga[d].step
             /\ saga'[d].attempt = saga[d].attempt
             /\ saga[d] = NoSaga => saga'[d] = saga[d]
  <2>1. CASE d = c
    <3>1. saga'[d] = [saga[d] EXCEPT !.backoff = FALSE] /\ saga[d] \in SagaRows
      BY <1>1, <1>2, <2>1
    <3>2. saga[d] # NoSaga
      BY <2>1 DEF NoSaga, LiveStatuses
    <3>3. /\ saga'[d].status = saga[d].status /\ saga'[d].step = saga[d].step
          /\ saga'[d].attempt = saga[d].attempt /\ saga'[d].backoff = FALSE
      BY <3>1 DEF SagaRows
    <3>4. saga'[d] = [saga[d] EXCEPT !.backoff = saga'[d].backoff]
      BY <3>1, <3>3
    <3> QED BY <3>2, <3>3, <3>4
  <2>2. CASE d # c
    <3>1. saga'[d] = saga[d] /\ saga[d] \in SagaRows
      BY <1>1, <1>2, <2>2
    <3> QED BY <3>1 DEF SagaRows
  <2> QED BY <2>1, <2>2
<1>4. ASSUME NEW d \in Contracts PROVE RowMatchesBank(d)' /\ ContractMatchesRow(d)'
  <2>1. RowMatchesBank(d) /\ ContractMatchesRow(d)
    BY InvParts
  <2>2. BankStatuses(saga[d])' = BankStatuses(saga[d])
    BY <1>3 DEF BankStatuses
  <2>3. \A m \in Attempts : StatusOf(d, m)' = StatusOf(d, m)
    BY DEF StatusOf, Status
  <2>4. RowMatchesBank(d)'
    <3>1. CASE saga[d] = NoSaga /\ \A m \in Attempts : StatusOf(d, m) = "NONE"
      BY <1>3, <2>3, <3>1 DEF RowMatchesBank
    <3>2. CASE saga[d].status # "NONE"
      BY <1>3, <2>1, <2>2, <2>3, <3>2 DEF RowMatchesBank, NoSaga
    <3> QED BY <2>1, <3>1, <3>2 DEF RowMatchesBank
  <2> QED BY <1>3, <2>1, <2>4 DEF ContractMatchesRow
<1> QED BY <1>3, <1>4

\* Nothing of what the invariant is about changes.
LEMMA UntouchedKeepsInv ==
    ASSUME Inv, TypeInv', UNCHANGED <<reservation, contract, shareRes, saga, runnerVars>>
    PROVE  Inv'
<1>1. UNCHANGED <<pc, lock, job, view, answer>>
  BY DEF runnerVars
<1>2. ASSUME NEW c \in Contracts
      PROVE  RowMatchesBank(c)' /\ ContractMatchesRow(c)' /\ TermsAreKept(c)'
  BY InvParts DEF RowMatchesBank, ContractMatchesRow, TermsAreKept, StatusOf, Status
<1>3. ASSUME NEW r \in Runners PROVE MutexHeld(r)' /\ RunnerMatchesRow(r)'
  BY <1>1, InvParts DEF MutexHeld, RunnerMatchesRow, Processing, StatusOf, Status
<1> QED BY <1>2, <1>3 DEF Inv, SagaInv, TypeInv

\* A contract expires while no step of its saga is under way, or while one is.
LEMMA ExpiryKeepsInv ==
    ASSUME Inv, TypeInv', NEW c \in Contracts, ShouldExpire(c), Expire(c),
           UNCHANGED <<fundsVars, saga, runnerVars>>
    PROVE  Inv'
<1>1. UNCHANGED <<pc, lock, job, view, answer, reservation>>
  BY DEF runnerVars, fundsVars
<1>2. ASSUME NEW d \in Contracts
      PROVE  RowMatchesBank(d)' /\ ContractMatchesRow(d)' /\ TermsAreKept(d)'
  <2>1. RowMatchesBank(d)' /\ TermsAreKept(d)'
    BY <1>1, InvParts DEF RowMatchesBank, TermsAreKept, StatusOf, Status
  <2>2. ContractMatchesRow(d) /\ ContractMatchesRow(c) /\ TypeOK
    BY InvParts
  <2>3. ContractMatchesRow(d)'
    BY <2>2 DEF ShouldExpire, Expire, ContractMatchesRow, TypeOK
  <2> QED BY <2>1, <2>3
<1>3. ASSUME NEW r \in Runners PROVE MutexHeld(r)' /\ RunnerMatchesRow(r)'
  BY <1>1, InvParts DEF MutexHeld, RunnerMatchesRow, Processing, StatusOf, Status
<1> QED BY <1>2, <1>3 DEF Inv, SagaInv, TypeInv

LEMMA EnsureKeepsInv ==
    ASSUME Inv, TypeInv', NEW r \in Runners, NEW c \in Contracts, EnsureExecutionSaga(r, c)
    PROVE  Inv'
<1>0. UNCHANGED reservation
  BY DEF EnsureExecutionSaga, fundsVars
<1>1. CASE ResumeSaga(r, c)
  <2>1. /\ saga' = [saga EXCEPT ![c].backoff = FALSE]
        /\ saga[c].status \in LiveStatuses
        /\ UNCHANGED <<contract, shareRes, lock>>
        /\ \A q \in Runners : q # r =>
             pc'[q] = pc[q] /\ view'[q] = view[q] /\ answer'[q] = answer[q] /\ job'[q] = job[q]
        /\ pc'[r] = "lock"
    BY <1>1, InvParts DEF ResumeSaga, contractVars, TypeOK
  <2>2. \A d \in Contracts :
          /\ saga'[d] = [saga[d] EXCEPT !.backoff = saga'[d].backoff]
          /\ RowMatchesBank(d)' /\ ContractMatchesRow(d)'
    BY <1>0, <2>1, BackoffDoesNotMatter
  <2> QED BY <1>0, <2>1, <2>2, OthersKeepInv
<1>2. CASE StartSaga(r, c)
  <2>1. /\ UNCHANGED <<contract, shareRes, lock>>
        /\ \A q \in Runners : q # r =>
             pc'[q] = pc[q] /\ view'[q] = view[q] /\ answer'[q] = answer[q] /\ job'[q] = job[q]
        /\ pc'[r] = "lock"
    BY <1>2, InvParts DEF StartSaga, contractVars, TypeOK
  <2>2. /\ saga'[c].step = "INIT" /\ saga'[c].status = "IN_PROGRESS"
        /\ saga'[c].attempt = saga[c].attempt + 1
        /\ \A d \in Contracts : d # c => saga'[d] = saga[d]
    BY <1>2, InvParts DEF StartSaga, TypeOK
  <2>3. /\ saga[c].status \in {"NONE", "FAILED"} /\ contract[c] = "ACTIVE"
        /\ saga[c].attempt + 1 \in Attempts /\ saga[c].attempt \in Nat
    BY <1>2, InvParts, ConstantTypes DEF StartSaga, Exercisable, TypeOK, SagaRows, Attempts
  <2>4. /\ \A m \in Attempts : m < saga[c].attempt + 1 => StatusOf(c, m) \in Dead
        /\ \A m \in Attempts : m >= saga[c].attempt + 1 => StatusOf(c, m) = "NONE"
    <3>0. saga[c].attempt \in Int /\ \A m \in Attempts : m \in Int
      BY <2>3 DEF Attempts
    <3>1. CASE saga[c] = NoSaga /\ \A m \in Attempts : StatusOf(c, m) = "NONE"
      BY <3>1 DEF Dead
    <3>2. CASE saga[c].status = "FAILED" /\ saga[c].status # "NONE"
      <4>1. /\ saga[c].attempt \in Attempts
            /\ StatusOf(c, saga[c].attempt) \in BankStatuses(saga[c])
            /\ \A m \in Attempts : m < saga[c].attempt => StatusOf(c, m) \in Dead
            /\ \A m \in Attempts : m > saga[c].attempt => StatusOf(c, m) = "NONE"
        BY <3>2, InvParts DEF RowMatchesBank, NoSaga
      <4>2. StatusOf(c, saga[c].attempt) \in Dead
        BY <3>2, <4>1 DEF BankStatuses
      <4>3. \A m \in Attempts : m < saga[c].attempt + 1 =>
              m < saga[c].attempt \/ m = saga[c].attempt
        BY <3>0
      <4>4. \A m \in Attempts : m >= saga[c].attempt + 1 => m > saga[c].attempt
        BY <3>0
      <4> QED BY <4>1, <4>2, <4>3, <4>4
    <3> QED BY <2>3, <3>1, <3>2, InvParts DEF RowMatchesBank
  <2>5. \A d \in Contracts, m \in Attempts : StatusOf(d, m)' = StatusOf(d, m)
    BY <1>0 DEF StatusOf, Status
  <2>6. RowMatchesBank(c)'
    <3>1. BankStatuses(saga'[c]) = {"NONE", "RESERVED"}
      BY <2>2 DEF BankStatuses
    <3>2. StatusOf(c, saga[c].attempt + 1) = "NONE"
      BY <2>3, <2>4
    <3>3. \A m \in Attempts : m > saga[c].attempt + 1 => StatusOf(c, m) = "NONE"
      BY <2>3, <2>4 DEF Attempts
    <3> QED BY <2>2, <2>3, <2>4, <2>5, <3>1, <3>2, <3>3 DEF RowMatchesBank
  <2>7. ContractMatchesRow(c)'
    BY <2>1, <2>2, <2>3, InvParts DEF ContractMatchesRow
  <2>8. ASSUME NEW d \in Contracts
        PROVE  /\ saga[d].status \in LiveStatuses =>
                    saga'[d] = [saga[d] EXCEPT !.backoff = saga'[d].backoff]
               /\ RowMatchesBank(d)' /\ ContractMatchesRow(d)'
    <3>1. CASE d = c
      BY <2>3, <2>6, <2>7, <3>1 DEF LiveStatuses
    <3>2. CASE d # c
      <4>1. saga'[d] = saga[d] /\ saga[d] \in SagaRows
        BY <2>2, <3>2, InvParts DEF TypeOK
      <4>2. RowMatchesBank(d)' /\ ContractMatchesRow(d)'
        BY <2>1, <2>5, <4>1, InvParts DEF RowMatchesBank, ContractMatchesRow
      <4> QED BY <4>1, <4>2 DEF SagaRows
    <3> QED BY <3>1, <3>2
  <2> QED BY <1>0, <2>1, <2>8, OthersKeepInv
<1>3. CASE ExpireOnRequest(c)
  <2>1. ShouldExpire(c) /\ Expire(c) /\ UNCHANGED <<fundsVars, saga, runnerVars>>
    BY <1>3 DEF ExpireOnRequest, EnsureExecutionSaga
  <2> QED BY <2>1, ExpiryKeepsInv
<1> QED BY <1>1, <1>2, <1>3 DEF EnsureExecutionSaga

\* What happens around the runners.
LEMMA EnvironmentKeepsInv ==
    ASSUME Inv, TypeInv', Environment
    PROVE  Inv'
<1>1. ASSUME UNCHANGED <<reservation, contract, shareRes, saga, runnerVars>> PROVE Inv'
  BY <1>1, UntouchedKeepsInv
<1>2. ASSUME NEW c \in Contracts, SettlementDatePasses(c) PROVE Inv'
  BY <1>1, <1>2 DEF SettlementDatePasses, fundsVars
<1>3. ASSUME NEW c \in Contracts, RetryDelayPasses(c) PROVE Inv'
  <2>1. /\ saga' = [saga EXCEPT ![c].backoff = FALSE] /\ saga[c].backoff
        /\ UNCHANGED <<reservation, contract, shareRes, runnerVars>>
    BY <1>3 DEF RetryDelayPasses, fundsVars, contractVars
  <2>2. \A d \in Contracts :
          /\ saga'[d] = [saga[d] EXCEPT !.backoff = saga'[d].backoff]
          /\ RowMatchesBank(d)' /\ ContractMatchesRow(d)'
    BY <2>1, BackoffDoesNotMatter
  <2>3. ASSUME NEW q \in Runners PROVE MutexHeld(q)' /\ RunnerMatchesRow(q)'
    <3>1. job[q] \in Contracts /\ saga[job[q]] \in SagaRows /\ MutexHeld(q) /\ RunnerMatchesRow(q)
      BY InvParts DEF TypeOK
    <3>2. saga'[job[q]] = [saga[job[q]] EXCEPT !.backoff = saga'[job[q]].backoff]
      BY <2>2, <3>1
    <3>3. /\ saga'[job[q]].status = saga[job[q]].status
          /\ saga'[job[q]].step = saga[job[q]].step
          /\ saga'[job[q]].attempt = saga[job[q]].attempt
      BY <3>1, <3>2 DEF SagaRows
    <3>4. UNCHANGED <<pc, lock, job, view, answer, reservation>>
      BY <2>1 DEF runnerVars
    <3> QED
      BY <3>1, <3>3, <3>4 DEF MutexHeld, RunnerMatchesRow, Processing, StatusOf, Status
  <2>4. \A d \in Contracts : TermsAreKept(d)'
    BY <2>1, InvParts DEF TermsAreKept
  <2> QED BY <2>2, <2>3, <2>4 DEF Inv, SagaInv, TypeInv
<1>4. ASSUME NEW c \in Contracts, ExpireContract(c) PROVE Inv'
  BY <1>4, ExpiryKeepsInv DEF ExpireContract
<1>5. ASSUME NEW u \in Users, OwnershipAccess(u) PROVE Inv'
  BY <1>1, <1>5, AccessRest DEF fundsVars, contractVars
<1>6. ASSUME NEW a \in Accounts, AccountActivity(a) PROVE Inv'
  BY <1>1, <1>6 DEF AccountActivity, Withdraw, Deposit, sagaVars, contractVars
<1> QED BY <1>2, <1>3, <1>4, <1>5, <1>6 DEF Environment

\* A runner stops, and so does its claim to the mutex.
LEMMA AbortKeepsInv ==
    ASSUME Inv, TypeInv', NEW r \in Runners, Abort(r)
    PROVE  Inv'
<1>1. Leave(r) /\ UNCHANGED <<reservation, saga, contract, shareRes>>
  BY DEF Abort, fundsVars, contractVars
<1>2. /\ pc'[r] = "idle"
      /\ \A q \in Runners : q # r =>
           pc'[q] = pc[q] /\ view'[q] = view[q] /\ answer'[q] = answer[q] /\ job'[q] = job[q]
  BY <1>1, InvParts DEF Leave, TypeOK
<1>3. \A d \in Contracts :
        /\ saga'[d] = [saga[d] EXCEPT !.backoff = saga'[d].backoff]
        /\ RowMatchesBank(d)' /\ ContractMatchesRow(d)'
  <2>1. \A d \in Contracts : saga[d] \in SagaRows
    BY InvParts DEF TypeOK
  <2>2. \A d \in Contracts : saga'[d] = [saga[d] EXCEPT !.backoff = saga'[d].backoff]
    BY <1>1, <2>1 DEF SagaRows
  <2> QED
    BY <1>1, <2>2, InvParts DEF RowMatchesBank, ContractMatchesRow, StatusOf, Status
<1> QED BY <1>1, <1>2, <1>3, OthersKeepInv

LEMMA PickKeepsInv ==
    ASSUME Inv, TypeInv', NEW c \in Contracts, PickPending(c)
    PROVE  Inv'
<1>1. /\ UNCHANGED <<reservation, saga, contract, shareRes, lock>>
      /\ pc'[Worker] = "lock"
      /\ \A q \in Runners : q # Worker =>
           pc'[q] = pc[q] /\ view'[q] = view[q] /\ answer'[q] = answer[q] /\ job'[q] = job[q]
  BY InvParts, ConstantTypes DEF PickPending, fundsVars, contractVars, TypeOK
<1>2. \A d \in Contracts :
        /\ saga'[d] = [saga[d] EXCEPT !.backoff = saga'[d].backoff]
        /\ RowMatchesBank(d)' /\ ContractMatchesRow(d)'
  <2>1. \A d \in Contracts : saga[d] \in SagaRows
    BY InvParts DEF TypeOK
  <2>2. \A d \in Contracts : saga'[d] = [saga[d] EXCEPT !.backoff = saga'[d].backoff]
    BY <1>1, <2>1 DEF SagaRows
  <2> QED
    BY <1>1, <2>2, InvParts DEF RowMatchesBank, ContractMatchesRow, StatusOf, Status
<1> QED BY <1>1, <1>2, ConstantTypes, OthersKeepInv

-----------------------------------------------------------------------------
(* The theorems *)

LEMMA InvStep ==
    ASSUME CommitAckLost = FALSE, Inv, [Next]_vars
    PROVE  Inv'
<1>1. TypeInv'
  BY TypeInvStep, InvParts
<1>2. CASE UNCHANGED vars
  BY <1>1, <1>2, UntouchedKeepsInv DEF vars, sagaVars, fundsVars, contractVars
<1>3. ASSUME NEW r \in Requesters, NEW c \in Contracts, EnsureExecutionSaga(r, c) PROVE Inv'
  BY <1>1, <1>3, EnsureKeepsInv DEF Runners
<1>4. ASSUME NEW r \in Runners, RunnerStep(r) PROVE Inv'
  BY <1>1, <1>4, LoadsKeepInv, CallsKeepInv, OutcomesKeepInv, TransactionsKeepInv DEF RunnerStep
<1>5. ASSUME NEW r \in Runners, Fault(r) PROVE Inv'
  BY <1>1, <1>5, AbortKeepsInv, CallsKeepInv, TransactionsKeepInv, ConfirmNotSavedKeepsInv
     DEF Fault, TransferUnacknowledged
<1> QED
  BY <1>1, <1>2, <1>3, <1>4, <1>5, PickKeepsInv, EnvironmentKeepsInv DEF Next, FaultlessNext

LEMMA InitInv == Init => Inv
<1> SUFFICES ASSUME Init PROVE Inv
  OBVIOUS
<1>1. TypeOK /\ TypeInv
  BY InitTypes DEF TypeInv, Init, KeysInUse, NoSaga
<1>2. ASSUME NEW c \in Contracts
      PROVE  RowMatchesBank(c) /\ ContractMatchesRow(c) /\ TermsAreKept(c)
  <2>1. \A n \in Attempts : reservation[<<c, n>>] = NoReservation
    BY ConstantTypes DEF Init, FundsInit, Attempts
  <2> QED
    BY <2>1 DEF Init, RowMatchesBank, ContractMatchesRow, TermsAreKept, NoSaga, NoReservation,
                StatusOf, Status
<1>3. ASSUME NEW r \in Runners PROVE MutexHeld(r) /\ RunnerMatchesRow(r)
  BY DEF Init, MutexHeld, RunnerMatchesRow, Processing
<1> QED BY <1>1, <1>2, <1>3 DEF Inv, SagaInv

\* The row of a contract, the reservation at the bank, the contract itself and
\* every runner that works on it agree, in the way SagaInv says, in every state.
THEOREM SagaInvariant == CommitAckLost = FALSE => (Spec => []SagaInv)
<1> SUFFICES ASSUME CommitAckLost = FALSE PROVE Spec => []SagaInv
  OBVIOUS
<1>1. Init => Inv
  BY InitInv
<1>2. Inv /\ [Next]_vars => Inv'
  BY InvStep
<1>3. Inv => SagaInv
  BY DEF Inv
<1> QED BY <1>1, <1>2, <1>3, PTL DEF Spec

\* An exercised contract is paid for, and a saga that reports success has an
\* exercised contract: the theorem rests on a database that tells the truth about
\* its commits, and the run OtcSagaAckLost shows that it must.
THEOREM ExercisedIsPaid == CommitAckLost = FALSE => (Spec => []ExercisedMeansPaid)
<1> SUFFICES ASSUME CommitAckLost = FALSE PROVE Spec => []ExercisedMeansPaid
  OBVIOUS
<1>1. SagaInv => ExercisedMeansPaid
  <2> SUFFICES ASSUME SagaInv, NEW c \in Contracts
               PROVE  /\ contract[c] = "EXERCISED" => StatusOf(c, saga[c].attempt) = "COMMITTED"
                      /\ saga[c].status = "COMPLETED" => contract[c] = "EXERCISED"
    BY DEF ExercisedMeansPaid
  <2>1. RowMatchesBank(c) /\ ContractMatchesRow(c)
    BY DEF SagaInv
  <2>2. CASE saga[c] = NoSaga
    BY <2>1, <2>2 DEF ContractMatchesRow, NoSaga
  <2>3. CASE StatusOf(c, saga[c].attempt) \in BankStatuses(saga[c])
    <3>1. ASSUME saga[c].step \in {"OWNERSHIP_TRANSFERRED", "COMPLETED"}
          PROVE  BankStatuses(saga[c]) \subseteq {"COMMITTED"}
      BY <3>1 DEF BankStatuses
    <3>2. ASSUME saga[c].status = "COMPLETED", saga[c].step # "COMPLETED"
          PROVE  BankStatuses(saga[c]) = {}
      BY <3>2 DEF BankStatuses
    <3> QED BY <2>1, <2>3, <3>1, <3>2 DEF ContractMatchesRow
  <2> QED BY <2>1, <2>2, <2>3 DEF RowMatchesBank
<1>2. Spec => []SagaInv
  BY SagaInvariant
<1> QED BY <1>1, <1>2, PTL

\* A failed saga holds no money, under the key of any attempt.
THEOREM FailedIsRefunded == CommitAckLost = FALSE => (Spec => []FailedMeansRefunded)
<1> SUFFICES ASSUME CommitAckLost = FALSE PROVE Spec => []FailedMeansRefunded
  OBVIOUS
<1>1. SagaInv => FailedMeansRefunded
  <2> SUFFICES ASSUME SagaInv, NEW c \in Contracts, saga[c].status = "FAILED",
                      NEW n \in Attempts
               PROVE  StatusOf(c, n) \notin {"RESERVED", "COMMITTED"}
    BY DEF FailedMeansRefunded
  <2>1. /\ saga[c].attempt \in Attempts
        /\ StatusOf(c, saga[c].attempt) \in BankStatuses(saga[c])
        /\ n < saga[c].attempt => StatusOf(c, n) \in Dead
        /\ n > saga[c].attempt => StatusOf(c, n) = "NONE"
    BY DEF SagaInv, RowMatchesBank, NoSaga
  <2>2. BankStatuses(saga[c]) \subseteq Dead
    BY DEF BankStatuses
  <2>3. n < saga[c].attempt \/ n = saga[c].attempt \/ n > saga[c].attempt
    BY <2>1 DEF Attempts
  <2> QED BY <2>1, <2>2, <2>3 DEF Dead
<1>2. Spec => []SagaInv
  BY SagaInvariant
<1> QED BY <1>1, <1>2, PTL

\* At most one attempt at a contract has money of the buyer.
THEOREM OneAttemptIsLive == CommitAckLost = FALSE => (Spec => []OneLiveAttempt)
<1> SUFFICES ASSUME CommitAckLost = FALSE PROVE Spec => []OneLiveAttempt
  OBVIOUS
<1>1. SagaInv => OneLiveAttempt
  <2> SUFFICES ASSUME SagaInv, NEW c \in Contracts, NEW n \in Attempts,
                      StatusOf(c, n) \in {"RESERVED", "COMMITTED"}
               PROVE  n = saga[c].attempt
    BY DEF OneLiveAttempt
  <2>1. /\ saga[c].attempt \in Attempts
        /\ n < saga[c].attempt => StatusOf(c, n) \in Dead
        /\ n > saga[c].attempt => StatusOf(c, n) = "NONE"
    BY DEF SagaInv, RowMatchesBank
  <2>2. n < saga[c].attempt \/ n = saga[c].attempt \/ n > saga[c].attempt
    BY <2>1 DEF Attempts
  <2> QED BY <2>1, <2>2 DEF Dead
<1>2. Spec => []SagaInv
  BY SagaInvariant
<1> QED BY <1>1, <1>2, PTL

-----------------------------------------------------------------------------
(* What a step may change for the parties: whatever the saga does, it is one *)
(* of four things                                                            *)

\* The bank alone, and for one contract at most.
OnlyBank(c) ==
    /\ UNCHANGED <<contract, shareRes, shareVars>>
    /\ \A k \in Keys : k[1] # c => reservation'[k] = reservation[k]

Lapses(c)  == contract[c] = "ACTIVE" /\ Expire(c) /\ UNCHANGED reservation
Settles(c) ==
    /\ Exercisable(c) /\ SellerCanSettle(c) /\ MoveShares(c) /\ UNCHANGED reservation
    /\ contract' = [contract EXCEPT ![c] = "EXERCISED"]
    /\ shareRes' = [shareRes EXCEPT ![c] = "CONSUMED"]

Effect ==
    \/ \E u \in Users : OwnershipAccess(u)
    \/ \E c \in Contracts : OnlyBank(c) \/ Lapses(c) \/ Settles(c)

LEMMA NoEffect ==
    ASSUME UNCHANGED <<contract, shareRes, shareVars, reservation>>
    PROVE  Effect
<1>1. PICK c \in Contracts : TRUE
  BY ConstantTypes
<1> QED BY <1>1 DEF Effect, OnlyBank

\* A call to the bank is about a key of the runner's contract.
LEMMA CallEffect ==
    ASSUME TypeInv, NEW r \in Runners, NEW reply \in Replies,
           LET k == Key(job[r], view[r])
           IN  \/ Reserve(k, TermsOf(job[r]), reply) \/ Commit(k, reply)
               \/ Release(k, reply) \/ Refund(k, reply),
           pc[r] \notin {"idle", "lock", "load"},
           UNCHANGED <<contractVars, shareVars>>
    PROVE  Effect
<1>1. PICK k \in Keys : k = Key(job[r], view[r])
  BY KeyInTable
<1>2. k[1] = job[r] /\ job[r] \in Contracts /\ TermsOf(job[r]) \in Requests
  BY <1>1, TermsAreRequests DEF Key, TypeInv, TypeOK
<1>3. FundsTypeOK
  BY DEF TypeInv, TypeOK
<1>4. \A j \in Keys : j # k => reservation'[j] = reservation[j]
  BY <1>1, <1>2, <1>3, ReserveEffect, CommitEffect, ReleaseEffect, RefundEffect DEF OnlyStatusOf
<1>5. OnlyBank(job[r])
  BY <1>2, <1>4 DEF OnlyBank, contractVars
<1> QED BY <1>2, <1>5 DEF Effect

LEMMA SettleEffect ==
    ASSUME TypeInv, NEW r \in Runners, Settle(r)
    PROVE  Effect
<1>1. job[r] \in Contracts
  BY DEF TypeInv, TypeOK
<1>2. Settles(job[r])
  BY DEF Settle, Settles, fundsVars
<1> QED BY <1>1, <1>2 DEF Effect

LEMMA ExpiryEffect ==
    ASSUME NEW c \in Contracts, ShouldExpire(c), Expire(c), UNCHANGED fundsVars
    PROVE  Effect
BY DEF ShouldExpire, Lapses, Effect, fundsVars

LEMMA RunnerEffect ==
    ASSUME TypeInv, NEW r \in Runners, RunnerStep(r) \/ Fault(r)
    PROVE  Effect
<1>1. job[r] \in Contracts
  BY DEF TypeInv, TypeOK
<1>2. CASE \/ AcquireLock(r) \/ LoadExecution(r) \/ FinishReserve(r) \/ RetryConfirm(r)
           \/ FinishCommit(r) \/ CompensateTransfer(r) \/ CompleteExecution(r)
           \/ FinishCompensation(r) \/ Abort(r) \/ TransactionFails(r) \/ ConfirmNotSaved(r)
  <2>1. UNCHANGED <<fundsVars, contractVars, shareVars>>
    BY <1>2 DEF AcquireLock, LoadExecution, FinishReserve, RetryConfirm, FinishCommit,
                CompensateTransfer, CompleteExecution, FinishCompensation, Abort,
                TransactionFails, ConfirmNotSaved
  <2> QED BY <2>1, NoEffect DEF fundsVars, contractVars
<1>3. CASE ReserveFunds(r) \/ CommitFunds(r) \/ ReleaseFunds(r) \/ RefundFunds(r)
  <2>1. pc[r] \in {"F1", "F3", "C1", "C3"} /\ UNCHANGED <<contractVars, shareVars>>
    BY <1>3 DEF ReserveFunds, CommitFunds, ReleaseFunds, RefundFunds, Answered
  <2>2. \E reply \in Replies :
          LET k == Key(job[r], view[r])
          IN  \/ Reserve(k, TermsOf(job[r]), reply) \/ Commit(k, reply)
              \/ Release(k, reply) \/ Refund(k, reply)
    BY <1>3 DEF ReserveFunds, CommitFunds, ReleaseFunds, RefundFunds
  <2> QED BY <2>1, <2>2, CallEffect
<1>4. CASE CallFails(r)
  <2>1. pc[r] \in {"F1", "F3", "C1", "C3"} /\ UNCHANGED <<contractVars, shareVars>>
    BY <1>4 DEF CallFails, Answered
  <2>2. CASE UNCHANGED fundsVars
    BY <2>1, <2>2, NoEffect DEF fundsVars, contractVars
  <2>3. CASE \E reply \in Replies :
               LET k == Key(job[r], view[r])
               IN  \/ Reserve(k, TermsOf(job[r]), reply) \/ Commit(k, reply)
                   \/ Release(k, reply) \/ Refund(k, reply)
    BY <2>1, <2>3, CallEffect
  <2> QED BY <1>4, <2>2, <2>3 DEF CallFails
<1>5. CASE ConfirmShares(r)
  <2>1. CASE ShouldExpire(job[r]) /\ Expire(job[r])
    BY <1>1, <1>5, <2>1, ExpiryEffect DEF ConfirmShares
  <2>2. CASE UNCHANGED <<contractVars, shareVars>>
    BY <1>5, <2>2, NoEffect DEF ConfirmShares, fundsVars, contractVars
  <2> QED BY <1>5, <2>1, <2>2 DEF ConfirmShares
<1>6. CASE TransferOwnership(r)
  <2>1. CASE ShouldExpire(job[r]) /\ Expire(job[r]) /\ UNCHANGED fundsVars
    BY <1>1, <2>1, ExpiryEffect
  <2>2. CASE UNCHANGED <<fundsVars, contractVars, shareVars>>
    BY <2>2, NoEffect DEF fundsVars, contractVars
  <2> QED BY <1>6, <2>1, <2>2, SettleEffect DEF TransferOwnership
<1>7. CASE TransferUnacknowledged(r)
  BY <1>7, SettleEffect DEF TransferUnacknowledged
<1> QED BY <1>2, <1>3, <1>4, <1>5, <1>6, <1>7 DEF RunnerStep, Fault

LEMMA EveryEffect ==
    ASSUME TypeInv, [Next]_vars
    PROVE  Effect
<1>1. ASSUME NEW r \in Requesters, NEW c \in Contracts, EnsureExecutionSaga(r, c) PROVE Effect
  <2>1. CASE ExpireOnRequest(c)
    BY <1>1, <2>1, ExpiryEffect DEF EnsureExecutionSaga, ExpireOnRequest
  <2>2. CASE ResumeSaga(r, c) \/ StartSaga(r, c)
    BY <1>1, <2>2, NoEffect
       DEF EnsureExecutionSaga, ResumeSaga, StartSaga, contractVars, fundsVars
  <2> QED BY <1>1, <2>1, <2>2 DEF EnsureExecutionSaga
<1>2. ASSUME NEW c \in Contracts, PickPending(c) PROVE Effect
  BY <1>2, NoEffect DEF PickPending, contractVars, fundsVars
<1>3. ASSUME Environment PROVE Effect
  <2>1. ASSUME NEW c \in Contracts, SettlementDatePasses(c) \/ RetryDelayPasses(c) PROVE Effect
    BY <2>1, NoEffect DEF SettlementDatePasses, RetryDelayPasses, contractVars, fundsVars
  <2>2. ASSUME NEW c \in Contracts, ExpireContract(c) PROVE Effect
    BY <2>2, ExpiryEffect DEF ExpireContract
  <2>3. ASSUME NEW u \in Users, OwnershipAccess(u) PROVE Effect
    BY <2>3 DEF Effect
  <2>4. ASSUME NEW a \in Accounts, AccountActivity(a) PROVE Effect
    BY <2>4, NoEffect DEF AccountActivity, Withdraw, Deposit, sagaVars, contractVars
  <2> QED BY <1>3, <2>1, <2>2, <2>3, <2>4 DEF Environment
<1>4. CASE UNCHANGED vars
  BY <1>4, NoEffect DEF vars, sagaVars, contractVars, fundsVars
<1> QED BY <1>1, <1>2, <1>3, <1>4, RunnerEffect DEF Next, FaultlessNext

-----------------------------------------------------------------------------
(* The shares *)

Total(f) == SumFunctionOnSet(f, Contracts)

LEMMA TotalChanges ==
    ASSUME NEW f \in [Contracts -> Int], NEW g \in [Contracts -> Int], NEW c \in Contracts,
           \A d \in Contracts \ {c} : f[d] = g[d]
    PROVE  Total(f) \in Int /\ Total(g) = Total(f) - f[c] + g[c]
<1>1. IsFiniteSet(Contracts)
  BY SagaAssumption
<1> QED BY <1>1, SumType, SumUpdated DEF Total

LEMMA TotalCovers ==
    ASSUME NEW f \in [Contracts -> Int], NEW c \in Contracts, \A d \in Contracts : f[d] >= 0
    PROVE  f[c] <= Total(f)
<1>1. IsFiniteSet(Contracts)
  BY SagaAssumption
<1> QED BY <1>1, SumAtLeast DEF Total

\* What each contract adds to the reserved and to the owned shares of u, in his row and
\* in a copy of it that somebody has read.
Reserves(u) == [c \in Contracts |->
    IF SellerOf[c] = u /\ (shareRes[c] = "ACTIVE" \/ c \in lostFrees[u])
    THEN Quantity[c] ELSE 0]

Delivers(u) == [c \in Contracts |->
    IF c \in Consumed \ lostMoves[u] THEN Delivered(c, u) ELSE 0]

CopyReserves(u) == [c \in Contracts |->
    IF SellerOf[c] = u /\ (c \notin copy[u].ended \/ c \in lostFrees[u])
    THEN Quantity[c] ELSE 0]

CopyDelivers(u) == [c \in Contracts |->
    IF c \in (Consumed \cap copy[u].ended) \ lostMoves[u] THEN Delivered(c, u) ELSE 0]

\* The invariant of one user: his row and the copy of it add up, and only what has ended
\* can have been lost.
RowAddsUp(u) ==
    /\ shares[u] >= 0
    /\ reserved[u] = Total(Reserves(u))
    /\ shares[u] = OpeningShares[u] + traded[u] + Total(Delivers(u))

CopyAddsUp(u) ==
    copy[u].held =>
      /\ copy[u].reserved = Total(CopyReserves(u))
      /\ copy[u].shares = OpeningShares[u] + traded[u] + Total(CopyDelivers(u))

LostHasEnded(u) ==
    /\ lostFrees[u] \subseteq Ended /\ lostMoves[u] \subseteq Consumed
    /\ copy[u].ended \subseteq Ended

UserInv(u) == RowAddsUp(u) /\ CopyAddsUp(u) /\ LostHasEnded(u)

SharesInv == \A u \in Users : UserInv(u)

LEMMA UserTypes ==
    ASSUME TypeOK, NEW u \in Users
    PROVE  /\ copy[u] \in Copies /\ copy[u].held \in BOOLEAN
           /\ copy[u].shares \in Int /\ copy[u].reserved \in Int
           /\ copy[u].ended \in SUBSET Contracts
           /\ shares[u] \in Int /\ reserved[u] \in Int /\ traded[u] \in Int
           /\ OpeningShares[u] \in Nat
           /\ lostMoves[u] \in SUBSET Contracts /\ lostFrees[u] \in SUBSET Contracts
<1>1. copy[u] \in Copies
  BY DEF TypeOK
<1>2. /\ copy[u].held \in BOOLEAN /\ copy[u].shares \in Int /\ copy[u].reserved \in Int
      /\ copy[u].ended \in SUBSET Contracts
  BY <1>1 DEF Copies
<1> QED BY <1>1, <1>2, ConstantTypes DEF TypeOK

LEMMA QuantityTypes ==
    \A c \in Contracts : /\ Quantity[c] \in Nat /\ SellerOf[c] \in Users /\ BuyerOf[c] \in Users
                         /\ SellerOf[c] # BuyerOf[c]
                         /\ \A u \in Users : Delivered(c, u) \in Int
  BY ConstantTypes, SagaAssumption DEF Delivered

LEMMA TermTypes ==
    ASSUME NEW u \in Users
    PROVE  /\ Reserves(u) \in [Contracts -> Int] /\ Delivers(u) \in [Contracts -> Int]
           /\ \A c \in Contracts : Reserves(u)[c] >= 0
  BY QuantityTypes DEF Reserves, Delivers

LEMMA TermTypesNext ==
    ASSUME NEW u \in Users
    PROVE  Reserves(u)' \in [Contracts -> Int] /\ Delivers(u)' \in [Contracts -> Int]
  BY QuantityTypes DEF Reserves, Delivers, Delivered

\* What a user sees of a step that leaves his row and its copy alone.
LEMMA UserUntouched ==
    ASSUME NEW u \in Users, UserInv(u), shareRes' = shareRes,
           shares'[u] = shares[u], reserved'[u] = reserved[u], copy'[u] = copy[u],
           traded'[u] = traded[u], lostMoves'[u] = lostMoves[u], lostFrees'[u] = lostFrees[u]
    PROVE  UserInv(u)'
<1>1. Ended' = Ended /\ Consumed' = Consumed
  BY DEF Ended, Consumed
<1>2. Reserves(u)' = Reserves(u) /\ CopyReserves(u)' = CopyReserves(u)
  BY DEF Reserves, CopyReserves
<1>3. Delivers(u)' = Delivers(u) /\ CopyDelivers(u)' = CopyDelivers(u)
  BY <1>1 DEF Delivers, CopyDelivers, Delivered
<1>4. RowAddsUp(u)'
  BY <1>2, <1>3 DEF UserInv, RowAddsUp, Total
<1>5. CopyAddsUp(u)'
  BY <1>2, <1>3 DEF UserInv, CopyAddsUp, Total
<1>6. LostHasEnded(u)'
  BY <1>1 DEF UserInv, LostHasEnded
<1> QED BY <1>4, <1>5, <1>6 DEF UserInv

-----------------------------------------------------------------------------
(* A contract ends *)

\* The reservation of c ends, and the row of the seller, and of the buyer of a
\* settlement, are brought up to date under their locks.
LEMMA EndKeepsShares ==
    ASSUME TypeOK, SharesInv, NEW c \in Contracts, shareRes[c] = "ACTIVE",
           NEW s \in {"CONSUMED", "RELEASED"}, shareRes' = [shareRes EXCEPT ![c] = s],
           reserved' = [reserved EXCEPT ![SellerOf[c]] = AtLeastZero(@ - Quantity[c])],
           \A u \in Users : /\ shares'[u] >= 0
                            /\ shares'[u] = shares[u] + IF s = "CONSUMED" THEN Delivered(c, u) ELSE 0,
           UNCHANGED copyVars
    PROVE  SharesInv'
<1> SUFFICES ASSUME NEW u \in Users PROVE UserInv(u)'
  BY DEF SharesInv
<1>1. /\ UserInv(u)
      /\ UNCHANGED <<copy, traded, lostMoves, lostFrees>>
  BY DEF SharesInv, copyVars
<1>2. /\ shareRes'[c] = s /\ \A d \in Contracts : d # c => shareRes'[d] = shareRes[d]
      /\ c \notin Ended /\ Ended \subseteq Contracts /\ Consumed \subseteq Ended
      /\ Ended' = Ended \cup {c}
      /\ Consumed' = IF s = "CONSUMED" THEN Consumed \cup {c} ELSE Consumed
  BY DEF TypeOK, Ended, Consumed
<1>3. /\ c \notin lostFrees[u] /\ c \notin lostMoves[u] /\ c \notin copy[u].ended
      /\ c \notin Consumed
  BY <1>1, <1>2 DEF UserInv, LostHasEnded
<1>4. LostHasEnded(u)'
  BY <1>1, <1>2 DEF UserInv, LostHasEnded
<1>5. CopyAddsUp(u)'
  <2>1. CopyReserves(u)' = CopyReserves(u)
    BY <1>1 DEF CopyReserves
  <2>2. \A d \in Contracts : d \in (Consumed' \cap copy[u].ended) <=> d \in (Consumed \cap copy[u].ended)
    BY <1>2, <1>3
  <2>3. CopyDelivers(u)' = CopyDelivers(u)
    BY <1>1, <2>2 DEF CopyDelivers, Delivered
  <2> QED BY <1>1, <2>1, <2>3 DEF UserInv, CopyAddsUp, Total
<1>6. reserved'[u] = Total(Reserves(u)')
  <2> DEFINE f == Reserves(u)
             g == Reserves(u)'
  <2>1. /\ f \in [Contracts -> Int] /\ g \in [Contracts -> Int]
        /\ \A d \in Contracts : f[d] >= 0
    BY TermTypes, TermTypesNext
  <2>2. \A d \in Contracts \ {c} : f[d] = g[d]
    BY <1>1, <1>2 DEF Reserves
  <2>3. g[c] = 0 /\ f[c] = IF SellerOf[c] = u THEN Quantity[c] ELSE 0
    BY <1>1, <1>2, <1>3 DEF Reserves
  <2>4. reserved[u] = Total(f)
    BY <1>1 DEF UserInv, RowAddsUp
  <2> HIDE DEF f, g
  <2>5. Total(f) \in Int /\ Total(g) = Total(f) - f[c] + g[c] /\ f[c] <= Total(f)
    BY <2>1, <2>2, TotalChanges, TotalCovers
  <2>6. reserved'[u] = IF SellerOf[c] = u THEN AtLeastZero(reserved[u] - Quantity[c])
                       ELSE reserved[u]
    BY QuantityTypes DEF TypeOK
  <2>7. Quantity[c] \in Nat
    BY QuantityTypes
  <2>8. reserved'[u] = Total(g)
    BY <2>3, <2>4, <2>5, <2>6, <2>7 DEF AtLeastZero
  <2> QED BY <2>8 DEF g
<1>7. shares'[u] = OpeningShares[u] + traded'[u] + Total(Delivers(u)')
  <2> DEFINE f == Delivers(u)
             g == Delivers(u)'
  <2>1. f \in [Contracts -> Int] /\ g \in [Contracts -> Int]
    BY TermTypes, TermTypesNext
  <2>2. \A d \in Contracts \ {c} : f[d] = g[d]
    BY <1>1, <1>2 DEF Delivers, Delivered
  <2>3. f[c] = 0 /\ g[c] = IF s = "CONSUMED" THEN Delivered(c, u) ELSE 0
    BY <1>1, <1>2, <1>3 DEF Delivers, Delivered
  <2>4. /\ shares[u] = OpeningShares[u] + traded[u] + Total(f)
        /\ traded'[u] = traded[u]
    BY <1>1 DEF UserInv, RowAddsUp
  <2> HIDE DEF f, g
  <2>5. Total(f) \in Int /\ Total(g) = Total(f) - f[c] + g[c]
    BY <2>1, <2>2, TotalChanges
  <2>6. shares'[u] = shares[u] + g[c]
    BY <2>3
  <2>7. g[c] \in Int /\ shares[u] \in Int /\ traded[u] \in Int /\ OpeningShares[u] \in Int
    BY <2>1, UserTypes
  <2>8. shares'[u] = OpeningShares[u] + traded'[u] + Total(g)
    BY <2>3, <2>4, <2>5, <2>6, <2>7
  <2> QED BY <2>8 DEF g
<1>8. RowAddsUp(u)'
  BY <1>6, <1>7 DEF RowAddsUp, Total
<1> QED BY <1>4, <1>5, <1>8 DEF UserInv

LEMMA LapseKeepsShares ==
    ASSUME TypeOK, SharesInv, NEW c \in Contracts, Lapses(c)
    PROVE  SharesInv'
<1>1. \A u \in Users : shares[u] \in Int /\ shares[u] >= 0
  BY UserTypes DEF SharesInv, UserInv, RowAddsUp
<1>2. CASE shareRes[c] = "ACTIVE"
  <2>1. /\ shareRes' = [shareRes EXCEPT ![c] = "RELEASED"] /\ UNCHANGED <<shares, copyVars>>
        /\ reserved' = [reserved EXCEPT ![SellerOf[c]] = AtLeastZero(@ - Quantity[c])]
    BY <1>2 DEF Lapses, Expire
  <2>2. \A u \in Users :
          /\ shares'[u] >= 0
          /\ shares'[u] = shares[u] + IF "RELEASED" = "CONSUMED" THEN Delivered(c, u) ELSE 0
    BY <1>1, <2>1
  <2> QED BY <1>2, <2>1, <2>2, EndKeepsShares
<1>3. CASE shareRes[c] # "ACTIVE"
  <2>1. UNCHANGED <<shareRes, reserved, shares, copy, traded, lostMoves, lostFrees>>
    BY <1>3 DEF Lapses, Expire, copyVars
  <2> QED BY <2>1, UserUntouched DEF SharesInv
<1> QED BY <1>2, <1>3

LEMMA SettleKeepsShares ==
    ASSUME TypeOK, SharesInv, NEW c \in Contracts, Settles(c)
    PROVE  SharesInv'
<1>1. /\ shares' = [shares EXCEPT ![SellerOf[c]] = @ - Quantity[c],
                                  ![BuyerOf[c]] = @ + Quantity[c]]
      /\ reserved' = [reserved EXCEPT ![SellerOf[c]] = AtLeastZero(@ - Quantity[c])]
      /\ shareRes[c] = "ACTIVE" /\ shareRes' = [shareRes EXCEPT ![c] = "CONSUMED"]
      /\ UNCHANGED copyVars /\ shares[SellerOf[c]] >= Quantity[c]
  BY DEF Settles, MoveShares, SellerCanSettle, Exercisable
<1>2. \A u \in Users : shares[u] \in Int /\ shares[u] >= 0
  BY UserTypes DEF SharesInv, UserInv, RowAddsUp
<1>3. \A u \in Users : shares'[u] >= 0 /\ shares'[u] = shares[u] + Delivered(c, u)
  BY <1>1, <1>2, QuantityTypes DEF TypeOK, Delivered
<1> QED BY <1>1, <1>3, EndKeepsShares

-----------------------------------------------------------------------------
(* A row is read and written beside the saga *)

LEMMA FindKeepsShares ==
    ASSUME TypeOK, NEW u \in Users, UserInv(u), FindOwnership(u)
    PROVE  UserInv(u)'
<1>1. /\ copy'[u] = [held |-> TRUE, shares |-> shares[u], public |-> public[u],
                     reserved |-> reserved[u], ended |-> Ended]
      /\ UNCHANGED <<shareRes, shares, reserved, traded, lostMoves, lostFrees>>
  BY DEF FindOwnership, TypeOK, contractVars
<1>2. Ended' = Ended /\ Consumed' = Consumed /\ Consumed \subseteq Ended
  BY <1>1 DEF Ended, Consumed
<1>3. Reserves(u)' = Reserves(u) /\ Delivers(u)' = Delivers(u)
  BY <1>1, <1>2 DEF Reserves, Delivers, Delivered
<1>4. CopyReserves(u)' = Reserves(u)
  <2>1. \A c \in Contracts : c \notin Ended <=> shareRes[c] = "ACTIVE"
    BY DEF Ended
  <2> QED BY <1>1, <2>1 DEF CopyReserves, Reserves
<1>5. CopyDelivers(u)' = Delivers(u)
  <2>1. Consumed' \cap copy'[u].ended = Consumed
    BY <1>1, <1>2
  <2> QED BY <1>1, <2>1 DEF CopyDelivers, Delivers, Delivered
<1>6. RowAddsUp(u)'
  BY <1>1, <1>3 DEF UserInv, RowAddsUp, Total
<1>7. CopyAddsUp(u)'
  BY <1>1, <1>4, <1>5 DEF UserInv, RowAddsUp, CopyAddsUp, Total
<1>8. LostHasEnded(u)'
  BY <1>1, <1>2 DEF UserInv, LostHasEnded
<1> QED BY <1>6, <1>7, <1>8 DEF UserInv

\* The reserved shares that are put back are those of the copy: the reservations that
\* ended in between count again.
LEMMA PutBackKeepsReserved ==
    ASSUME TypeOK, NEW u \in Users, UserInv(u), NEW published, PutBack(u, published)
    PROVE  /\ reserved'[u] = Total(Reserves(u)')
           /\ copy'[u] = NoCopy /\ lostFrees'[u] \subseteq Ended
           /\ shareRes' = shareRes /\ Ended' = Ended /\ Consumed' = Consumed
<1>1. /\ copy[u].held /\ copy'[u] = NoCopy /\ shareRes' = shareRes
      /\ reserved'[u] = copy[u].reserved
      /\ lostFrees'[u] = lostFrees[u] \cup (Ended \ copy[u].ended)
  BY DEF PutBack, TypeOK, contractVars
<1>2. Ended' = Ended /\ Consumed' = Consumed
  BY <1>1 DEF Ended, Consumed
<1>3. \A c \in Contracts : (shareRes'[c] = "ACTIVE" \/ c \in lostFrees'[u])
                             <=> (c \notin copy[u].ended \/ c \in lostFrees[u])
  BY <1>1 DEF UserInv, LostHasEnded, Ended
<1>4. Reserves(u)' = CopyReserves(u)
  BY <1>3 DEF Reserves, CopyReserves
<1>5. lostFrees'[u] \subseteq Ended
  BY <1>1 DEF UserInv, LostHasEnded
<1> QED BY <1>1, <1>2, <1>4, <1>5 DEF UserInv, CopyAddsUp

LEMMA UpsertKeepsShares ==
    ASSUME TypeOK, NEW u \in Users, UserInv(u), UpsertOwnership(u)
    PROVE  UserInv(u)'
<1>1. PutBack(u, copy[u].public) /\ copy[u].held
  BY DEF UpsertOwnership, PutBack
<1>2. PICK d \in {-1, 1} :
         /\ copy[u].shares + d \in 0 .. (IF d = 1 THEN MaxShares ELSE copy[u].shares)
         /\ shares'[u] = copy[u].shares + d /\ traded'[u] = traded[u] + d
  BY DEF UpsertOwnership, TypeOK
<1>3. /\ reserved'[u] = Total(Reserves(u)') /\ copy'[u] = NoCopy /\ lostFrees'[u] \subseteq Ended
      /\ Ended' = Ended /\ Consumed' = Consumed
  BY <1>1, PutBackKeepsReserved
<1>4. lostMoves'[u] = lostMoves[u] \cup (Consumed \ copy[u].ended)
  BY DEF UpsertOwnership, TypeOK
<1>5. Delivers(u)' = CopyDelivers(u)
  <2>1. Consumed' \ lostMoves'[u] = (Consumed \cap copy[u].ended) \ lostMoves[u]
    BY <1>3, <1>4
  <2> QED BY <2>1 DEF Delivers, CopyDelivers, Delivered
<1>6. shares'[u] >= 0 /\ shares'[u] = OpeningShares[u] + traded'[u] + Total(Delivers(u)')
  <2>1. copy[u].shares = OpeningShares[u] + traded[u] + Total(CopyDelivers(u))
    BY <1>1 DEF UserInv, CopyAddsUp
  <2>2. CopyDelivers(u) \in [Contracts -> Int] /\ IsFiniteSet(Contracts)
    BY QuantityTypes, SagaAssumption DEF CopyDelivers
  <2>3. Total(CopyDelivers(u)) \in Int
    BY <2>2, SumType DEF Total
  <2> QED BY <1>2, <1>5, <2>1, <2>3, UserTypes
<1>7. RowAddsUp(u)'
  BY <1>3, <1>6 DEF RowAddsUp, Total
<1>8. CopyAddsUp(u)' /\ LostHasEnded(u)'
  BY <1>3, <1>4 DEF CopyAddsUp, LostHasEnded, NoCopy, UserInv
<1> QED BY <1>7, <1>8 DEF UserInv

LEMMA PublishKeepsShares ==
    ASSUME TypeOK, NEW u \in Users, UserInv(u), UpdateOTCFields(u)
    PROVE  UserInv(u)'
<1>1. PICK n \in {0, 1} : PutBack(u, copy[u].public + n)
  BY DEF UpdateOTCFields
<1>2. UNCHANGED <<shares, traded, lostMoves>>
  BY DEF UpdateOTCFields
<1>3. /\ reserved'[u] = Total(Reserves(u)') /\ copy'[u] = NoCopy /\ lostFrees'[u] \subseteq Ended
      /\ Ended' = Ended /\ Consumed' = Consumed
  BY <1>1, PutBackKeepsReserved
<1>4. Delivers(u)' = Delivers(u)
  BY <1>2, <1>3 DEF Delivers, Delivered
<1>5. RowAddsUp(u)'
  BY <1>2, <1>3, <1>4 DEF UserInv, RowAddsUp, Total
<1>6. CopyAddsUp(u)' /\ LostHasEnded(u)'
  BY <1>2, <1>3 DEF CopyAddsUp, LostHasEnded, NoCopy, UserInv
<1> QED BY <1>5, <1>6 DEF UserInv

LEMMA DropKeepsShares ==
    ASSUME TypeOK, NEW u \in Users, UserInv(u), DropOwnership(u)
    PROVE  UserInv(u)'
<1>1. /\ copy'[u] = NoCopy
      /\ UNCHANGED <<shareRes, shares, reserved, traded, lostMoves, lostFrees>>
  BY DEF DropOwnership, TypeOK, contractVars
<1>2. Ended' = Ended /\ Consumed' = Consumed
  BY <1>1 DEF Ended, Consumed
<1>3. Reserves(u)' = Reserves(u) /\ Delivers(u)' = Delivers(u)
  BY <1>1, <1>2 DEF Reserves, Delivers, Delivered
<1>4. RowAddsUp(u)'
  BY <1>1, <1>3 DEF UserInv, RowAddsUp, Total
<1>5. CopyAddsUp(u)' /\ LostHasEnded(u)'
  BY <1>1, <1>2 DEF CopyAddsUp, LostHasEnded, NoCopy, UserInv
<1> QED BY <1>4, <1>5 DEF UserInv

LEMMA AccessKeepsShares ==
    ASSUME TypeOK, SharesInv, NEW w \in Users, OwnershipAccess(w)
    PROVE  SharesInv'
<1> SUFFICES ASSUME NEW u \in Users PROVE UserInv(u)'
  BY DEF SharesInv
<1>1. UserInv(u)
  BY DEF SharesInv
<1>2. CASE u = w
  BY <1>1, <1>2, FindKeepsShares, UpsertKeepsShares, PublishKeepsShares, DropKeepsShares
     DEF OwnershipAccess
<1>3. CASE u # w
  <2>1. shareRes' = shareRes
    BY AccessRest DEF contractVars
  <2>2. /\ shares'[u] = shares[u] /\ reserved'[u] = reserved[u] /\ copy'[u] = copy[u]
        /\ traded'[u] = traded[u] /\ lostMoves'[u] = lostMoves[u] /\ lostFrees'[u] = lostFrees[u]
    BY <1>3 DEF OwnershipAccess, FindOwnership, UpsertOwnership, UpdateOTCFields,
                DropOwnership, PutBack, TypeOK
  <2> QED BY <1>1, <2>1, <2>2, UserUntouched
<1> QED BY <1>2, <1>3

LEMMA SharesStep ==
    ASSUME TypeInv, SharesInv, [Next]_vars
    PROVE  SharesInv'
<1>1. TypeOK
  BY DEF TypeInv
<1>2. ASSUME NEW c \in Contracts, OnlyBank(c) PROVE SharesInv'
  <2>1. UNCHANGED <<shareRes, shares, reserved, copy, traded, lostMoves, lostFrees>>
    BY <1>2 DEF OnlyBank, shareVars
  <2> QED BY <2>1, UserUntouched DEF SharesInv
<1> QED BY <1>1, <1>2, EveryEffect, LapseKeepsShares, SettleKeepsShares, AccessKeepsShares
        DEF Effect

LEMMA SharesInitially == Init => TypeInv /\ SharesInv
<1> SUFFICES ASSUME Init PROVE TypeInv /\ SharesInv
  OBVIOUS
<1>1. TypeInv
  BY InitTypes DEF TypeInv, Init, KeysInUse, NoSaga
<1>2. ASSUME NEW u \in Users PROVE UserInv(u)
  <2>1. /\ shares[u] = OpeningShares[u] /\ reserved[u] = OpeningReserved[u] /\ traded[u] = 0
        /\ lostMoves[u] = {} /\ lostFrees[u] = {} /\ copy[u] = NoCopy
        /\ \A c \in Contracts : shareRes[c] = "ACTIVE"
    BY DEF Init
  <2>2. Reserves(u) = [c \in Contracts |-> IF SellerOf[c] = u THEN Quantity[c] ELSE 0]
    BY <2>1 DEF Reserves
  <2>3. reserved[u] = Total(Reserves(u))
    BY <2>1, <2>2, SagaAssumption DEF Total
  <2>4. Delivers(u) \in [Contracts -> Int] /\ \A c \in Contracts : Delivers(u)[c] = 0
    BY <2>1 DEF Delivers, Consumed
  <2>5. Total(Delivers(u)) = 0
    BY <2>4, SumOfZeros, SagaAssumption DEF Total
  <2>6. RowAddsUp(u)
    BY <2>1, <2>3, <2>5, ConstantTypes DEF RowAddsUp
  <2>7. CopyAddsUp(u) /\ LostHasEnded(u)
    BY <2>1 DEF CopyAddsUp, LostHasEnded, NoCopy
  <2> QED BY <2>6, <2>7 DEF UserInv
<1> QED BY <1>1, <1>2 DEF SharesInv

LEMMA SharesInvariant == Spec => []SharesInv
<1>1. Init => TypeInv /\ SharesInv
  BY SharesInitially
<1>2. TypeInv /\ SharesInv /\ [Next]_vars => TypeInv' /\ SharesInv'
  BY TypeInvStep, SharesStep
<1> QED BY <1>1, <1>2, PTL DEF Spec

\* A seller's reserved amount is the sum of his active reservations and of those whose
\* end a stale write has undone, for any number of contracts: exercise and the three
\* ways to expire free each of them once, and no writer invents or loses another one.
THEOREM ReservedAmountAlwaysMatches == Spec => []ReservedAmountMatches
<1>1. SharesInv => ReservedAmountMatches
  BY DEF SharesInv, UserInv, RowAddsUp, ReservedAmountMatches, Reserves, Total
<1> QED BY <1>1, SharesInvariant, PTL

\* No settlement sells shares that the seller does not have, and every share a user has
\* comes from what he started with, his fills, and the settlements that no stale fill
\* has undone, whatever is traded in between and in whichever order the contracts end.
THEOREM SharesAlwaysAccounted == Spec => []SharesAccounted
<1>1. SharesInv => SharesAccounted
  BY DEF SharesInv, UserInv, RowAddsUp, SharesAccounted, Delivers, Total
<1> QED BY <1>1, SharesInvariant, PTL

-----------------------------------------------------------------------------
(* The refinement: the saga implements delivery versus payment.  In the terms *)
(* of the saga, money is in escrow while an attempt is reserved or committed, *)
(* and the settlement of the contract hands it to the seller.                 *)

HoldsMoney(c) == \E n \in Attempts : StatusOf(c, n) \in {"RESERVED", "COMMITTED"}

MoneyOf(c) ==
    IF contract[c] = "EXERCISED" THEN "seller" ELSE IF HoldsMoney(c) THEN "escrow" ELSE "buyer"

StockOf(c) == IF contract[c] = "EXERCISED" THEN "buyer" ELSE "seller"

\* What the refinement mapping says in states of the invariant.
Mapped ==
    /\ DVP!dvpVars = <<[c \in Contracts |-> MoneyOf(c)],
                       [c \in Contracts |-> StockOf(c)], contract>>
    /\ \A c \in Contracts : contract[c] = "EXERCISED" => HoldsMoney(c)

LEMMA MappedState == Inv => Mapped
<1> SUFFICES ASSUME Inv PROVE Mapped
  OBVIOUS
<1>1. ASSUME NEW c \in Contracts, contract[c] = "EXERCISED"
      PROVE  \E n \in Attempts : StatusOf(c, n) = "COMMITTED"
  <2>1. saga[c].step \in {"OWNERSHIP_TRANSFERRED", "COMPLETED"} /\ RowMatchesBank(c)
    BY <1>1, InvParts DEF ContractMatchesRow
  <2>2. saga[c].attempt \in Attempts /\ StatusOf(c, saga[c].attempt) \in BankStatuses(saga[c])
    BY <2>1 DEF RowMatchesBank, NoSaga
  <2>3. BankStatuses(saga[c]) \subseteq {"COMMITTED"}
    BY <2>1 DEF BankStatuses
  <2> QED BY <2>2, <2>3
<1>2. \A c \in Contracts : contract[c] = "EXERCISED" => HoldsMoney(c)
  BY <1>1 DEF HoldsMoney
<1>3. \A c \in Contracts :
        MoneyOf(c) = IF \E n \in Attempts : StatusOf(c, n) \in {"RESERVED", "COMMITTED"}
                     THEN IF /\ contract[c] = "EXERCISED"
                             /\ \E n \in Attempts : StatusOf(c, n) = "COMMITTED"
                          THEN "seller" ELSE "escrow"
                     ELSE "buyer"
  BY <1>1, <1>2 DEF MoneyOf, HoldsMoney
<1>4. \A c \in Contracts : StockOf(c) = IF shareRes[c] = "CONSUMED" THEN "buyer" ELSE "seller"
  BY InvParts DEF StockOf, ContractMatchesRow
<1> QED BY <1>2, <1>3, <1>4 DEF Mapped, DVP!dvpVars

LEMMA MappedNext == Inv' => Mapped'
  BY MappedState, PTL

\* A step of the bank about the contract c: to escrow, back to the buyer, or nothing.
LEMMA BankStepMaps ==
    ASSUME Inv, Inv', NEW c \in Contracts, OnlyBank(c)
    PROVE  DVP!Escrow(c) \/ DVP!GiveBack(c) \/ UNCHANGED DVP!dvpVars
<1>1. contract' = contract /\ \A d \in Contracts : StockOf(d)' = StockOf(d)
  BY DEF OnlyBank, StockOf
<1>2. ASSUME NEW d \in Contracts, d # c PROVE MoneyOf(d)' = MoneyOf(d)
  <2>1. \A n \in Attempts : <<d, n>> \in Keys /\ reservation'[<<d, n>>] = reservation[<<d, n>>]
    BY <1>2, SagaAssumption DEF OnlyBank, Attempts
  <2>2. HoldsMoney(d)' <=> HoldsMoney(d)
    BY <2>1 DEF HoldsMoney, StatusOf, Status
  <2> QED BY <1>1, <2>2 DEF MoneyOf
<1>3. CASE MoneyOf(c)' = MoneyOf(c)
  BY <1>1, <1>2, <1>3, MappedState, MappedNext DEF Mapped, DVP!dvpVars
<1>4. CASE MoneyOf(c)' # MoneyOf(c)
  <2>1. /\ contract[c] # "EXERCISED"
        /\ \/ MoneyOf(c) = "buyer" /\ MoneyOf(c)' = "escrow"
           \/ MoneyOf(c) = "escrow" /\ MoneyOf(c)' = "buyer"
    BY <1>1, <1>4 DEF MoneyOf
  <2>2. [d \in Contracts |-> MoneyOf(d)'] =
          [[d \in Contracts |-> MoneyOf(d)] EXCEPT ![c] = MoneyOf(c)']
    BY <1>2
  <2>3. /\ DVP!dvpVars = <<[d \in Contracts |-> MoneyOf(d)],
                           [d \in Contracts |-> StockOf(d)], contract>>
        /\ DVP!dvpVars' = <<[d \in Contracts |-> MoneyOf(d)'],
                            [d \in Contracts |-> StockOf(d)], contract>>
    BY <1>1, MappedState, MappedNext DEF Mapped
  <2>4. CASE MoneyOf(c) = "buyer" /\ MoneyOf(c)' = "escrow"
    BY <2>1, <2>2, <2>3, <2>4 DEF DVP!dvpVars, DVP!Escrow
  <2>5. CASE MoneyOf(c) = "escrow" /\ MoneyOf(c)' = "buyer"
    BY <2>1, <2>2, <2>3, <2>5 DEF DVP!dvpVars, DVP!GiveBack
  <2> QED BY <2>1, <2>4, <2>5
<1> QED BY <1>3, <1>4

LEMMA LapseMaps ==
    ASSUME Inv, Inv', NEW c \in Contracts, Lapses(c)
    PROVE  DVP!Lapse(c)
<1>1. contract[c] = "ACTIVE" /\ contract' = [contract EXCEPT ![c] = "EXPIRED"]
  BY DEF Lapses, Expire
<1>2. contract \in [Contracts -> {"ACTIVE", "EXERCISED", "EXPIRED"}]
  BY InvParts DEF TypeOK
<1>3. ASSUME NEW d \in Contracts PROVE MoneyOf(d)' = MoneyOf(d) /\ StockOf(d)' = StockOf(d)
  <2>1. HoldsMoney(d)' <=> HoldsMoney(d)
    BY DEF Lapses, HoldsMoney, StatusOf, Status
  <2>2. contract'[d] = "EXERCISED" <=> contract[d] = "EXERCISED"
    BY <1>1, <1>2
  <2> QED BY <2>1, <2>2 DEF MoneyOf, StockOf
<1> QED BY <1>1, <1>3, MappedState, MappedNext DEF Mapped, DVP!dvpVars, DVP!Lapse

LEMMA SettlementMaps ==
    ASSUME Inv, Inv', NEW c \in Contracts, Settles(c)
    PROVE  DVP!Settle(c)
<1>1. contract[c] = "ACTIVE" /\ contract' = [contract EXCEPT ![c] = "EXERCISED"]
  BY DEF Settles, Exercisable
<1>2. contract'[c] = "EXERCISED" /\ \A d \in Contracts : d # c => contract'[d] = contract[d]
  BY <1>1, InvParts DEF TypeOK
<1>3. \A d \in Contracts : HoldsMoney(d)' <=> HoldsMoney(d)
  BY DEF Settles, HoldsMoney, StatusOf, Status
<1>4. HoldsMoney(c)
  BY <1>2, <1>3, MappedNext DEF Mapped
<1>5. \A d \in Contracts : d # c => MoneyOf(d)' = MoneyOf(d) /\ StockOf(d)' = StockOf(d)
  BY <1>2, <1>3 DEF MoneyOf, StockOf
<1>6. /\ MoneyOf(c) = "escrow" /\ MoneyOf(c)' = "seller" /\ StockOf(c)' = "buyer"
  BY <1>1, <1>2, <1>4 DEF MoneyOf, StockOf
<1>7. /\ [d \in Contracts |-> MoneyOf(d)'] =
           [[d \in Contracts |-> MoneyOf(d)] EXCEPT ![c] = "seller"]
      /\ [d \in Contracts |-> StockOf(d)'] =
           [[d \in Contracts |-> StockOf(d)] EXCEPT ![c] = "buyer"]
  BY <1>5, <1>6
<1> QED BY <1>1, <1>6, <1>7, MappedState, MappedNext DEF Mapped, DVP!dvpVars, DVP!Settle

LEMMA StepMaps ==
    ASSUME Inv, Inv', [Next]_vars
    PROVE  [DVP!DvpNext]_(DVP!dvpVars)
<1>1. CASE \E u \in Users : OwnershipAccess(u)
  <2>1. UNCHANGED <<contract, reservation>>
    BY <1>1, AccessRest DEF fundsVars, contractVars
  <2>2. \A c \in Contracts : MoneyOf(c)' = MoneyOf(c) /\ StockOf(c)' = StockOf(c)
    BY <2>1 DEF MoneyOf, StockOf, HoldsMoney, StatusOf, Status
  <2> QED BY <2>1, <2>2, MappedState, MappedNext DEF Mapped
<1>2. ASSUME NEW c \in Contracts, OnlyBank(c) \/ Lapses(c) \/ Settles(c)
      PROVE  [DVP!DvpNext]_(DVP!dvpVars)
  BY <1>2, BankStepMaps, LapseMaps, SettlementMaps DEF DVP!DvpNext
<1>3. Effect
  BY EveryEffect DEF Inv
<1> QED BY <1>1, <1>2, <1>3 DEF Effect

LEMMA InitMaps == Init => DVP!DvpInit
<1> SUFFICES ASSUME Init PROVE DVP!DvpInit
  OBVIOUS
<1>1. \A c \in Contracts, n \in Attempts : StatusOf(c, n) = "NONE"
  BY SagaAssumption DEF Init, FundsInit, StatusOf, Status, NoReservation, Attempts
<1>2. /\ contract = [c \in Contracts |-> "ACTIVE"]
      /\ \A c \in Contracts : shareRes[c] # "CONSUMED"
  BY DEF Init
<1> QED BY <1>1, <1>2 DEF DVP!DvpInit

\* The saga, its runners, the bank and every crash in between are delivery versus
\* payment: the price becomes the seller's in the very step in which the shares become
\* the buyer's, and in no other.
THEOREM SagaImplementsDvp == CommitAckLost = FALSE => (Spec => DeliveryVersusPayment)
<1> SUFFICES ASSUME CommitAckLost = FALSE PROVE Spec => DeliveryVersusPayment
  OBVIOUS
<1>1. Init => Inv /\ DVP!DvpInit
  BY InitInv, InitMaps
<1>2. Inv /\ [Next]_vars => Inv'
  BY InvStep
<1>3. Inv /\ Inv' /\ [Next]_vars => [DVP!DvpNext]_(DVP!dvpVars)
  BY StepMaps
<1> QED BY <1>1, <1>2, <1>3, PTL DEF Spec, DeliveryVersusPayment, DVP!DvpSafety

=============================================================================
