----------------------- MODULE InterbankPaymentProofs -----------------------
(***************************************************************************)
(* Theorems about InterbankPayment, for any payments, workers, handlers and *)
(* faults, and any number of attempts.                                     *)
(***************************************************************************)
EXTENDS InterbankPayment, TLAPS

-----------------------------------------------------------------------------
(* Types *)

LEMMA ActorKinds ==
    /\ \A p \in Payments : p \in Actors /\ p \notin Workers /\ p \notin Handlers
    /\ \A w \in Workers : w \in Actors /\ w \notin Payments /\ w \notin Handlers
    /\ \A h \in Handlers : h \in Actors /\ h \notin Payments /\ h \notin Workers
    /\ \A a \in Actors : a # NoActor
  BY PaymentAssumption DEF Actors

LEMMA JobTypes ==
    ASSUME NEW place \in Places, NEW p \in Payments
    PROVE  Job(place, p) \in Jobs
  BY DEF Job, Jobs, Messages, Replies

LEMMA IdleTypes == Idle \in Jobs
<1>1. (CHOOSE p \in Payments : TRUE) \in Payments
  BY PaymentAssumption
<1>2. "idle" \in Places
  BY DEF Places, WorkerPlaces
<1> QED BY <1>1, <1>2, JobTypes DEF Idle

LEMMA BankTypes == \A a : Bank(a) \in Banks
  BY DEF Bank, Banks

LEMMA PayTypes ==
    ASSUME PaymentTypeOK, NEW a \in Actors
    PROVE  Pay(a) \in Payments /\ actor[a] \in Jobs /\ actor[a].msg \in Messages
  BY DEF PaymentTypeOK, Pay, Jobs

\* An actor that goes somewhere, perhaps with a reply.
LEMMA GoTypes ==
    ASSUME PaymentTypeOK, NEW a \in Actors, NEW place \in Places
    PROVE  /\ Go(a, place) => actor' \in [Actors -> Jobs]
           /\ \A reply \in Replies : Reply(a, place, reply) => actor' \in [Actors -> Jobs]
<1>1. actor[a] \in Jobs /\ actor \in [Actors -> Jobs]
  BY DEF PaymentTypeOK
<1>2. CASE Go(a, place)
  <2>1. [actor[a] EXCEPT !.at = place] \in Jobs
    BY <1>1 DEF Jobs
  <2>2. actor' = [actor EXCEPT ![a] = [actor[a] EXCEPT !.at = place]]
    BY <1>2 DEF Go
  <2> QED BY <1>1, <2>1, <2>2
<1>3. ASSUME NEW reply \in Replies, Reply(a, place, reply)
      PROVE  actor' \in [Actors -> Jobs]
  <2>1. [actor[a] EXCEPT !.at = place, !.reply = reply] \in Jobs
    BY <1>1 DEF Jobs
  <2>2. actor' = [actor EXCEPT ![a] = [actor[a] EXCEPT !.at = place, !.reply = reply]]
    BY <1>1, <1>3 DEF Reply
  <2> QED BY <1>1, <2>1, <2>2
<1> QED BY <1>2, <1>3, <1>1

LEMMA SaveTypes ==
    ASSUME PaymentTypeOK, NEW a \in Actors
    PROVE  /\ \A s \in RecordStates :
                  SaveRecord(a, s) => record' \in [Banks -> [Payments -> RecordStates]]
           /\ \A s \in PostingStates :
                  SavePosting(a, s) => posting' \in [Banks -> [Payments -> PostingStates]]
<1>1. Bank(a) \in Banks /\ Pay(a) \in Payments
  BY BankTypes, PayTypes
<1>2. ASSUME NEW s \in RecordStates, SaveRecord(a, s)
      PROVE  record' \in [Banks -> [Payments -> RecordStates]]
  <2> HIDE DEF Banks, RecordStates, Pay, Bank
  <2>1. [record[Bank(a)] EXCEPT ![Pay(a)] = s] \in [Payments -> RecordStates]
    BY <1>1 DEF PaymentTypeOK
  <2> QED BY <1>1, <1>2, <2>1 DEF PaymentTypeOK, SaveRecord
<1>3. ASSUME NEW s \in PostingStates, SavePosting(a, s)
      PROVE  posting' \in [Banks -> [Payments -> PostingStates]]
  <2> HIDE DEF Banks, PostingStates, Pay, Bank
  <2>1. [posting[Bank(a)] EXCEPT ![Pay(a)] = s] \in [Payments -> PostingStates]
    BY <1>1 DEF PaymentTypeOK
  <2> QED BY <1>1, <1>3, <2>1 DEF PaymentTypeOK, SavePosting
<1> QED BY <1>2, <1>3

LEMMA FaultTypes ==
    ASSUME PaymentTypeOK, NEW a \in Actors
    PROVE  /\ Fails(a) => faults' \in Nat /\ disturbed' \subseteq Payments
           /\ Unanswered(a) => faults' \in Nat /\ disturbed' \subseteq Payments
           /\ UNCHANGED faultVars => faults' \in Nat /\ disturbed' \subseteq Payments
  BY PayTypes DEF PaymentTypeOK, Fails, Unanswered, Disturbs, Fault, faultVars

LEMMA EnqueueTypes ==
    ASSUME PaymentTypeOK, NEW p \in Payments, NEW m \in Messages, Enqueue(p, m)
    PROVE  outbox' \in [Payments -> [Messages -> Rows]]
<1>1. [NoRow EXCEPT !.status = "PENDING"] \in Rows
  BY DEF NoRow, Rows
<1> HIDE DEF Rows, Messages
<1> QED BY <1>1 DEF PaymentTypeOK, Enqueue

LEMMA KeepTypes ==
    ASSUME PaymentTypeOK, NEW h \in Actors, NEW reply \in Replies, Keep(h, reply)
    PROVE  inbox' \in [Payments -> [Messages -> Replies]] /\ actor' \in [Actors -> Jobs]
<1>1. "answer" \in Places
  BY DEF Places, HandlerPlaces
<1>2. actor' \in [Actors -> Jobs]
  BY <1>1, GoTypes DEF Keep
<1>3. Pay(h) \in Payments /\ actor[h].msg \in Messages
  BY PayTypes
<1> HIDE DEF Messages, Replies, Pay
<1> QED BY <1>2, <1>3 DEF Keep, PaymentTypeOK

LEMMA PrepareTypes ==
    ASSUME PaymentTypeOK, NEW a \in Actors,
           \/ Initiate(a) \/ Prepare(a) \/ Create(a) \/ Reserve(a) \/ Confirm(a)
           \/ Refuse(a) \/ Reject(a) \/ (a \in Payments /\ EnqueueNewTx(a))
    PROVE  PaymentTypeOK'
<1> USE DEF PaymentTypeOK, bankVars
<1>1. /\ {"PREPARING", "PREPARED", "ROLLED_BACK"} \subseteq RecordStates
      /\ "PREPARED" \in PostingStates
      /\ {"YES", "NO", "ERROR"} \subseteq Replies
      /\ "NEW" \in Messages
      /\ {"reserve", "reject", "create", "vote", "answer", "confirm", "refuse", "enqueue",
          "end"} \subseteq Places
  BY DEF RecordStates, PostingStates, Replies, Messages, Places, InitiatorPlaces,
         WorkerPlaces, HandlerPlaces
<1> USE FaultTypes, SaveTypes, GoTypes
<1>2. ASSUME Initiate(a) PROVE PaymentTypeOK'
  BY <1>1, <1>2 DEF Initiate
<1>3. ASSUME Prepare(a) PROVE PaymentTypeOK'
  BY <1>1, <1>3 DEF Prepare
<1>4. ASSUME Create(a) PROVE PaymentTypeOK'
  BY <1>1, <1>4 DEF Create
<1>5. ASSUME Reserve(a) PROVE PaymentTypeOK'
  BY <1>1, <1>5 DEF Reserve
<1>6. ASSUME Confirm(a) PROVE PaymentTypeOK'
  BY <1>1, <1>6 DEF Confirm, Confirmed, Broken
<1>7. ASSUME Refuse(a) PROVE PaymentTypeOK'
  BY <1>1, <1>7 DEF Refuse
<1>8. ASSUME a \in Payments, EnqueueNewTx(a) PROVE PaymentTypeOK'
  BY <1>1, <1>8, EnqueueTypes DEF EnqueueNewTx
<1>9. ASSUME Reject(a) PROVE PaymentTypeOK'
  BY <1>1, <1>9 DEF Reject
<1> QED BY <1>2, <1>3, <1>4, <1>5, <1>6, <1>7, <1>8, <1>9

LEMMA LocalTypes ==
    ASSUME PaymentTypeOK, NEW a \in Actors, LocalTransaction(a) \/ EnqueueFollowUp(a)
    PROVE  PaymentTypeOK'
<1> USE DEF PaymentTypeOK, bankVars
<1>1. /\ {"COMMITTED", "ROLLED_BACK"} \subseteq RecordStates
      /\ {"COMMITTED", "ROLLED_BACK"} \subseteq PostingStates
      /\ {"DONE", "LATER", "ERROR"} \subseteq Replies
      /\ {"COMMIT", "ROLLBACK"} \subseteq Messages
      /\ {"answer", "markSent", "enqueue", "bankCommit", "saveCommit", "reportPaid",
          "reportFailed", "bankRollback", "saveRollback"} \subseteq Places
  BY DEF RecordStates, PostingStates, Replies, Messages, Places, InitiatorPlaces,
         WorkerPlaces, HandlerPlaces
<1> USE FaultTypes, SaveTypes, GoTypes, KeepTypes, EnqueueTypes, PayTypes
<1>2. ASSUME Abort(a) PROVE actor' \in [Actors -> Jobs]
  BY <1>1, <1>2 DEF Abort
<1>3. ASSUME NEW place \in Places, NEW fresh \in BOOLEAN,
             actor' = [actor EXCEPT ![a].at = place, ![a].fresh = fresh]
      PROVE  actor' \in [Actors -> Jobs]
  <2>1. [actor[a] EXCEPT !.at = place, !.fresh = fresh] \in Jobs
    BY DEF Jobs
  <2>2. actor' = [actor EXCEPT ![a] = [actor[a] EXCEPT !.at = place, !.fresh = fresh]]
    BY <1>3
  <2> QED BY <2>1, <2>2
<1>4. ASSUME ReadForCommit(a) PROVE PaymentTypeOK'
  BY <1>1, <1>2, <1>4 DEF ReadForCommit, Conclude
<1>5. ASSUME BankCommit(a) PROVE PaymentTypeOK'
  BY <1>1, <1>2, <1>5 DEF BankCommit
<1>6. ASSUME SaveCommit(a) PROVE PaymentTypeOK'
  BY <1>1, <1>2, <1>3, <1>6 DEF SaveCommit
<1>7. ASSUME ReadForRollback(a) PROVE PaymentTypeOK'
  BY <1>1, <1>7 DEF ReadForRollback
<1>8. ASSUME BankRollback(a) PROVE PaymentTypeOK'
  BY <1>1, <1>8 DEF BankRollback
<1>9. ASSUME SaveRollback(a) PROVE PaymentTypeOK'
  BY <1>1, <1>9 DEF SaveRollback
<1>10. ASSUME EnqueueFollowUp(a) PROVE PaymentTypeOK'
  BY <1>1, <1>3, <1>10 DEF EnqueueFollowUp
<1> QED BY <1>4, <1>5, <1>6, <1>7, <1>8, <1>9, <1>10 DEF LocalTransaction

\* A row that is changed in its status, its attempts or its lease.
LEMMA RowTypes ==
    ASSUME PaymentTypeOK, NEW p \in Payments, NEW m \in Messages, NEW row \in Rows,
           outbox' = [outbox EXCEPT ![p][m] = row]
    PROVE  outbox' \in [Payments -> [Messages -> Rows]]
<1> HIDE DEF Rows, Messages
<1>1. [outbox[p] EXCEPT ![m] = row] \in [Messages -> Rows]
  BY DEF PaymentTypeOK
<1> QED BY <1>1 DEF PaymentTypeOK

LEMMA AcceptedTypes ==
    ASSUME PaymentTypeOK, NEW w \in Workers, NEW m \in Messages
    PROVE  /\ Accepted(w, m) \in Jobs
           /\ Accepted(w, m).pay = Pay(w) /\ Accepted(w, m).msg = m
           /\ Accepted(w, m).caller = w /\ ~Accepted(w, m).giveUp
           /\ \/ /\ Accepted(w, m).at = "answer" /\ Accepted(w, m).reply = inbox[Pay(w)][m]
              \/ /\ Accepted(w, m).reply = "ERROR"
                 /\ \/ m = "NEW" /\ Accepted(w, m).at = "prepare"
                    \/ m = "COMMIT" /\ Accepted(w, m).at = "commit"
                    \/ m = "ROLLBACK" /\ Accepted(w, m).at = "rollback"
<1>1. Pay(w) \in Payments
  BY PayTypes, ActorKinds
<1>2. inbox[Pay(w)][m] \in Replies
  BY <1>1 DEF PaymentTypeOK
<1>3. {"answer", "prepare", "commit", "rollback"} \subseteq Places
  BY DEF Places, HandlerPlaces
<1> DEFINE place == CASE inbox[Pay(w)][m] \notin {"ERROR", "LATER"} -> "answer"
                      [] m = "NEW" -> "prepare"
                      [] m = "COMMIT" -> "commit"
                      [] m = "ROLLBACK" -> "rollback"
           reply == IF place = "answer" THEN inbox[Pay(w)][m] ELSE "ERROR"
<1>4. \/ place = "answer" /\ reply = inbox[Pay(w)][m]
      \/ /\ reply = "ERROR"
         /\ \/ m = "NEW" /\ place = "prepare"
            \/ m = "COMMIT" /\ place = "commit"
            \/ m = "ROLLBACK" /\ place = "rollback"
  BY DEF Messages
<1>5. reply \in Replies
  BY <1>2, <1>4 DEF Replies
<1>6. Accepted(w, m) = [Job(place, Pay(w)) EXCEPT !.msg = m, !.caller = w, !.reply = reply]
  BY DEF Accepted
<1> HIDE DEF place, reply
<1>7. Accepted(w, m) = [at |-> place, pay |-> Pay(w), msg |-> m, attempts |-> 0,
                        giveUp |-> FALSE, fresh |-> FALSE, caller |-> w, reply |-> reply]
  BY <1>6 DEF Job
<1>8. place \in Places
  BY <1>3, <1>4
<1> QED BY <1>1, <1>4, <1>5, <1>7, <1>8 DEF Jobs

LEMMA LeaveTypes ==
    ASSUME PaymentTypeOK, NEW a \in Actors, NEW job \in Jobs, Leave(a, job)
    PROVE  actor' \in [Actors -> Jobs]
<1>1. \A b \in Actors : actor[b] \in Jobs /\ [actor[b] EXCEPT !.caller = NoActor] \in Jobs
  BY DEF PaymentTypeOK, Jobs
<1> HIDE DEF Jobs
<1> QED BY <1>1 DEF Leave

LEMMA HeardTypes == \A w, reply : Heard(w, reply) \in Places
  BY DEF Heard, Places, WorkerPlaces

LEMMA SendTypes ==
    ASSUME PaymentTypeOK, NEW w \in Workers, NEW h \in Handlers, Send(w, h) \/ SendCommit(w, h)
    PROVE  PaymentTypeOK'
<1>1. w \in Actors /\ h \in Actors /\ w # h
  BY ActorKinds
<1>2. PICK place \in Places, m \in Messages :
          actor' = [actor EXCEPT ![w].at = place, ![h] = Accepted(w, m)]
  BY <1>1, PayTypes DEF Send, SendCommit, Places, WorkerPlaces, Messages
<1>3. [actor[w] EXCEPT !.at = place] \in Jobs /\ Accepted(w, m) \in Jobs
  <2>1. actor[w] \in Jobs
    BY <1>1 DEF PaymentTypeOK
  <2> QED BY <2>1, AcceptedTypes DEF Jobs
<1> HIDE DEF Jobs
<1>4. actor' \in [Actors -> Jobs]
  BY <1>1, <1>2, <1>3 DEF PaymentTypeOK
<1> QED BY <1>4 DEF Send, SendCommit, PaymentTypeOK, bankVars, faultVars

LEMMA AnswerTypes ==
    ASSUME PaymentTypeOK, NEW h \in Handlers, Answer(h)
    PROVE  PaymentTypeOK'
<1>0. h \in Actors
  BY ActorKinds
<1> DEFINE c == actor[h].caller
<1>1. actor[h] \in Jobs /\ Pay(h) \in Payments /\ c \in Workers \cup {NoActor}
  BY <1>0, PayTypes DEF Jobs
<1>2. c # NoActor => c \in Actors /\ c # h
  BY <1>1, ActorKinds
<1>3. actor' \in [Actors -> Jobs]
  <2>1. CASE c = NoActor
    BY <1>0, <2>1, IdleTypes DEF Answer, PaymentTypeOK
  <2>2. CASE c # NoActor
    <3>1. [actor[c] EXCEPT !.at = Heard(c, actor[h].reply)] \in Jobs
      BY <1>2, <2>2, HeardTypes DEF PaymentTypeOK, Jobs
    <3>2. actor' = [actor EXCEPT ![h] = Idle, ![c].at = Heard(c, actor[h].reply)]
      BY <2>2 DEF Answer
    <3> HIDE DEF Jobs, c
    <3> QED BY <1>0, <1>2, <2>2, <3>1, <3>2, IdleTypes DEF PaymentTypeOK
  <2> QED BY <2>1, <2>2
<1>4. MarkCommitSent(c, actor[h].reply) => outbox' \in [Payments -> [Messages -> Rows]]
  <2>1. CASE MarksCommit(c, actor[h].reply)
    <3>1. Pay(c) \in Payments /\ "COMMIT" \in Messages
      BY <1>1, <1>2, <2>1, PayTypes DEF MarksCommit, Messages
    <3>2. [outbox[Pay(c)]["COMMIT"] EXCEPT !.status = "SENT"] \in Rows
      <4>1. outbox[Pay(c)]["COMMIT"] \in Rows
        BY <3>1 DEF PaymentTypeOK
      <4> QED BY <4>1 DEF Rows
    <3> QED BY <2>1, <3>1, <3>2, RowTypes DEF MarkCommitSent
  <2>2. CASE ~MarksCommit(c, actor[h].reply)
    BY <2>2 DEF MarkCommitSent, PaymentTypeOK
  <2> QED BY <2>1, <2>2
<1>5. At(h, "vote") /\ inbox' = [inbox EXCEPT ![Pay(h)]["NEW"] = actor[h].reply]
        => inbox' \in [Payments -> [Messages -> Replies]]
  <2>1. actor[h].reply \in Replies /\ "NEW" \in Messages
    BY <1>1 DEF Jobs, Messages
  <2> HIDE DEF Messages, Replies
  <2> QED BY <1>1, <2>1 DEF PaymentTypeOK
<1> HIDE DEF c
<1>6. outbox' \in [Payments -> [Messages -> Rows]]
  BY <1>4 DEF Answer, PaymentTypeOK, c
<1>7. inbox' \in [Payments -> [Messages -> Replies]]
  BY <1>5 DEF Answer, PaymentTypeOK
<1>8. faults' \in Nat /\ disturbed' \subseteq Payments
  BY <1>0, FaultTypes DEF Answer
<1> QED BY <1>3, <1>6, <1>7, <1>8 DEF Answer, PaymentTypeOK, bankVars

LEMMA WorkerTypes ==
    ASSUME PaymentTypeOK, NEW w \in Workers,
           \/ NoAnswer(w) \/ Retry(w) \/ ReportPaid(w) \/ ReportFailed(w)
           \/ MarkSent(w) \/ MarkFailed(w)
           \/ \E p \in Payments, m \in Messages : Claim(w, p, m)
    PROVE  PaymentTypeOK'
<1>1. w \in Actors /\ actor[w] \in Jobs /\ Pay(w) \in Payments /\ actor[w].msg \in Messages
  BY ActorKinds, PayTypes
<1>2. outbox[Pay(w)][actor[w].msg] \in Rows
  BY <1>1 DEF PaymentTypeOK
<1>3. {"send", "retry", "markSent", "rollback", "markFailed", "sync", "idle"} \subseteq Places
  BY DEF Places, WorkerPlaces
<1>4. ASSUME actor' = [actor EXCEPT ![w] = Idle] PROVE actor' \in [Actors -> Jobs]
  BY <1>4, IdleTypes DEF PaymentTypeOK
<1>5. ASSUME NoAnswer(w) PROVE PaymentTypeOK'
  <2>1. PICK place \in Places : Leave(w, [actor[w] EXCEPT !.at = place])
    BY <1>3, <1>5 DEF NoAnswer
  <2>2. [actor[w] EXCEPT !.at = place] \in Jobs
    BY <1>1 DEF Jobs
  <2>3. actor' \in [Actors -> Jobs]
    BY <1>1, <2>1, <2>2, LeaveTypes
  <2>4. faults' \in Nat /\ disturbed' = disturbed
    BY <1>5 DEF NoAnswer, Fault, faultVars, PaymentTypeOK
  <2> QED BY <1>5, <2>3, <2>4 DEF NoAnswer, PaymentTypeOK, bankVars
<1>6. ASSUME Retry(w) PROVE PaymentTypeOK'
  <2>1. actor[w].attempts + 1 \in Nat
    BY <1>1 DEF Jobs
  <2>2. actor' \in [Actors -> Jobs]
    <3>1. CASE GiveUp(w)
      <4>1. [actor[w] EXCEPT !.at = "rollback", !.giveUp = TRUE] \in Jobs
        BY <1>1, <1>3 DEF Jobs
      <4>2. actor' = [actor EXCEPT ![w] = [actor[w] EXCEPT !.at = "rollback", !.giveUp = TRUE]]
        BY <1>1, <3>1 DEF GiveUp, PaymentTypeOK
      <4> QED BY <4>1, <4>2 DEF PaymentTypeOK
    <3>2. CASE Go(w, "markFailed")
      BY <1>1, <1>3, <3>2, GoTypes
    <3> QED BY <1>4, <1>6, <3>1, <3>2 DEF Retry
  <2>3. outbox' \in [Payments -> [Messages -> Rows]]
    <3> DEFINE row == [outbox[Pay(w)][actor[w].msg] EXCEPT
                          !.attempts = actor[w].attempts + 1, !.leased = FALSE]
    <3>1. row \in Rows
      BY <1>2, <2>1 DEF Rows
    <3>2. CASE UNCHANGED outbox
      BY <3>2 DEF PaymentTypeOK
    <3>3. CASE outbox' = [outbox EXCEPT
                 ![Pay(w)][actor[w].msg].attempts = actor[w].attempts + 1,
                 ![Pay(w)][actor[w].msg].leased = FALSE]
      <4>1. outbox' = [outbox EXCEPT ![Pay(w)][actor[w].msg] = row]
        BY <1>1, <3>3 DEF PaymentTypeOK
      <4> QED BY <1>1, <3>1, <4>1, RowTypes
    <3> QED BY <1>6, <3>2, <3>3 DEF Retry
  <2> QED BY <1>6, <2>2, <2>3 DEF Retry, PaymentTypeOK, bankVars, faultVars
<1>7. ASSUME ReportPaid(w) \/ ReportFailed(w) PROVE PaymentTypeOK'
  <2>1. PICK place \in Places : Go(w, place)
    BY <1>3, <1>7 DEF ReportPaid, ReportFailed, Report
  <2>2. actor' \in [Actors -> Jobs]
    BY <1>1, <2>1, GoTypes
  <2>3. banking' \in [Payments -> {"PROCESSING", "COMPLETED", "REJECTED"}]
    BY <1>1, <1>7 DEF ReportPaid, ReportFailed, Report, PaymentTypeOK
  <2>4. faults' \in Nat /\ disturbed' \subseteq Payments
    BY <1>1, <1>7, FaultTypes DEF ReportPaid, ReportFailed, Report
  <2> QED BY <1>7, <2>2, <2>3, <2>4 DEF ReportPaid, ReportFailed, Report, PaymentTypeOK, bankVars
<1>8. ASSUME MarkSent(w) \/ MarkFailed(w) PROVE PaymentTypeOK'
  <2>1. PICK status \in {"SENT", "FAILED"} :
          \/ outbox' = [outbox EXCEPT ![Pay(w)][actor[w].msg].status = status,
                                      ![Pay(w)][actor[w].msg].leased = FALSE]
          \/ UNCHANGED outbox
    BY <1>8 DEF MarkSent, MarkFailed, Mark
  <2> DEFINE row == [outbox[Pay(w)][actor[w].msg] EXCEPT !.status = status, !.leased = FALSE]
  <2>2. row \in Rows
    BY <1>2 DEF Rows
  <2>3. outbox' = [outbox EXCEPT ![Pay(w)][actor[w].msg] = row] \/ UNCHANGED outbox
    BY <1>1, <2>1 DEF PaymentTypeOK
  <2>4. outbox' \in [Payments -> [Messages -> Rows]]
    BY <1>1, <2>2, <2>3, RowTypes DEF PaymentTypeOK
  <2>5. faults' \in Nat /\ disturbed' \subseteq Payments
    BY <1>1, <1>8, FaultTypes DEF MarkSent, MarkFailed, Mark
  <2> QED BY <1>4, <1>8, <2>4, <2>5 DEF MarkSent, MarkFailed, Mark, PaymentTypeOK, bankVars
<1>9. ASSUME NEW p \in Payments, NEW m \in Messages, Claim(w, p, m) PROVE PaymentTypeOK'
  <2>1. outbox[p][m] \in Rows
    BY DEF PaymentTypeOK
  <2>2. [outbox[p][m] EXCEPT !.leased = TRUE] \in Rows
    BY <2>1 DEF Rows
  <2>3. outbox' = [outbox EXCEPT ![p][m] = [outbox[p][m] EXCEPT !.leased = TRUE]]
    BY <1>9 DEF Claim
  <2>4. [Job("send", p) EXCEPT !.msg = m, !.attempts = outbox[p][m].attempts] \in Jobs
    <3>1. outbox[p][m].attempts \in Nat
      BY <2>1 DEF Rows
    <3>2. Job("send", p) \in Jobs
      BY <1>3, JobTypes
    <3> QED BY <3>1, <3>2 DEF Jobs
  <2>5. actor' \in [Actors -> Jobs]
    BY <1>9, <2>4 DEF Claim, PaymentTypeOK
  <2>6. outbox' \in [Payments -> [Messages -> Rows]]
    BY <2>2, <2>3, RowTypes
  <2> QED BY <1>9, <2>5, <2>6 DEF Claim, PaymentTypeOK, bankVars, faultVars
<1> QED BY <1>5, <1>6, <1>7, <1>8, <1>9

LEMMA LapseTypes ==
    ASSUME PaymentTypeOK, NEW p \in Payments, NEW m \in Messages, LeaseLapses(p, m)
    PROVE  PaymentTypeOK'
<1>1. outbox[p][m] \in Rows
  BY DEF PaymentTypeOK
<1>2. [outbox[p][m] EXCEPT !.leased = FALSE] \in Rows
  BY <1>1 DEF Rows
<1>3. outbox' = [outbox EXCEPT ![p][m] = [outbox[p][m] EXCEPT !.leased = FALSE]]
  BY DEF LeaseLapses
<1>4. outbox' \in [Payments -> [Messages -> Rows]]
  BY <1>2, <1>3, RowTypes
<1>5. faults' \in Nat /\ disturbed' = disturbed
  BY DEF LeaseLapses, Fault, faultVars, PaymentTypeOK
<1> QED BY <1>4, <1>5 DEF LeaseLapses, PaymentTypeOK, bankVars

LEMMA CrashTypes ==
    ASSUME PaymentTypeOK, NEW a \in Actors, Crash(a)
    PROVE  PaymentTypeOK'
<1>1. a \in Payments => Job("end", a) \in Jobs
  BY JobTypes DEF Places, InitiatorPlaces
<1>2. actor' \in [Actors -> Jobs]
  BY <1>1, IdleTypes, LeaveTypes DEF Crash
<1> QED BY <1>2 DEF Crash, Fault, PaymentTypeOK, bankVars

LEMMA InitTypes ==
    ASSUME Init
    PROVE  PaymentTypeOK
<1>1. NoRow \in Rows
  BY DEF NoRow, Rows
<1>2. \A a \in Actors : (IF a \in Payments THEN Job("new", a) ELSE Idle) \in Jobs
  BY JobTypes, IdleTypes DEF Places, InitiatorPlaces
<1>3. /\ "NONE" \in RecordStates /\ "NONE" \in PostingStates
      /\ "ERROR" \in Replies
  BY DEF RecordStates, PostingStates, Replies
<1> QED BY <1>1, <1>2, <1>3 DEF Init, PaymentTypeOK

\* What is to be shown of a step, by the actor that takes it.
LEMMA StepCases ==
    ASSUME Next
    PROVE  \/ \E p \in Payments : Initiate(p) \/ EnqueueNewTx(p) \/ Reject(p)
           \/ \E a \in Payments \cup Handlers : Reserve(a) \/ Confirm(a) \/ Refuse(a)
           \/ \E h \in Handlers : Prepare(h) \/ Create(h) \/ Answer(h)
           \/ \E a \in Workers \cup Handlers : LocalTransaction(a)
           \/ \E w \in Workers :
                  \/ \E p \in Payments, m \in Messages : Claim(w, p, m)
                  \/ \E h \in Handlers : Send(w, h) \/ SendCommit(w, h)
                  \/ NoAnswer(w) \/ Retry(w) \/ EnqueueFollowUp(w)
                  \/ ReportPaid(w) \/ ReportFailed(w) \/ MarkSent(w) \/ MarkFailed(w)
           \/ \E p \in Payments, m \in Messages : LeaseLapses(p, m)
           \/ \E a \in Actors : Crash(a)
  BY DEF Next, InitiatePayment, Work, Handle

LEMMA TypesStep ==
    ASSUME PaymentTypeOK, [Next]_vars
    PROVE  PaymentTypeOK'
<1>1. CASE UNCHANGED vars
  BY <1>1 DEF vars, bankVars, faultVars, PaymentTypeOK
<1>2. CASE Next
  BY <1>2, StepCases, ActorKinds, PrepareTypes, LocalTypes, WorkerTypes, SendTypes,
     AnswerTypes, LapseTypes, CrashTypes
<1> QED BY <1>1, <1>2

(***************************************************************************)
(* Every reachable state has the types of PaymentTypeOK: whatever fails and *)
(* however often a message is repeated, rows and records of interbank-      *)
(* service keep to their statuses.                                         *)
(***************************************************************************)
THEOREM PaymentTypes == Spec => []PaymentTypeOK
<1>1. Init => PaymentTypeOK
  BY InitTypes
<1>2. PaymentTypeOK /\ [Next]_vars => PaymentTypeOK'
  BY TypesStep
<1> QED BY <1>1, <1>2, PTL DEF Spec

-----------------------------------------------------------------------------
(* The invariant: what a step may do to records, postings, rows and answers *)

DataMatches ==
    /\ RecordsMatch /\ RowsMatch /\ InboxMatches /\ InitiatorsMatch
    /\ CreditIsBacked /\ SentCommitIsCredited

ActorsMatch ==
    /\ \A w \in Workers : WorkerMatches(w)
    /\ \A h \in Handlers : HandlerMatches(h) /\ CallerMatches(h)

LEMMA InvParts == PaymentInv <=> DataMatches /\ ActorsMatch
  BY DEF PaymentInv, DataMatches, ActorsMatch

RecordsEvolve == \A b \in Banks, p \in Payments :
    \/ record'[b][p] = record[b][p]
    \/ record'[b][p] \in {"PREPARED", "ROLLED_BACK"}
    \/ record'[b][p] = "COMMITTED" /\ Committed(b, p)
    \/ record'[b][p] = "PREPARING" /\ b = "payee" /\ record[b][p] = "NONE"
    \/ record'[b][p] = "PREPARING" /\ b = "payer" /\ At(p, "new")

PostingsEvolve == \A b \in Banks, p \in Payments :
    \/ posting'[b][p] = posting[b][p]
    \/ /\ ~Committed(b, p)
       /\ posting'[b][p] = "COMMITTED" /\ b = "payee" => Committed("payer", p)

RowsEvolve == \A p \in Payments, m \in Messages :
    \/ outbox'[p][m].status = outbox[p][m].status
    \/ /\ ~HasRow(p, m) /\ outbox'[p][m].status = "PENDING"
       /\ Settled("payer", p) /\ ~At(p, "new")
       /\ m = "COMMIT" => Backed(p)
    \/ HasRow(p, m) /\ outbox'[p][m].status = "FAILED"
    \/ /\ HasRow(p, m) /\ outbox'[p][m].status = "SENT"
       /\ m = "COMMIT" => Committed("payee", p)

AnswersEvolve == \A p \in Payments, m \in Messages :
    inbox'[p][m] = inbox[p][m] \/ AnswerMatches(p, m, inbox'[p][m])

BankingEvolves == \A p \in Payments :
    banking'[p] = banking[p] \/ banking'[p] # "COMPLETED" \/ HasRow(p, "COMMIT")

InitiatorsEvolve == \A p \in Payments :
    /\ actor'[p].pay = actor[p].pay
    /\ actor'[p].at = "new" => At(p, "new")
    /\ actor'[p].at = "enqueue" => At(p, "enqueue") \/ record'["payer"][p] = "PREPARED"

Evolves ==
    /\ RecordsEvolve /\ PostingsEvolve /\ RowsEvolve
    /\ AnswersEvolve /\ BankingEvolves /\ InitiatorsEvolve

\* What has been claimed once stays true.
Grows ==
    /\ \A b \in Banks, p \in Payments : Committed(b, p) => Committed(b, p)'
    /\ \A p \in Payments : Settled("payee", p) => Settled("payee", p)'
    /\ \A p \in Payments, m \in Messages : HasRow(p, m) => HasRow(p, m)'

LEMMA ClaimsGrow ==
    ASSUME PaymentTypeOK, Evolves
    PROVE  Grows
<1>1. "payee" \in Banks
  BY DEF Banks
<1>2. ASSUME NEW b \in Banks, NEW p \in Payments, Committed(b, p) PROVE Committed(b, p)'
  BY <1>2 DEF Evolves, PostingsEvolve, Committed
<1>3. ASSUME NEW p \in Payments, Settled("payee", p) PROVE Settled("payee", p)'
  BY <1>1, <1>3 DEF Evolves, RecordsEvolve, Settled
<1>4. ASSUME NEW p \in Payments, NEW m \in Messages, HasRow(p, m) PROVE HasRow(p, m)'
  BY <1>4 DEF Evolves, RowsEvolve, HasRow
<1> QED BY <1>2, <1>3, <1>4 DEF Grows

LEMMA DataKept ==
    ASSUME PaymentTypeOK, DataMatches, Evolves
    PROVE  DataMatches'
<1>1. Grows
  BY ClaimsGrow
<1>2. Banks = {"payer", "payee"} /\ "COMMIT" \in Messages
  BY DEF Banks, Messages
<1>3. RecordsMatch'
  BY <1>1 DEF Grows, DataMatches, Evolves, RecordsEvolve, RecordsMatch, Committed
<1>4. ASSUME NEW p \in Payments, Settled("payer", p), ~At(p, "new") PROVE Settled("payer", p)'
  BY <1>2, <1>4 DEF Evolves, RecordsEvolve, Settled
<1>5. RowsMatch'
  <2>1. ASSUME NEW p \in Payments, NEW m \in Messages, HasRow(p, m)' PROVE Settled("payer", p)'
    <3>1. Settled("payer", p) /\ ~At(p, "new")
      BY <2>1 DEF Evolves, RowsEvolve, DataMatches, RowsMatch, InitiatorsMatch, HasRow
    <3> QED BY <1>4, <3>1
  <2>2. ASSUME NEW p \in Payments, HasRow(p, "COMMIT")' PROVE Backed(p)'
    <3>1. Backed(p)
      BY <1>2, <2>2 DEF Evolves, RowsEvolve, DataMatches, RowsMatch, HasRow
    <3> QED BY <1>1, <1>2, <3>1 DEF Grows, Backed
  <2>3. ASSUME NEW p \in Payments, (banking[p] = "COMPLETED")' PROVE HasRow(p, "COMMIT")'
    <3>1. HasRow(p, "COMMIT")
      BY <2>3 DEF Evolves, BankingEvolves, DataMatches, RowsMatch
    <3> QED BY <1>1, <1>2, <3>1 DEF Grows
  <2> QED BY <2>1, <2>2, <2>3 DEF RowsMatch
<1>6. InboxMatches'
  <2> SUFFICES ASSUME NEW p \in Payments, NEW m \in Messages
               PROVE  AnswerMatches(p, m, inbox[p][m])'
    BY DEF InboxMatches
  <2>1. AnswerMatches(p, m, inbox'[p][m])
    BY DEF Evolves, AnswersEvolve, DataMatches, InboxMatches
  <2> QED BY <1>1, <1>2, <2>1 DEF Grows, AnswerMatches
<1>7. InitiatorsMatch'
  <2> SUFFICES ASSUME NEW p \in Payments
               PROVE  /\ (Pay(p) = p)'
                      /\ At(p, "new")' => \A m \in Messages : ~HasRow(p, m)'
                      /\ At(p, "enqueue")' => Settled("payer", p)'
    BY DEF InitiatorsMatch
  <2>1. (Pay(p) = p)'
    BY DEF Evolves, InitiatorsEvolve, DataMatches, InitiatorsMatch, Pay
  <2>2. At(p, "new")' => \A m \in Messages : ~HasRow(p, m)'
    BY DEF Evolves, InitiatorsEvolve, RowsEvolve, DataMatches, InitiatorsMatch, HasRow, At
  <2>3. At(p, "enqueue")' => Settled("payer", p)'
    <3>1. At(p, "enqueue") => Settled("payer", p)'
      BY <1>4 DEF DataMatches, InitiatorsMatch, At
    <3> QED BY <3>1 DEF Evolves, InitiatorsEvolve, At, Settled
  <2> QED BY <2>1, <2>2, <2>3
<1>8. CreditIsBacked'
  BY <1>1, <1>2 DEF Grows, Evolves, PostingsEvolve, DataMatches, CreditIsBacked, Committed
<1>9. SentCommitIsCredited'
  BY <1>1, <1>2 DEF Grows, Evolves, RowsEvolve, DataMatches, SentCommitIsCredited, HasRow
<1> QED BY <1>3, <1>5, <1>6, <1>7, <1>8, <1>9 DEF DataMatches

-----------------------------------------------------------------------------
(* What the helpers of the actions do, row by row *)

LEMMA StillEvolves ==
    /\ PaymentTypeOK /\ UNCHANGED record => RecordsEvolve
    /\ PaymentTypeOK /\ UNCHANGED posting => PostingsEvolve
    /\ PaymentTypeOK /\ UNCHANGED outbox => RowsEvolve
    /\ PaymentTypeOK /\ UNCHANGED inbox => AnswersEvolve
    /\ PaymentTypeOK /\ UNCHANGED banking => BankingEvolves
  BY DEF RecordsEvolve, PostingsEvolve, RowsEvolve, AnswersEvolve, BankingEvolves

\* Only a moves, and it stays at its payment, its message and its caller.
Moves(a) ==
    /\ \A b \in Actors \ {a} : actor'[b] = actor[b]
    /\ actor'[a].pay = actor[a].pay /\ actor'[a].msg = actor[a].msg
    /\ actor'[a].caller = actor[a].caller /\ actor'[a].giveUp = actor[a].giveUp

LEMMA GoMoves ==
    ASSUME PaymentTypeOK, NEW a \in Actors, NEW place
    PROVE  /\ Go(a, place) => /\ Moves(a) /\ actor'[a].at = place
                              /\ actor'[a].reply = actor[a].reply
           /\ \A reply : Reply(a, place, reply) =>
                  Moves(a) /\ actor'[a].at = place /\ actor'[a].reply = reply
<1>1. actor[a] \in Jobs /\ actor \in [Actors -> Jobs]
  BY DEF PaymentTypeOK
<1>2. ASSUME Go(a, place)
      PROVE  Moves(a) /\ actor'[a].at = place /\ actor'[a].reply = actor[a].reply
  <2>1. actor'[a] = [actor[a] EXCEPT !.at = place]
    BY <1>1, <1>2 DEF Go
  <2>2. \A b \in Actors \ {a} : actor'[b] = actor[b]
    BY <1>1, <1>2 DEF Go
  <2> QED BY <1>1, <2>1, <2>2 DEF Moves, Jobs
<1>3. ASSUME NEW reply, Reply(a, place, reply)
      PROVE  Moves(a) /\ actor'[a].at = place /\ actor'[a].reply = reply
  <2>1. actor'[a] = [actor[a] EXCEPT !.at = place, !.reply = reply]
    BY <1>1, <1>3 DEF Reply
  <2>2. \A b \in Actors \ {a} : actor'[b] = actor[b]
    BY <1>1, <1>3 DEF Reply
  <2> QED BY <1>1, <2>1, <2>2 DEF Moves, Jobs
<1> QED BY <1>2, <1>3

LEMMA SavedRecord ==
    ASSUME PaymentTypeOK, NEW a \in Actors, NEW s, SaveRecord(a, s)
    PROVE  \A b \in Banks, p \in Payments :
               record'[b][p] = IF b = Bank(a) /\ p = Pay(a) THEN s ELSE record[b][p]
  BY BankTypes, PayTypes DEF PaymentTypeOK, SaveRecord

LEMMA SavedPosting ==
    ASSUME PaymentTypeOK, NEW a \in Actors, NEW s, SavePosting(a, s)
    PROVE  \A b \in Banks, p \in Payments :
               posting'[b][p] = IF b = Bank(a) /\ p = Pay(a) THEN s ELSE posting[b][p]
  BY BankTypes, PayTypes DEF PaymentTypeOK, SavePosting

LEMMA EnqueuedRow ==
    ASSUME PaymentTypeOK, NEW p \in Payments, NEW m \in Messages, Enqueue(p, m)
    PROVE  \A q \in Payments, n \in Messages :
               outbox'[q][n].status = IF q = p /\ n = m /\ ~HasRow(p, m) THEN "PENDING"
                                      ELSE outbox[q][n].status
<1>1. [NoRow EXCEPT !.status = "PENDING"].status = "PENDING"
  BY DEF NoRow
<1> QED BY <1>1 DEF PaymentTypeOK, Enqueue, HasRow

LEMMA KeptAnswer ==
    ASSUME PaymentTypeOK, NEW h \in Actors, NEW reply, Keep(h, reply)
    PROVE  /\ \A q \in Payments, n \in Messages :
                  inbox'[q][n] = IF q = Pay(h) /\ n = actor[h].msg THEN reply ELSE inbox[q][n]
           /\ Moves(h) /\ actor'[h].at = "answer" /\ actor'[h].reply = reply
<1>1. Pay(h) \in Payments /\ actor[h].msg \in Messages
  BY PayTypes
<1> QED BY <1>1, GoMoves DEF PaymentTypeOK, Keep

\* A job that is marked or put off: the row of the worker alone.
LEMMA MarkedRow ==
    ASSUME PaymentTypeOK, NEW p \in Payments, NEW m \in Messages, NEW row,
           outbox' = [outbox EXCEPT ![p][m] = row]
    PROVE  \A q \in Payments, n \in Messages :
               outbox'[q][n] = IF q = p /\ n = m THEN row ELSE outbox[q][n]
  BY DEF PaymentTypeOK

-----------------------------------------------------------------------------
(* Actors that do not move keep what they claim *)

Stays(b) ==
    /\ actor'[b].at = actor[b].at /\ actor'[b].pay = actor[b].pay
    /\ actor'[b].msg = actor[b].msg /\ actor'[b].reply = actor[b].reply
    /\ actor'[b].giveUp = actor[b].giveUp

LEMMA Stayers ==
    ASSUME PaymentTypeOK, ActorsMatch, Grows
    PROVE  /\ \A w \in Workers : Stays(w) => WorkerMatches(w)'
           /\ \A h \in Handlers : Stays(h) => HandlerMatches(h)'
<1>1. {"payer", "payee"} = Banks /\ "COMMIT" \in Messages
  BY DEF Banks, Messages
<1>2. ASSUME NEW w \in Workers, Stays(w) PROVE WorkerMatches(w)'
  <2>1. Pay(w) \in Payments /\ actor[w].msg \in Messages /\ WorkerMatches(w)
    BY PayTypes, ActorKinds DEF ActorsMatch
  <2> QED BY <1>1, <1>2, <2>1 DEF Grows, WorkerMatches, At, Pay, Backed, Stays
<1>3. ASSUME NEW h \in Handlers, Stays(h) PROVE HandlerMatches(h)'
  <2>1. Pay(h) \in Payments /\ HandlerMatches(h)
    BY PayTypes, ActorKinds DEF ActorsMatch
  <2> QED BY <1>1, <1>3, <2>1 DEF Grows, HandlerMatches, AnswerMatches, At, Pay, Backed, Stays
<1> QED BY <1>2, <1>3

LEMMA OneMoves ==
    ASSUME PaymentTypeOK, ActorsMatch, Grows, NEW a \in Actors,
           \A b \in Actors \ {a} : actor'[b] = actor[b],
           actor[a].at \notin {"wait", "syncWait"},
           a \in Workers => WorkerMatches(a)',
           a \in Handlers => Moves(a) /\ HandlerMatches(a)'
    PROVE  ActorsMatch'
<1>1. ASSUME NEW w \in Workers PROVE WorkerMatches(w)'
  BY Stayers, ActorKinds DEF Stays
<1>2. ASSUME NEW h \in Handlers PROVE HandlerMatches(h)'
  BY Stayers, ActorKinds DEF Stays
<1>3. ASSUME NEW h \in Handlers PROVE CallerMatches(h)'
  <2>1. \A k \in Handlers : actor'[k].caller = actor[k].caller /\ actor'[k].pay = actor[k].pay
                           /\ actor'[k].msg = actor[k].msg
    BY ActorKinds DEF Moves
  <2>2. CallerMatches(h) /\ actor[h].caller \in Workers \cup {NoActor}
    BY ActorKinds DEF ActorsMatch, PaymentTypeOK, Jobs
  <2>3. actor[h].caller # NoActor => actor'[actor[h].caller] = actor[actor[h].caller]
    BY <2>2, ActorKinds DEF CallerMatches, At
  <2> QED BY <2>1, <2>2, <2>3 DEF CallerMatches, At, Pay
<1> QED BY <1>1, <1>2, <1>3 DEF ActorsMatch

\* Initiators are not disturbed by steps of the others.
LEMMA OthersInitiate ==
    ASSUME PaymentTypeOK, \A p \in Payments : Stays(p)
    PROVE  InitiatorsEvolve
  BY DEF InitiatorsEvolve, At, Stays

\* The step of one actor, from what it does to the data and where it goes.
LEMMA OneStep ==
    ASSUME PaymentTypeOK, PaymentInv, Evolves, NEW a \in Actors,
           \A b \in Actors \ {a} : actor'[b] = actor[b],
           actor[a].at \notin {"wait", "syncWait"},
           a \in Workers => WorkerMatches(a)',
           a \in Handlers => Moves(a) /\ HandlerMatches(a)'
    PROVE  PaymentInv'
<1>1. DataMatches /\ ActorsMatch /\ Grows
  BY InvParts, ClaimsGrow
<1>2. DataMatches'
  BY <1>1, DataKept
<1>3. ActorsMatch'
  BY <1>1, OneMoves
<1> QED BY <1>2, <1>3 DEF PaymentInv, DataMatches, ActorsMatch

LEMMA BankOf ==
    /\ \A p \in Payments : Bank(p) = "payer"
    /\ \A w \in Workers : Bank(w) = "payer"
    /\ \A h \in Handlers : Bank(h) = "payee"
    /\ Banks = {"payer", "payee"} /\ Messages = {"NEW", "COMMIT", "ROLLBACK"}
  BY ActorKinds DEF Bank, Banks, Messages

LEMMA InitiatorMoves ==
    ASSUME PaymentTypeOK, NEW p \in Payments, Moves(p), actor'[p].at # "new",
           actor'[p].at = "enqueue" => record'["payer"][p] = "PREPARED"
    PROVE  InitiatorsEvolve
  BY ActorKinds DEF InitiatorsEvolve, Moves, At

LEMMA OthersMove ==
    ASSUME PaymentTypeOK, NEW a \in Workers \cup Handlers, Moves(a)
    PROVE  InitiatorsEvolve
  BY ActorKinds, OthersInitiate DEF Moves, Stays

\* The step of an initiator: nobody claims anything of it.
LEMMA InitiatorStep ==
    ASSUME PaymentTypeOK, PaymentInv, NEW p \in Payments, Moves(p), Evolves,
           actor[p].at \notin {"wait", "syncWait"}
    PROVE  PaymentInv'
  BY ActorKinds, OneStep DEF Moves

LEMMA HandlerStep ==
    ASSUME PaymentTypeOK, PaymentInv, NEW h \in Handlers, Moves(h), Evolves,
           actor[h].at \notin {"wait", "syncWait"}, HandlerMatches(h)'
    PROVE  PaymentInv'
  BY ActorKinds, OneStep DEF Moves

LEMMA WorkerStep ==
    ASSUME PaymentTypeOK, PaymentInv, NEW w \in Workers, Evolves,
           \A b \in Actors \ {w} : actor'[b] = actor[b],
           actor[w].at \notin {"wait", "syncWait"}, WorkerMatches(w)'
    PROVE  PaymentInv'
  BY ActorKinds, OneStep

-----------------------------------------------------------------------------
(* The initiating request *)

LEMMA InitiateInv ==
    ASSUME PaymentTypeOK, PaymentInv, NEW p \in Payments, Initiate(p)
    PROVE  PaymentInv'
<1>1. p \in Actors /\ Pay(p) = p /\ Bank(p) = "payer"
  BY ActorKinds, BankOf DEF PaymentInv, InitiatorsMatch
<1>2. Moves(p) /\ actor'[p].at \in {"reserve", "reject"}
  BY <1>1, GoMoves DEF Initiate
<1>3. RecordsEvolve
  <2>1. CASE SaveRecord(p, "PREPARING")
    BY <1>1, <2>1, SavedRecord DEF Initiate, RecordsEvolve
  <2>2. CASE UNCHANGED record
    BY <2>2, StillEvolves
  <2> QED BY <2>1, <2>2 DEF Initiate
<1>4. InitiatorsEvolve
  BY <1>2, InitiatorMoves
<1>5. Evolves
  BY <1>3, <1>4, StillEvolves DEF Initiate, Evolves
<1> QED BY <1>2, <1>5, InitiatorStep DEF Initiate, At

LEMMA EnqueueNewTxInv ==
    ASSUME PaymentTypeOK, PaymentInv, NEW p \in Payments, EnqueueNewTx(p)
    PROVE  PaymentInv'
<1>1. p \in Actors /\ At(p, "enqueue") /\ Settled("payer", p)
  BY ActorKinds DEF PaymentInv, InitiatorsMatch, EnqueueNewTx
<1>2. Moves(p) /\ actor'[p].at \in {"end", "reject"}
  BY <1>1, GoMoves DEF EnqueueNewTx
<1>3. RowsEvolve
  <2>1. CASE Enqueue(p, "NEW")
    BY <1>1, <2>1, BankOf, EnqueuedRow DEF RowsEvolve, At
  <2>2. CASE UNCHANGED outbox
    BY <2>2, StillEvolves
  <2> QED BY <2>1, <2>2 DEF EnqueueNewTx
<1>4. Evolves
  BY <1>2, <1>3, StillEvolves, InitiatorMoves DEF EnqueueNewTx, Evolves, bankVars
<1> QED BY <1>1, <1>2, <1>4, InitiatorStep DEF At

LEMMA RejectInv ==
    ASSUME PaymentTypeOK, PaymentInv, NEW p \in Payments, Reject(p)
    PROVE  PaymentInv'
<1>1. Moves(p) /\ actor'[p].at = "end"
  BY ActorKinds, GoMoves DEF Reject
<1>2. BankingEvolves
  BY DEF Reject, BankingEvolves, PaymentTypeOK
<1>3. Evolves
  BY <1>1, <1>2, StillEvolves, InitiatorMoves DEF Reject, Evolves, bankVars
<1> QED BY <1>1, <1>3, InitiatorStep DEF Reject, At

-----------------------------------------------------------------------------
(* The phases of a prepare *)

\* A handler at a place of a prepare, or on its way to the vote.
LEMMA PreparingHandler ==
    ASSUME PaymentTypeOK, PaymentInv, Grows, NEW h \in Handlers, Moves(h),
           actor[h].at \in {"prepare", "create", "reserve", "confirm", "refuse"},
           actor'[h].at \in {"create", "reserve", "confirm", "refuse", "vote", "answer"},
           actor'[h].reply \in {actor[h].reply, "YES", "NO"},
           actor'[h].reply = "YES" => Settled("payee", Pay(h))'
    PROVE  HandlerMatches(h)'
<1>1. HandlerMatches(h) /\ Pay(h) \in Payments
  BY ActorKinds, PayTypes DEF PaymentInv
<1> QED BY <1>1, BankOf DEF HandlerMatches, AnswerMatches, Moves, Grows, At, Pay, Backed

LEMMA PrepareInv ==
    ASSUME PaymentTypeOK, PaymentInv, NEW h \in Handlers, Prepare(h)
    PROVE  PaymentInv'
<1>1. h \in Actors /\ Bank(h) = "payee"
  BY ActorKinds, BankOf
<1>2. /\ Moves(h) /\ actor'[h].at \in {"create", "reserve", "vote", "answer"}
      /\ actor'[h].reply \in {actor[h].reply, "YES", "NO"}
  BY <1>1, GoMoves DEF Prepare
<1>3. Evolves
  BY <1>2, StillEvolves, OthersMove DEF Prepare, Evolves, bankVars
<1>4. actor'[h].reply = "YES" => Settled("payee", Pay(h))'
  <2>1. CASE actor[h].reply = "YES"
    BY <1>1, <1>2, <1>3, <2>1, ClaimsGrow, PayTypes
       DEF PaymentInv, HandlerMatches, AnswerMatches, Grows, Moves, Pay
  <2>2. CASE actor[h].reply # "YES"
    BY <1>1, <1>2, <2>2, GoMoves DEF Prepare, Record, Settled, Moves, Pay, bankVars
  <2> QED BY <2>1, <2>2
<1>5. HandlerMatches(h)'
  BY <1>2, <1>3, <1>4, ClaimsGrow, PreparingHandler DEF Prepare, At
<1> QED BY <1>2, <1>3, <1>5, HandlerStep DEF Prepare, At

LEMMA CreateInv ==
    ASSUME PaymentTypeOK, PaymentInv, NEW h \in Handlers, Create(h)
    PROVE  PaymentInv'
<1>1. h \in Actors /\ Bank(h) = "payee"
  BY ActorKinds, BankOf
<1>2. /\ Moves(h) /\ actor'[h].at \in {"reserve", "answer"}
      /\ actor'[h].reply = actor[h].reply
  BY <1>1, GoMoves DEF Create
<1>3. RecordsEvolve
  <2>1. CASE SaveRecord(h, "PREPARING") /\ Record(h) = "NONE"
    BY <1>1, <2>1, SavedRecord DEF RecordsEvolve, Record
  <2>2. CASE UNCHANGED record
    BY <2>2, StillEvolves
  <2> QED BY <2>1, <2>2 DEF Create
<1>4. Evolves
  BY <1>2, <1>3, StillEvolves, OthersMove DEF Create, Evolves
<1>5. actor'[h].reply = "YES" => Settled("payee", Pay(h))'
  BY <1>1, <1>2, <1>4, ClaimsGrow, PayTypes
     DEF PaymentInv, HandlerMatches, AnswerMatches, Grows, Moves, Pay
<1>6. HandlerMatches(h)'
  BY <1>2, <1>4, <1>5, ClaimsGrow, PreparingHandler DEF Create, At
<1> QED BY <1>2, <1>4, <1>6, HandlerStep DEF Create, At

LEMMA ReserveInv ==
    ASSUME PaymentTypeOK, PaymentInv, NEW a \in Payments \cup Handlers, Reserve(a)
    PROVE  PaymentInv'
<1>1. a \in Actors
  BY ActorKinds
<1>2. /\ Moves(a) /\ actor'[a].at \in {"confirm", "refuse"}
      /\ actor'[a].reply = actor[a].reply
  BY <1>1, GoMoves DEF Reserve
<1>3. PostingsEvolve
  <2>1. CASE SavePosting(a, "PREPARED") /\ Posting(a) # "COMMITTED"
    BY <1>1, <2>1, SavedPosting DEF PostingsEvolve, Posting, Committed
  <2>2. CASE UNCHANGED posting
    BY <2>2, StillEvolves
  <2> QED BY <2>1, <2>2 DEF Reserve
<1>4. InitiatorsEvolve
  BY <1>2, InitiatorMoves, OthersMove
<1>5. Evolves
  BY <1>3, <1>4, StillEvolves DEF Reserve, Evolves
<1>6. CASE a \in Handlers
  <2>1. actor'[a].reply = "YES" => Settled("payee", Pay(a))'
    BY <1>1, <1>2, <1>5, <1>6, ClaimsGrow, PayTypes
       DEF PaymentInv, HandlerMatches, AnswerMatches, Grows, Moves, Pay
  <2>2. HandlerMatches(a)'
    BY <1>2, <1>5, <1>6, <2>1, ClaimsGrow, PreparingHandler DEF Reserve, At
  <2> QED BY <1>2, <1>5, <1>6, <2>2, HandlerStep DEF Reserve, At
<1>7. CASE a \in Payments
  BY <1>2, <1>5, <1>7, InitiatorStep DEF Reserve, At
<1> QED BY <1>6, <1>7

LEMMA ConfirmInv ==
    ASSUME PaymentTypeOK, PaymentInv, NEW a \in Payments \cup Handlers, Confirm(a)
    PROVE  PaymentInv'
<1>1. a \in Actors /\ (a \in Payments => a \notin Handlers /\ Pay(a) = a)
  BY ActorKinds DEF PaymentInv, InitiatorsMatch
<1>2. RecordsEvolve
  <2>1. CASE SaveRecord(a, "PREPARED")
    BY <1>1, <2>1, SavedRecord DEF RecordsEvolve
  <2>2. CASE UNCHANGED record
    BY <2>2, StillEvolves
  <2> QED BY <2>1, <2>2 DEF Confirm
<1>3. CASE a \in Handlers
  <2>1. /\ Moves(a) /\ actor'[a].at \in {"vote", "answer"}
        /\ actor'[a].reply \in {actor[a].reply, "YES"}
    BY <1>1, <1>3, GoMoves DEF Confirm, Confirmed, Broken
  <2>2. Evolves
    BY <1>2, <1>3, <2>1, StillEvolves, OthersMove DEF Confirm, Evolves
  <2>3. actor'[a].reply = "YES" => Settled("payee", Pay(a))'
    <3>1. CASE actor[a].reply = "YES"
      BY <1>1, <1>3, <2>1, <2>2, <3>1, ClaimsGrow, PayTypes
         DEF PaymentInv, HandlerMatches, AnswerMatches, Grows, Moves, Pay
    <3>2. CASE SaveRecord(a, "PREPARED")
      BY <1>1, <1>3, <2>1, <3>2, SavedRecord, BankOf, PayTypes DEF Settled, Moves, Pay
    <3>3. CASE Broken(a)
      BY <1>1, <1>3, <2>1, <3>1, <3>3, GoMoves DEF Broken
    <3> QED BY <3>2, <3>3 DEF Confirm
  <2>4. HandlerMatches(a)'
    BY <1>3, <2>1, <2>2, <2>3, ClaimsGrow, PreparingHandler DEF Confirm, At
  <2> QED BY <1>3, <2>1, <2>2, <2>4, HandlerStep DEF Confirm, At
<1>4. CASE a \in Payments
  <2>1. Moves(a) /\ actor'[a].at \in {"enqueue", "reject"}
    BY <1>1, <1>4, GoMoves DEF Confirm, Confirmed, Broken
  <2>2. actor'[a].at = "enqueue" => record'["payer"][a] = "PREPARED"
    <3>1. CASE SaveRecord(a, "PREPARED")
      BY <1>1, <1>4, <3>1, SavedRecord, BankOf
    <3>2. CASE Broken(a)
      BY <1>1, <1>4, <3>2, GoMoves DEF Broken
    <3> QED BY <3>1, <3>2 DEF Confirm
  <2>3. Evolves
    BY <1>2, <1>4, <2>1, <2>2, StillEvolves, InitiatorMoves DEF Confirm, Evolves
  <2> QED BY <1>4, <2>1, <2>3, InitiatorStep DEF Confirm, At
<1> QED BY <1>3, <1>4

LEMMA RefuseInv ==
    ASSUME PaymentTypeOK, PaymentInv, NEW a \in Payments \cup Handlers, Refuse(a)
    PROVE  PaymentInv'
<1>1. a \in Actors /\ (a \in Payments => a \notin Handlers)
  BY ActorKinds
<1>2. RecordsEvolve
  <2>1. CASE SaveRecord(a, "ROLLED_BACK")
    BY <1>1, <2>1, SavedRecord DEF RecordsEvolve
  <2>2. CASE UNCHANGED record
    BY <2>2, StillEvolves
  <2> QED BY <2>1, <2>2 DEF Refuse
<1>3. CASE a \in Handlers
  <2>1. Moves(a) /\ actor'[a].at = "vote" /\ actor'[a].reply = "NO"
    BY <1>1, <1>3, GoMoves DEF Refuse
  <2>2. Evolves
    BY <1>2, <1>3, <2>1, StillEvolves, OthersMove DEF Refuse, Evolves
  <2>3. HandlerMatches(a)'
    BY <1>3, <2>1, <2>2, ClaimsGrow, PreparingHandler DEF Refuse, At
  <2> QED BY <1>3, <2>1, <2>2, <2>3, HandlerStep DEF Refuse, At
<1>4. CASE a \in Payments
  <2>1. Moves(a) /\ actor'[a].at = "reject"
    BY <1>1, <1>4, GoMoves DEF Refuse
  <2>2. Evolves
    BY <1>2, <1>4, <2>1, StillEvolves, InitiatorMoves DEF Refuse, Evolves
  <2> QED BY <1>4, <2>1, <2>2, InitiatorStep DEF Refuse, At
<1> QED BY <1>3, <1>4

-----------------------------------------------------------------------------
(* Local commit and rollback *)

\* A handler of a COMMIT_TX or ROLLBACK_TX that goes on with it.
LEMMA SettlingHandler ==
    ASSUME PaymentTypeOK, PaymentInv, Grows, NEW h \in Handlers, Moves(h),
           \/ /\ actor[h].at \in {"commit", "bankCommit", "saveCommit"}
              /\ actor'[h].at \in {"bankCommit", "saveCommit", "answer"}
              /\ actor'[h].reply \in {actor[h].reply, "DONE"}
           \/ /\ actor[h].at \in {"rollback", "bankRollback", "saveRollback"}
              /\ actor'[h].at \in {"bankRollback", "saveRollback", "answer"}
              /\ actor'[h].reply \in {actor[h].reply, "DONE"},
           /\ actor'[h].reply # actor[h].reply /\ actor[h].msg = "COMMIT"
                 => Committed("payee", Pay(h))'
           /\ actor'[h].at = "saveCommit" => Committed("payee", Pay(h))'
    PROVE  HandlerMatches(h)'
<1>1. HandlerMatches(h) /\ Pay(h) \in Payments
  BY ActorKinds, PayTypes DEF PaymentInv
<1> QED BY <1>1, BankOf DEF HandlerMatches, AnswerMatches, Moves, Grows, At, Pay, Backed

\* A worker whose place is one of a vote that takes effect.
LEMMA DecidingWorker ==
    ASSUME PaymentTypeOK, PaymentInv, NEW w \in Workers, actor[w].at \in Deciding
    PROVE  /\ actor[w].msg = "NEW" /\ Pay(w) \in Payments
           /\ HasRow(Pay(w), "NEW") /\ Settled("payer", Pay(w)) /\ ~At(Pay(w), "new")
<1>1. WorkerMatches(w) /\ Pay(w) \in Payments
  BY ActorKinds, PayTypes DEF PaymentInv
<1>2. actor[w].msg = "NEW" /\ HasRow(Pay(w), "NEW")
  BY <1>1 DEF WorkerMatches, Deciding, At
<1> QED BY <1>1, <1>2, BankOf DEF PaymentInv, RowsMatch, InitiatorsMatch

\* Where such a worker may go.
LEMMA DecidedWorker ==
    ASSUME PaymentTypeOK, PaymentInv, Grows, NEW w \in Workers, actor[w].at \in Deciding,
           actor'[w].pay = actor[w].pay, actor'[w].msg = actor[w].msg,
           actor'[w].giveUp = actor[w].giveUp,
           actor'[w].at \notin {"commit"},
           actor'[w].at = "bankCommit" => Settled("payee", Pay(w)),
           actor'[w].at = "saveCommit" => Backed(Pay(w))',
           actor'[w].at = "enqueue" /\ ~actor[w].giveUp => Backed(Pay(w))',
           actor'[w].at \in {"reportPaid", "sync", "syncWait"} => HasRow(Pay(w), "COMMIT")'
    PROVE  WorkerMatches(w)'
<1>1. WorkerMatches(w) /\ Pay(w) \in Payments /\ actor[w].msg = "NEW" /\ HasRow(Pay(w), "NEW")
  BY DecidingWorker DEF PaymentInv
<1> QED BY <1>1, BankOf DEF WorkerMatches, Grows, At, Pay, Backed

LEMMA ReadForCommitInv ==
    ASSUME PaymentTypeOK, PaymentInv, NEW a \in Workers \cup Handlers, ReadForCommit(a)
    PROVE  PaymentInv'
<1>1. a \in Actors /\ Pay(a) \in Payments /\ actor[a].at = "commit"
  BY ActorKinds, PayTypes DEF ReadForCommit, At
<1>2. CASE a \in Handlers
  <2>1. /\ HandlerMatches(a) /\ a \notin Workers /\ Bank(a) = "payee"
        /\ actor[a].msg = "COMMIT" /\ Settled("payee", Pay(a))
    BY <1>1, <1>2, ActorKinds, BankOf DEF PaymentInv, HandlerMatches, Backed, At
  <2>2. Record(a) \in Concluded => Record(a) = "COMMITTED" /\ Committed("payee", Pay(a))
    BY <1>1, <2>1, BankOf DEF Concluded, Record, Settled, PaymentInv, RecordsMatch
  <2>3. CASE Keep(a, "DONE") /\ Committed("payee", Pay(a)) /\ UNCHANGED faultVars
    <3>1. AnswersEvolve
      BY <1>1, <2>1, <2>3, KeptAnswer DEF AnswersEvolve, AnswerMatches
    <3>2. Evolves
      BY <1>1, <1>2, <2>3, <3>1, KeptAnswer, OthersMove, StillEvolves
         DEF ReadForCommit, Evolves, bankVars
    <3>3. Committed("payee", Pay(a))'
      BY <1>1, <2>3, <3>2, KeptAnswer, ClaimsGrow, BankOf DEF Grows, Moves, Pay
    <3>4. HandlerMatches(a)'
      BY <1>1, <1>2, <2>3, <3>2, <3>3, KeptAnswer, ClaimsGrow, SettlingHandler
    <3> QED BY <1>1, <1>2, <2>3, <3>2, <3>4, KeptAnswer, HandlerStep
  <2>4. CASE (Go(a, "bankCommit") \/ Go(a, "answer")) /\ UNCHANGED inbox
    <3>1. /\ Moves(a) /\ actor'[a].at \in {"bankCommit", "answer"}
          /\ actor'[a].reply = actor[a].reply
      BY <1>1, <2>4, GoMoves
    <3>2. Evolves
      BY <1>2, <2>4, <3>1, OthersMove, StillEvolves DEF ReadForCommit, Evolves, bankVars
    <3>3. HandlerMatches(a)'
      BY <1>1, <1>2, <3>1, <3>2, ClaimsGrow, SettlingHandler
    <3> QED BY <1>1, <1>2, <3>1, <3>2, <3>3, HandlerStep
  <2> QED BY <1>2, <2>2, <2>3, <2>4 DEF ReadForCommit, Conclude, Abort
<1>3. CASE a \in Workers
  <2>1. /\ WorkerMatches(a) /\ a \notin Handlers /\ Bank(a) = "payer"
        /\ actor[a].at \in Deciding /\ Settled("payee", Pay(a))
    BY <1>1, <1>3, ActorKinds, BankOf DEF PaymentInv, WorkerMatches, At, Deciding, WorkerPlaces
  <2>2. Settled("payer", Pay(a))
    BY <1>3, <2>1, DecidingWorker
  <2>3. Record(a) \in Concluded => Backed(Pay(a))
    BY <1>1, <2>1, <2>2, BankOf DEF Concluded, Record, Settled, PaymentInv, RecordsMatch, Backed
  <2>4. /\ Moves(a) /\ actor'[a].at \in {"enqueue", "markSent", "bankCommit"}
        /\ actor'[a].at = "enqueue" => Record(a) \in Concluded
    BY <1>1, <2>1, GoMoves DEF ReadForCommit, Conclude, Abort
  <2>5. Evolves
    BY <1>3, <2>1, <2>4, OthersMove, StillEvolves DEF ReadForCommit, Conclude, Evolves, bankVars
  <2>6. Grows
    BY <2>5, ClaimsGrow
  <2>7. actor'[a].at = "enqueue" => Backed(Pay(a))'
    BY <1>1, <2>3, <2>4, <2>6, BankOf DEF Backed, Grows, Moves, Pay
  <2>8. WorkerMatches(a)'
    BY <1>3, <2>1, <2>4, <2>6, <2>7, DecidedWorker DEF Moves
  <2> QED BY <1>1, <1>3, <2>4, <2>5, <2>8, WorkerStep DEF Moves
<1> QED BY <1>2, <1>3

LEMMA BankCommitInv ==
    ASSUME PaymentTypeOK, PaymentInv, NEW a \in Workers \cup Handlers, BankCommit(a)
    PROVE  PaymentInv'
<1>1. a \in Actors /\ Pay(a) \in Payments /\ actor[a].at = "bankCommit"
  BY ActorKinds, PayTypes DEF BankCommit, At
<1>2. /\ Moves(a) /\ actor'[a].reply = actor[a].reply
      /\ \/ actor'[a].at = "saveCommit" /\ SavePosting(a, "COMMITTED")
         \/ actor'[a].at = IF a \in Handlers THEN "answer" ELSE "markSent"
  BY <1>1, GoMoves DEF BankCommit, Abort
<1>3. /\ a \in Handlers => actor[a].msg = "COMMIT" /\ Backed(Pay(a))
      /\ a \in Workers => Settled("payee", Pay(a)) /\ a \notin Handlers
  BY <1>1, ActorKinds DEF PaymentInv, HandlerMatches, WorkerMatches, At
<1>4. PostingsEvolve
  <2>1. CASE SavePosting(a, "COMMITTED")
    BY <1>1, <1>3, <2>1, SavedPosting, BankOf DEF PostingsEvolve, Backed, Committed
  <2>2. CASE UNCHANGED posting
    BY <2>2, StillEvolves
  <2> QED BY <2>1, <2>2 DEF BankCommit
<1>5. Evolves
  BY <1>2, <1>4, OthersMove, StillEvolves DEF BankCommit, Evolves
<1>6. Grows
  BY <1>5, ClaimsGrow
<1>7. actor'[a].at = "saveCommit" => Committed(Bank(a), Pay(a))'
  <2>1. CASE SavePosting(a, "COMMITTED")
    BY <1>1, <1>2, <2>1, SavedPosting, BankTypes DEF Committed, Moves, Pay, Bank
  <2> QED BY <1>2, <2>1
<1>8. CASE a \in Handlers
  <2>1. HandlerMatches(a)'
    BY <1>1, <1>2, <1>6, <1>7, <1>8, BankOf, SettlingHandler DEF Bank
  <2> QED BY <1>1, <1>2, <1>5, <1>8, <2>1, HandlerStep
<1>9. CASE a \in Workers
  <2>1. actor'[a].at = "saveCommit" => Backed(Pay(a))'
    BY <1>1, <1>2, <1>3, <1>6, <1>7, <1>9, BankOf DEF Backed, Grows, Moves, Pay, Bank
  <2>2. actor[a].at \in Deciding
    BY <1>1 DEF Deciding, WorkerPlaces
  <2>3. WorkerMatches(a)'
    BY <1>2, <1>3, <1>6, <1>9, <2>1, <2>2, DecidedWorker DEF Moves
  <2> QED BY <1>1, <1>2, <1>5, <1>9, <2>3, WorkerStep DEF Moves
<1> QED BY <1>8, <1>9

LEMMA SaveCommitInv ==
    ASSUME PaymentTypeOK, PaymentInv, NEW a \in Workers \cup Handlers, SaveCommit(a)
    PROVE  PaymentInv'
<1>1. a \in Actors /\ Pay(a) \in Payments /\ actor[a].at = "saveCommit"
  BY ActorKinds, PayTypes DEF SaveCommit, At
<1>2. Committed(Bank(a), Pay(a)) /\ (a \in Workers => a \notin Handlers /\ Backed(Pay(a)))
  BY <1>1, ActorKinds, BankOf DEF PaymentInv, HandlerMatches, WorkerMatches, At, Backed
<1>3. RecordsEvolve
  <2>1. CASE SaveRecord(a, "COMMITTED")
    BY <1>1, <1>2, <2>1, SavedRecord DEF RecordsEvolve
  <2>2. CASE UNCHANGED record
    BY <2>2, StillEvolves
  <2> QED BY <2>1, <2>2 DEF SaveCommit
<1>4. CASE a \in Handlers
  <2>0. Bank(a) = "payee" /\ Committed("payee", Pay(a)) /\ actor[a].msg = "COMMIT"
    BY <1>1, <1>2, <1>4, BankOf DEF PaymentInv, HandlerMatches, At
  <2>1. /\ Moves(a) /\ actor'[a].at = "answer" /\ actor'[a].reply \in {actor[a].reply, "DONE"}
        /\ Keep(a, "DONE") \/ UNCHANGED inbox
        /\ UNCHANGED outbox
    BY <1>1, <1>4, KeptAnswer, GoMoves DEF SaveCommit, Abort
  <2>2. AnswersEvolve
    BY <1>1, <2>0, <2>1, KeptAnswer, StillEvolves DEF AnswersEvolve, AnswerMatches
  <2>3. Evolves
    BY <1>3, <1>4, <2>1, <2>2, OthersMove, StillEvolves DEF SaveCommit, Evolves
  <2>4. Committed("payee", Pay(a))'
    BY <1>1, <2>0, <2>1, <2>3, ClaimsGrow, BankOf DEF Grows, Moves, Pay
  <2>5. HandlerMatches(a)'
    BY <1>1, <1>4, <2>1, <2>3, <2>4, ClaimsGrow, SettlingHandler
  <2> QED BY <1>1, <1>4, <2>1, <2>3, <2>5, HandlerStep
<1>5. CASE a \in Workers
  <2>0. actor[a].at \in Deciding /\ actor[a] \in Jobs /\ actor \in [Actors -> Jobs]
    BY <1>1 DEF Deciding, WorkerPlaces, PaymentTypeOK
  <2>1. /\ Settled("payer", Pay(a)) /\ ~At(Pay(a), "new")
    BY <1>5, <2>0, DecidingWorker
  <2>2. /\ Moves(a) /\ actor'[a].at \in {"reportPaid", "markSent"}
        /\ actor'[a].at = "reportPaid" => Enqueue(Pay(a), "COMMIT")
    <3>1. CASE actor' = [actor EXCEPT ![a].at = "reportPaid",
                           ![a].fresh = outbox[Pay(a)]["COMMIT"].status = "NONE"]
               /\ Enqueue(Pay(a), "COMMIT")
      <4>1. actor'[a] = [actor[a] EXCEPT !.at = "reportPaid",
                           !.fresh = outbox[Pay(a)]["COMMIT"].status = "NONE"]
        BY <1>1, <2>0, <3>1
      <4>2. \A b \in Actors \ {a} : actor'[b] = actor[b]
        BY <1>1, <2>0, <3>1
      <4> QED BY <2>0, <3>1, <4>1, <4>2 DEF Moves, Jobs
    <3>2. CASE Abort(a)
      BY <1>1, <1>2, <1>5, <3>2, GoMoves DEF Abort
    <3> QED BY <1>2, <1>5, <3>1, <3>2 DEF SaveCommit
  <2>3. RowsEvolve
    <3>1. CASE Enqueue(Pay(a), "COMMIT")
      BY <1>1, <1>2, <1>5, <2>1, <3>1, BankOf, EnqueuedRow DEF RowsEvolve
    <3>2. CASE UNCHANGED outbox
      BY <3>2, StillEvolves
    <3> QED BY <1>2, <1>5, <3>1, <3>2 DEF SaveCommit
  <2>4. Evolves
    BY <1>2, <1>3, <1>5, <2>2, <2>3, OthersMove, StillEvolves DEF SaveCommit, Evolves
  <2>5. actor'[a].at = "reportPaid" => HasRow(Pay(a), "COMMIT")'
    BY <1>1, <2>2, BankOf, EnqueuedRow DEF HasRow, Moves, Pay
  <2>6. WorkerMatches(a)'
    BY <1>5, <2>0, <2>2, <2>4, <2>5, ClaimsGrow, DecidedWorker DEF Moves
  <2> QED BY <1>1, <1>5, <2>2, <2>4, <2>6, WorkerStep DEF Moves
<1> QED BY <1>4, <1>5

LEMMA EnqueueFollowUpInv ==
    ASSUME PaymentTypeOK, PaymentInv, NEW w \in Workers, EnqueueFollowUp(w)
    PROVE  PaymentInv'
<1> DEFINE m == IF actor[w].giveUp THEN "ROLLBACK" ELSE "COMMIT"
<1>1. /\ w \in Actors /\ Pay(w) \in Payments /\ actor[w].at = "enqueue" /\ m \in Messages
      /\ actor[w] \in Jobs /\ actor \in [Actors -> Jobs]
  BY ActorKinds, PayTypes, BankOf DEF EnqueueFollowUp, At, PaymentTypeOK
<1>2. actor[w].at \in Deciding /\ (~actor[w].giveUp => Backed(Pay(w)))
  BY <1>1 DEF Deciding, WorkerPlaces, PaymentInv, WorkerMatches, At
<1>3. Settled("payer", Pay(w)) /\ ~At(Pay(w), "new")
  BY <1>2, DecidingWorker
<1>4. /\ Moves(w) /\ actor'[w].at \in {"reportPaid", "reportFailed", "markSent"}
      /\ actor'[w].at = "reportPaid" => Enqueue(Pay(w), "COMMIT")
  <2>1. ASSUME NEW place, NEW fresh,
               actor' = [actor EXCEPT ![w].at = place, ![w].fresh = fresh]
        PROVE  Moves(w) /\ actor'[w].at = place
    <3>1. actor'[w] = [actor[w] EXCEPT !.at = place, !.fresh = fresh]
      BY <1>1, <2>1
    <3>2. \A b \in Actors \ {w} : actor'[b] = actor[b]
      BY <1>1, <2>1
    <3> QED BY <1>1, <3>1, <3>2 DEF Moves, Jobs
  <2>2. CASE Enqueue(Pay(w), m) /\ actor' = [actor EXCEPT
                     ![w].at = IF m = "COMMIT" THEN "reportPaid" ELSE "reportFailed",
                     ![w].fresh = outbox[Pay(w)][m].status = "NONE"]
    <3>1. Moves(w) /\ actor'[w].at = IF m = "COMMIT" THEN "reportPaid" ELSE "reportFailed"
      BY <2>1, <2>2
    <3> QED BY <2>2, <3>1
  <2>3. CASE Go(w, IF m = "COMMIT" THEN "markSent" ELSE "reportFailed")
    BY <1>1, <2>3, GoMoves
  <2> QED BY <2>2, <2>3 DEF EnqueueFollowUp
<1>5. RowsEvolve
  <2>1. CASE Enqueue(Pay(w), m)
    BY <1>1, <1>2, <1>3, <2>1, EnqueuedRow DEF RowsEvolve
  <2>2. CASE UNCHANGED outbox
    BY <2>2, StillEvolves
  <2> QED BY <2>1, <2>2 DEF EnqueueFollowUp
<1>6. Evolves
  BY <1>4, <1>5, OthersMove, StillEvolves DEF EnqueueFollowUp, Evolves, bankVars
<1>7. actor'[w].at = "reportPaid" => HasRow(Pay(w), "COMMIT")'
  BY <1>1, <1>4, BankOf, EnqueuedRow DEF HasRow, Moves, Pay
<1>8. WorkerMatches(w)'
  BY <1>2, <1>4, <1>6, <1>7, ClaimsGrow, DecidedWorker DEF Moves
<1> QED BY <1>1, <1>4, <1>6, <1>8, WorkerStep DEF Moves

LEMMA ReadForRollbackInv ==
    ASSUME PaymentTypeOK, PaymentInv, NEW a \in Workers \cup Handlers, ReadForRollback(a)
    PROVE  PaymentInv'
<1>1. a \in Actors /\ Pay(a) \in Payments /\ actor[a].at = "rollback"
  BY ActorKinds, PayTypes DEF ReadForRollback, At
<1>2. CASE a \in Handlers
  <2>1. a \notin Workers /\ actor[a].msg = "ROLLBACK"
    BY <1>1, <1>2, ActorKinds DEF PaymentInv, HandlerMatches, At
  <2>2. /\ Moves(a) /\ actor'[a].at \in {"answer", "bankRollback"}
        /\ actor'[a].reply \in {actor[a].reply, "DONE"}
        /\ Keep(a, "DONE") \/ UNCHANGED inbox
    BY <1>1, <1>2, KeptAnswer, GoMoves DEF ReadForRollback
  <2>3. AnswersEvolve
    BY <1>1, <2>1, <2>2, KeptAnswer, StillEvolves DEF AnswersEvolve, AnswerMatches
  <2>4. Evolves
    BY <1>2, <2>2, <2>3, OthersMove, StillEvolves DEF ReadForRollback, Evolves, bankVars
  <2>5. HandlerMatches(a)'
    BY <1>1, <1>2, <2>1, <2>2, <2>4, ClaimsGrow, SettlingHandler
  <2> QED BY <1>1, <1>2, <2>2, <2>4, <2>5, HandlerStep
<1>3. CASE a \in Workers
  <2>1. a \notin Handlers /\ actor[a].at \in Deciding
    BY <1>1, <1>3, ActorKinds DEF Deciding, WorkerPlaces
  <2>2. /\ Moves(a) /\ actor'[a].at \in {"enqueue", "reportFailed", "bankRollback"}
        /\ actor'[a].at = "enqueue" => actor[a].giveUp
        /\ UNCHANGED inbox
    BY <1>1, <2>1, GoMoves DEF ReadForRollback
  <2>3. Evolves
    BY <1>3, <2>2, OthersMove, StillEvolves DEF ReadForRollback, Evolves, bankVars
  <2>4. WorkerMatches(a)'
    BY <1>3, <2>1, <2>2, <2>3, ClaimsGrow, DecidedWorker DEF Moves
  <2> QED BY <1>1, <1>3, <2>2, <2>3, <2>4, WorkerStep DEF Moves
<1> QED BY <1>2, <1>3

LEMMA BankRollbackInv ==
    ASSUME PaymentTypeOK, PaymentInv, NEW a \in Workers \cup Handlers, BankRollback(a)
    PROVE  PaymentInv'
<1>1. a \in Actors /\ Pay(a) \in Payments /\ actor[a].at = "bankRollback"
  BY ActorKinds, PayTypes DEF BankRollback, At
<1>2. Moves(a) /\ actor'[a].at = "saveRollback" /\ actor'[a].reply = actor[a].reply
  BY <1>1, GoMoves DEF BankRollback
<1>3. PostingsEvolve
  <2>1. CASE SavePosting(a, "ROLLED_BACK") /\ Posting(a) = "PREPARED"
    BY <1>1, <2>1, SavedPosting DEF PostingsEvolve, Posting, Committed
  <2>2. CASE UNCHANGED posting
    BY <2>2, StillEvolves
  <2> QED BY <2>1, <2>2 DEF BankRollback
<1>4. Evolves
  BY <1>2, <1>3, OthersMove, StillEvolves DEF BankRollback, Evolves
<1>5. CASE a \in Handlers
  <2>1. HandlerMatches(a)'
    BY <1>1, <1>2, <1>4, <1>5, ClaimsGrow, SettlingHandler
  <2> QED BY <1>1, <1>2, <1>4, <1>5, <2>1, HandlerStep
<1>6. CASE a \in Workers
  <2>1. actor[a].at \in Deciding
    BY <1>1 DEF Deciding, WorkerPlaces
  <2>2. WorkerMatches(a)'
    BY <1>2, <1>4, <1>6, <2>1, ClaimsGrow, DecidedWorker DEF Moves
  <2> QED BY <1>1, <1>2, <1>4, <1>6, <2>2, WorkerStep DEF Moves
<1> QED BY <1>5, <1>6

LEMMA SaveRollbackInv ==
    ASSUME PaymentTypeOK, PaymentInv, NEW a \in Workers \cup Handlers, SaveRollback(a)
    PROVE  PaymentInv'
<1>1. a \in Actors /\ Pay(a) \in Payments /\ actor[a].at = "saveRollback"
  BY ActorKinds, PayTypes DEF SaveRollback, At
<1>2. RecordsEvolve
  <2>1. CASE SaveRecord(a, "ROLLED_BACK")
    BY <1>1, <2>1, SavedRecord DEF RecordsEvolve
  <2>2. CASE UNCHANGED record
    BY <2>2, StillEvolves
  <2> QED BY <2>1, <2>2 DEF SaveRollback
<1>3. CASE a \in Handlers
  <2>1. actor[a].msg = "ROLLBACK" /\ ~actor[a].giveUp
    BY <1>1, <1>3 DEF PaymentInv, HandlerMatches, At
  <2>2. /\ Moves(a) /\ actor'[a].at = "answer" /\ actor'[a].reply \in {actor[a].reply, "DONE"}
        /\ Keep(a, "DONE") \/ UNCHANGED inbox
        /\ UNCHANGED outbox
    BY <1>1, <1>3, <2>1, KeptAnswer, GoMoves DEF SaveRollback
  <2>3. AnswersEvolve
    BY <1>1, <2>1, <2>2, KeptAnswer, StillEvolves DEF AnswersEvolve, AnswerMatches
  <2>4. Evolves
    BY <1>2, <1>3, <2>2, <2>3, OthersMove, StillEvolves DEF SaveRollback, Evolves
  <2>5. HandlerMatches(a)'
    BY <1>1, <1>3, <2>1, <2>2, <2>4, ClaimsGrow, SettlingHandler
  <2> QED BY <1>1, <1>3, <2>2, <2>4, <2>5, HandlerStep
<1>4. CASE a \in Workers
  <2>1. a \notin Handlers /\ actor[a].at \in Deciding
    BY <1>1, <1>4, ActorKinds DEF Deciding, WorkerPlaces
  <2>2. Settled("payer", Pay(a)) /\ ~At(Pay(a), "new")
    BY <1>4, <2>1, DecidingWorker
  <2>3. Moves(a) /\ actor'[a].at = "reportFailed" /\ UNCHANGED inbox
    BY <1>1, <2>1, GoMoves DEF SaveRollback
  <2>4. RowsEvolve
    <3>1. CASE Enqueue(Pay(a), "ROLLBACK")
      BY <1>1, <2>2, <3>1, BankOf, EnqueuedRow DEF RowsEvolve
    <3>2. CASE UNCHANGED outbox
      BY <3>2, StillEvolves
    <3> QED BY <3>1, <3>2 DEF SaveRollback
  <2>5. Evolves
    BY <1>2, <1>4, <2>3, <2>4, OthersMove, StillEvolves DEF SaveRollback, Evolves
  <2>6. WorkerMatches(a)'
    BY <1>4, <2>1, <2>3, <2>5, ClaimsGrow, DecidedWorker DEF Moves
  <2> QED BY <1>1, <1>4, <2>3, <2>5, <2>6, WorkerStep DEF Moves
<1> QED BY <1>3, <1>4

-----------------------------------------------------------------------------
(* The worker and its rows *)

LEMMA ClaimInv ==
    ASSUME PaymentTypeOK, PaymentInv, NEW w \in Workers, NEW p \in Payments,
           NEW m \in Messages, Claim(w, p, m)
    PROVE  PaymentInv'
<1>1. w \in Actors /\ actor[w].at = "idle" /\ HasRow(p, m)
  BY ActorKinds DEF Claim, At, HasRow
<1>2. \A b \in Actors \ {w} : actor'[b] = actor[b]
  BY DEF Claim, PaymentTypeOK
<1>3. actor'[w].at = "send" /\ actor'[w].pay = p /\ actor'[w].msg = m
  BY <1>1 DEF Claim, PaymentTypeOK, Job
<1>4. \A q \in Payments, n \in Messages : outbox'[q][n].status = outbox[q][n].status
  <2>1. outbox[p][m] \in Rows
    BY DEF PaymentTypeOK
  <2>2. outbox' = [outbox EXCEPT ![p][m] = [outbox[p][m] EXCEPT !.leased = TRUE]]
    BY DEF Claim
  <2>3. [outbox[p][m] EXCEPT !.leased = TRUE].status = outbox[p][m].status
    BY <2>1 DEF Rows
  <2> QED BY <2>2, <2>3, MarkedRow
<1>5. Evolves
  BY <1>2, <1>4, ActorKinds, OthersInitiate, StillEvolves
     DEF Claim, Evolves, RowsEvolve, bankVars, Stays
<1>6. WorkerMatches(w)'
  BY <1>1, <1>3, <1>5, ClaimsGrow DEF WorkerMatches, At, Pay, Grows, Deciding
<1> QED BY <1>1, <1>2, <1>5, <1>6, WorkerStep

LEMMA LapseInv ==
    ASSUME PaymentTypeOK, PaymentInv, NEW p \in Payments, NEW m \in Messages, LeaseLapses(p, m)
    PROVE  PaymentInv'
<1>1. \A q \in Payments, n \in Messages : outbox'[q][n].status = outbox[q][n].status
  <2>1. outbox[p][m] \in Rows
    BY DEF PaymentTypeOK
  <2>2. outbox' = [outbox EXCEPT ![p][m] = [outbox[p][m] EXCEPT !.leased = FALSE]]
    BY DEF LeaseLapses
  <2>3. [outbox[p][m] EXCEPT !.leased = FALSE].status = outbox[p][m].status
    BY <2>1 DEF Rows
  <2> QED BY <2>2, <2>3, MarkedRow
<1>2. Evolves
  BY <1>1, ActorKinds, OthersInitiate, StillEvolves
     DEF LeaseLapses, Evolves, RowsEvolve, bankVars, Stays
<1>3. DataMatches' /\ ActorsMatch /\ Grows
  BY <1>2, InvParts, DataKept, ClaimsGrow
<1>4. ActorsMatch'
  BY <1>3, Stayers DEF LeaseLapses, ActorsMatch, Stays, CallerMatches, At, Pay
<1> QED BY <1>3, <1>4 DEF PaymentInv, DataMatches, ActorsMatch

LEMMA RetryInv ==
    ASSUME PaymentTypeOK, PaymentInv, NEW w \in Workers, Retry(w)
    PROVE  PaymentInv'
<1>1. /\ w \in Actors /\ actor[w].at = "retry" /\ Pay(w) \in Payments /\ actor[w].msg \in Messages
      /\ actor[w] \in Jobs /\ actor \in [Actors -> Jobs]
  BY ActorKinds, PayTypes DEF Retry, At, PaymentTypeOK
<1>2. \A q \in Payments, n \in Messages : outbox'[q][n].status = outbox[q][n].status
  <2>1. CASE UNCHANGED outbox
    BY <2>1
  <2>2. CASE outbox' = [outbox EXCEPT
                 ![Pay(w)][actor[w].msg].attempts = actor[w].attempts + 1,
                 ![Pay(w)][actor[w].msg].leased = FALSE]
    <3> DEFINE row == outbox[Pay(w)][actor[w].msg]
               new == [row EXCEPT !.attempts = actor[w].attempts + 1, !.leased = FALSE]
    <3>1. row \in Rows
      BY <1>1 DEF PaymentTypeOK
    <3>2. new.status = row.status
      BY <3>1 DEF Rows
    <3>3. outbox' = [outbox EXCEPT ![Pay(w)][actor[w].msg] = new]
      BY <1>1, <2>2 DEF PaymentTypeOK
    <3> HIDE DEF new
    <3> QED BY <1>1, <3>2, <3>3, MarkedRow
  <2> QED BY <2>1, <2>2 DEF Retry
<1>3. \A b \in Actors \ {w} : actor'[b] = actor[b]
  BY <1>1 DEF Retry, GiveUp, Go
<1>4. Evolves
  BY <1>2, <1>3, ActorKinds, OthersInitiate, StillEvolves
     DEF Retry, Evolves, RowsEvolve, bankVars, Stays
<1>5. Grows /\ WorkerMatches(w)
  BY <1>4, ClaimsGrow DEF PaymentInv
<1>6. WorkerMatches(w)'
  <2>1. CASE GiveUp(w) /\ actor[w].msg = "NEW"
    <3>1. actor'[w] = [actor[w] EXCEPT !.at = "rollback", !.giveUp = TRUE]
      BY <1>1, <2>1 DEF GiveUp
    <3>2. /\ actor'[w].at = "rollback" /\ actor'[w].pay = actor[w].pay
          /\ actor'[w].msg = "NEW"
      BY <1>1, <2>1, <3>1 DEF Jobs
    <3>3. HasRow(Pay(w), "NEW")'
      BY <1>1, <1>5, <2>1, <3>2 DEF WorkerMatches, At, Pay, Grows
    <3> QED BY <3>2, <3>3 DEF WorkerMatches, At, Pay
  <2>2. CASE Go(w, "markFailed")
    BY <1>1, <1>5, <2>2, GoMoves DEF WorkerMatches, At, Pay, Grows, Moves, Deciding
  <2>3. CASE actor' = [actor EXCEPT ![w] = Idle]
    <3>1. actor'[w].at = "idle"
      BY <1>1, <2>3 DEF Idle, Job
    <3> QED BY <3>1 DEF WorkerMatches, At, Deciding
  <2> QED BY <2>1, <2>2, <2>3 DEF Retry
<1> QED BY <1>1, <1>3, <1>4, <1>6, WorkerStep

LEMMA ReportInv ==
    ASSUME PaymentTypeOK, PaymentInv, NEW w \in Workers, ReportPaid(w) \/ ReportFailed(w)
    PROVE  PaymentInv'
<1>1. /\ w \in Actors /\ w \notin Handlers /\ Pay(w) \in Payments
      /\ \/ actor[w].at = "reportPaid" /\ ReportPaid(w)
         \/ actor[w].at = "reportFailed" /\ ReportFailed(w)
  BY ActorKinds, PayTypes DEF ReportPaid, ReportFailed, Report, At
<1>2. /\ Moves(w) /\ actor'[w].at \in {"sync", "markFailed", "markSent"}
      /\ actor'[w].at = "sync" => actor[w].at = "reportPaid"
  BY <1>1, GoMoves DEF ReportPaid, ReportFailed, Report
<1>3. WorkerMatches(w) /\ (actor[w].at = "reportPaid" => HasRow(Pay(w), "COMMIT"))
  BY <1>1 DEF PaymentInv, WorkerMatches, At
<1>4. BankingEvolves
  BY <1>1, <1>3 DEF ReportPaid, ReportFailed, Report, BankingEvolves, PaymentTypeOK
<1>5. Evolves
  BY <1>2, <1>4, OthersMove, StillEvolves DEF ReportPaid, ReportFailed, Report, Evolves, bankVars
<1>6. WorkerMatches(w)'
  <2>1. actor[w].at \in Deciding
    BY <1>1 DEF Deciding, WorkerPlaces
  <2>2. actor'[w].at = "sync" => HasRow(Pay(w), "COMMIT")'
    BY <1>1, <1>2, <1>3, <1>5, ClaimsGrow, BankOf DEF Grows, Moves, Pay
  <2> QED BY <1>2, <1>5, <2>1, <2>2, ClaimsGrow, DecidedWorker DEF Moves
<1> QED BY <1>1, <1>2, <1>5, <1>6, WorkerStep DEF Moves

LEMMA MarkInv ==
    ASSUME PaymentTypeOK, PaymentInv, NEW w \in Workers, MarkSent(w) \/ MarkFailed(w)
    PROVE  PaymentInv'
<1>1. /\ w \in Actors /\ Pay(w) \in Payments /\ actor[w].msg \in Messages
      /\ actor[w].at \in {"markSent", "markFailed"} /\ HasRow(Pay(w), actor[w].msg)
      /\ actor' = [actor EXCEPT ![w] = Idle]
  BY ActorKinds, PayTypes DEF MarkSent, MarkFailed, Mark, At, PaymentInv, WorkerMatches
<1>2. /\ \A b \in Actors \ {w} : actor'[b] = actor[b]
      /\ actor'[w].at = "idle"
  BY <1>1 DEF PaymentTypeOK, Idle, Job
<1>3. RowsEvolve
  <2>1. CASE UNCHANGED outbox
    BY <2>1, StillEvolves
  <2>2. ASSUME NEW status \in {"SENT", "FAILED"},
               status = "SENT" /\ actor[w].msg = "COMMIT" => Committed("payee", Pay(w)),
               outbox' = [outbox EXCEPT ![Pay(w)][actor[w].msg].status = status,
                                        ![Pay(w)][actor[w].msg].leased = FALSE]
        PROVE  RowsEvolve
    <3> DEFINE row == outbox[Pay(w)][actor[w].msg]
               new == [row EXCEPT !.status = status, !.leased = FALSE]
    <3>1. row \in Rows
      BY <1>1 DEF PaymentTypeOK
    <3>2. new.status = status
      BY <3>1 DEF Rows
    <3>3. outbox' = [outbox EXCEPT ![Pay(w)][actor[w].msg] = new]
      BY <1>1, <2>2 DEF PaymentTypeOK
    <3> HIDE DEF new
    <3>4. \A q \in Payments, n \in Messages :
              outbox'[q][n] = IF q = Pay(w) /\ n = actor[w].msg THEN new ELSE outbox[q][n]
      BY <1>1, <3>3 DEF PaymentTypeOK
    <3> SUFFICES ASSUME NEW q \in Payments, NEW n \in Messages
                 PROVE  \/ outbox'[q][n].status = outbox[q][n].status
                        \/ HasRow(q, n) /\ outbox'[q][n].status = "FAILED"
                        \/ /\ HasRow(q, n) /\ outbox'[q][n].status = "SENT"
                           /\ n = "COMMIT" => Committed("payee", q)
      BY DEF RowsEvolve
    <3> QED BY <1>1, <2>2, <3>2, <3>4
  <2>3. MarkSent(w) /\ actor[w].msg = "COMMIT" => Committed("payee", Pay(w))
    BY DEF MarkSent, Mark, PaymentInv, WorkerMatches
  <2> QED BY <2>1, <2>2, <2>3 DEF MarkSent, MarkFailed, Mark
<1>4. Evolves
  BY <1>2, <1>3, ActorKinds, OthersInitiate, StillEvolves
     DEF MarkSent, MarkFailed, Mark, Evolves, bankVars, Stays
<1>5. WorkerMatches(w)'
  BY <1>2 DEF WorkerMatches, At, Deciding
<1> QED BY <1>1, <1>2, <1>4, <1>5, WorkerStep

-----------------------------------------------------------------------------
(* Messages between the banks *)

\* A worker sends a message, and a handler accepts it.
LEMMA SendStep ==
    ASSUME PaymentTypeOK, PaymentInv, NEW w \in Workers, NEW h \in Handlers,
           NEW m \in Messages, NEW place,
           actor[w].at \notin {"idle", "wait", "syncWait"}, HasRow(Pay(w), m),
           \/ place = "wait" /\ m = actor[w].msg
           \/ place = "syncWait" /\ m = "COMMIT" /\ actor[w].msg = "NEW",
           actor' = [actor EXCEPT ![w].at = place, ![h] = Accepted(w, m)],
           UNCHANGED <<bankVars, willing, outbox, inbox, banking, faultVars>>
    PROVE  PaymentInv'
<1>1. /\ w \in Actors /\ h \in Actors /\ w # h /\ w # NoActor
      /\ actor[w] \in Jobs /\ actor \in [Actors -> Jobs]
  BY ActorKinds DEF PaymentTypeOK
<1>2. PICK p \in Payments, r \in Replies : p = actor[w].pay /\ r = inbox[p][m]
  BY <1>1, PayTypes DEF PaymentTypeOK, Pay
<1>3. /\ \A b \in Actors \ {w, h} : actor'[b] = actor[b]
      /\ actor'[h] = Accepted(w, m)
      /\ actor'[w].at = place /\ actor'[w].pay = p
      /\ actor'[w].msg = actor[w].msg /\ actor'[w].giveUp = actor[w].giveUp
  <2>1. actor'[w] = [actor[w] EXCEPT !.at = place]
    BY <1>1
  <2>2. \A b \in Actors \ {w} : actor'[b] = IF b = h THEN Accepted(w, m) ELSE actor[b]
    BY <1>1
  <2> QED BY <1>1, <1>2, <2>1, <2>2 DEF Jobs
<1>4. Evolves
  BY <1>3, ActorKinds, OthersInitiate, StillEvolves DEF Evolves, bankVars, Stays
<1>5. DataMatches /\ ActorsMatch /\ DataMatches' /\ Grows
  BY <1>4, InvParts, DataKept, ClaimsGrow
<1>6. WorkerMatches(w)'
  <2>1. HasRow(p, m)' /\ place \notin Deciding \ {"syncWait"}
    BY <1>2, <1>5 DEF Grows, Pay, Deciding, WorkerPlaces
  <2>2. HasRow(p, actor[w].msg)'
    <3>1. HasRow(p, actor[w].msg)
      BY <1>2, <1>5 DEF ActorsMatch, WorkerMatches, At, Pay
    <3> QED BY <1>1, <1>3, <1>5, <3>1, PayTypes DEF Grows
  <2> QED BY <1>3, <2>1, <2>2 DEF WorkerMatches, At, Pay
<1>7. HandlerMatches(h)'
  <2>1. AnswerMatches(p, m, r) /\ (m = "COMMIT" => Backed(p))
    BY <1>2, <1>5 DEF DataMatches, InboxMatches, RowsMatch, Pay
  <2>2. AnswerMatches(p, m, r)' /\ (m = "COMMIT" => Backed(p)')
    BY <1>5, <2>1, BankOf DEF Grows, AnswerMatches, Backed
  <2>3. /\ actor'[h].pay = p /\ actor'[h].msg = m /\ ~actor'[h].giveUp
        /\ \/ actor'[h].at = "answer" /\ actor'[h].reply = r
           \/ /\ actor'[h].reply = "ERROR"
              /\ \/ m = "NEW" /\ actor'[h].at = "prepare"
                 \/ m = "COMMIT" /\ actor'[h].at = "commit"
                 \/ m = "ROLLBACK" /\ actor'[h].at = "rollback"
    BY <1>2, <1>3, AcceptedTypes DEF Pay
  <2>4. actor'[h].reply \in {r, "ERROR"}
    BY <2>3
  <2>5. AnswerMatches(p, m, actor[h].reply)'
    BY <2>2, <2>4, BankOf DEF AnswerMatches
  <2> QED BY <2>2, <2>3, <2>5 DEF HandlerMatches, At, Pay
<1>8. ASSUME NEW k \in Handlers PROVE CallerMatches(k)'
  <2>1. \A i \in Handlers : actor[i].caller # w
    BY <1>1, <1>5 DEF ActorsMatch, CallerMatches, At
  <2>2. actor'[h].caller = w /\ actor'[h].pay = p /\ actor'[h].msg = m
    BY <1>2, <1>3, AcceptedTypes DEF Pay
  <2>3. \A i \in Handlers \ {h} : actor'[i] = actor[i]
    BY <1>3, ActorKinds
  <2>4. CASE k = h
    BY <1>3, <2>1, <2>2, <2>3, <2>4 DEF CallerMatches, At, Pay
  <2>5. CASE k # h
    <3>1. actor'[k] = actor[k] /\ CallerMatches(k)
      BY <1>5, <2>3, <2>5 DEF ActorsMatch
    <3>2. actor[k].caller \in Workers \cup {NoActor}
      BY ActorKinds DEF PaymentTypeOK, Jobs
    <3>3. actor[k].caller # NoActor => actor'[actor[k].caller] = actor[actor[k].caller]
      BY <1>3, <2>1, <3>2, ActorKinds
    <3> QED BY <2>1, <2>2, <2>3, <3>1, <3>3 DEF CallerMatches, At, Pay
  <2> QED BY <2>4, <2>5
<1>9. ActorsMatch'
  <2>1. \A v \in Workers \ {w} : WorkerMatches(v)'
    BY <1>3, <1>5, Stayers, ActorKinds DEF Stays
  <2>2. \A k \in Handlers \ {h} : HandlerMatches(k)'
    BY <1>3, <1>5, Stayers, ActorKinds DEF Stays
  <2> QED BY <1>6, <1>7, <1>8, <2>1, <2>2 DEF ActorsMatch
<1> QED BY <1>5, <1>9 DEF PaymentInv, DataMatches, ActorsMatch

LEMMA SendInv ==
    ASSUME PaymentTypeOK, PaymentInv, NEW w \in Workers, NEW h \in Handlers,
           Send(w, h) \/ SendCommit(w, h)
    PROVE  PaymentInv'
<1>1. WorkerMatches(w) /\ actor[w].msg \in Messages /\ "COMMIT" \in Messages
  BY ActorKinds, PayTypes, BankOf DEF PaymentInv
<1>2. CASE Send(w, h)
  BY <1>1, <1>2, SendStep DEF Send, At, WorkerMatches
<1>3. CASE SendCommit(w, h)
  <2>1. actor[w].at = "sync" /\ HasRow(Pay(w), "COMMIT") /\ actor[w].msg = "NEW"
    BY <1>1, <1>3 DEF SendCommit, At, WorkerMatches, Deciding, WorkerPlaces
  <2> QED BY <1>1, <1>3, <2>1, SendStep DEF SendCommit
<1> QED BY <1>2, <1>3

\* A caller of before still is one, or nobody is.
LEMMA CallersKept ==
    ASSUME PaymentTypeOK, ActorsMatch,
           \A k \in Handlers :
               \/ actor'[k].caller = NoActor
               \/ /\ actor'[k].caller = actor[k].caller
                  /\ actor'[k].pay = actor[k].pay /\ actor'[k].msg = actor[k].msg
                  /\ actor[k].caller # NoActor => Stays(actor[k].caller)
    PROVE  \A k \in Handlers : CallerMatches(k)'
<1> SUFFICES ASSUME NEW k \in Handlers, actor'[k].caller # NoActor
             PROVE  CallerMatches(k)'
  BY DEF CallerMatches
<1>1. PICK c : c = actor[k].caller
  OBVIOUS
<1>2. /\ actor'[k].caller = c /\ c # NoActor /\ Stays(c)
      /\ actor'[k].pay = actor[k].pay /\ actor'[k].msg = actor[k].msg
  BY <1>1
<1>3. /\ actor[c].pay = actor[k].pay
      /\ \/ actor[c].at = "wait" /\ actor[c].msg = actor[k].msg
         \/ actor[c].at = "syncWait" /\ actor[k].msg = "COMMIT"
      /\ \A i \in Handlers \ {k} : actor[i].caller # c
  BY <1>1, <1>2 DEF ActorsMatch, CallerMatches, At, Pay
<1>4. \A i \in Handlers \ {k} : actor'[i].caller # c
  BY <1>2, <1>3
<1> QED BY <1>2, <1>3, <1>4 DEF CallerMatches, At, Pay, Stays

\* Whoever is idle claims nothing.
LEMMA IdleMatches ==
    /\ \A w \in Workers : actor'[w] = Idle => WorkerMatches(w)'
    /\ \A h \in Handlers : actor'[h] = Idle => HandlerMatches(h)' /\ actor'[h].caller = NoActor
<1>1. /\ Idle.at = "idle" /\ Idle.msg = "NEW" /\ Idle.reply = "ERROR"
      /\ ~Idle.giveUp /\ Idle.caller = NoActor
  BY DEF Idle, Job
<1> QED BY <1>1 DEF WorkerMatches, HandlerMatches, AnswerMatches, At, Deciding

\* An actor that leaves, for a job that claims nothing new.
LEMMA LeaveStep ==
    ASSUME PaymentTypeOK, PaymentInv, NEW a \in Actors, NEW job, Leave(a, job),
           UNCHANGED <<bankVars, willing, outbox, inbox, banking>>,
           a \in Payments => job.pay = a /\ job.at = "end",
           a \in Workers => \/ job = Idle
                            \/ /\ job.at \in {"retry", "markSent"}
                               /\ job.pay = Pay(a) /\ job.msg = actor[a].msg
                               /\ HasRow(Pay(a), job.msg)
                               /\ job.at = "markSent" => job.msg = "NEW",
           a \in Handlers => job = Idle
    PROVE  PaymentInv'
<1>1. \A b \in Actors \ {a} :
          Stays(b) /\ actor'[b].caller = IF actor[b].caller = a THEN NoActor ELSE actor[b].caller
  <2> SUFFICES ASSUME NEW b \in Actors \ {a}
               PROVE  /\ Stays(b)
                      /\ actor'[b].caller = IF actor[b].caller = a THEN NoActor
                                            ELSE actor[b].caller
    OBVIOUS
  <2>1. actor[b] \in Jobs
    BY DEF PaymentTypeOK
  <2>2. actor'[b] = IF actor[b].caller = a THEN [actor[b] EXCEPT !.caller = NoActor]
                    ELSE actor[b]
    BY DEF Leave
  <2> QED BY <2>1, <2>2 DEF Stays, Jobs
<1>2. actor'[a] = job
  BY DEF Leave
<1>3. InitiatorsEvolve
  BY <1>1, <1>2, ActorKinds DEF InitiatorsEvolve, Stays, At, Pay, PaymentInv, InitiatorsMatch
<1>4. Evolves
  BY <1>3, StillEvolves DEF Evolves, bankVars
<1>5. DataMatches /\ ActorsMatch /\ DataMatches' /\ Grows
  BY <1>4, InvParts, DataKept, ClaimsGrow
<1>6. a \in Workers => WorkerMatches(a)'
  <2> SUFFICES ASSUME a \in Workers PROVE WorkerMatches(a)'
    OBVIOUS
  <2>1. CASE job = Idle
    BY <1>2, <2>1, IdleMatches
  <2>2. ASSUME job.at \in {"retry", "markSent"}, job.pay = Pay(a), job.msg = actor[a].msg,
               HasRow(Pay(a), job.msg), job.at = "markSent" => job.msg = "NEW"
        PROVE  WorkerMatches(a)'
    <3>1. HasRow(job.pay, job.msg)'
      BY <1>2, <1>5, <2>2, PayTypes DEF Grows
    <3> QED BY <1>2, <2>2, <3>1 DEF WorkerMatches, At, Pay, Deciding
  <2> QED BY <2>1, <2>2
<1>7. \A w \in Workers : WorkerMatches(w)'
  BY <1>1, <1>5, <1>6, Stayers, ActorKinds
<1>8. \A h \in Handlers : HandlerMatches(h)'
  BY <1>1, <1>2, <1>5, IdleMatches, Stayers, ActorKinds
<1>9. \A h \in Handlers : CallerMatches(h)'
  <2>1. ASSUME NEW k \in Handlers, actor'[k].caller # NoActor
        PROVE  /\ actor'[k].caller = actor[k].caller
               /\ actor'[k].pay = actor[k].pay /\ actor'[k].msg = actor[k].msg
               /\ actor[k].caller # NoActor => Stays(actor[k].caller)
    <3>1. k # a
      BY <1>2, <2>1, IdleMatches
    <3>2. /\ actor'[k].caller = actor[k].caller /\ actor[k].caller # a /\ Stays(k)
      BY <1>1, <2>1, <3>1, ActorKinds
    <3>3. actor[k].caller \in Workers \cup {NoActor}
      BY ActorKinds DEF PaymentTypeOK, Jobs
    <3> QED BY <1>1, <3>2, <3>3, ActorKinds DEF Stays
  <2> QED BY <1>5, <2>1, CallersKept
<1> QED BY <1>5, <1>7, <1>8, <1>9 DEF PaymentInv, DataMatches

LEMMA NoAnswerInv ==
    ASSUME PaymentTypeOK, PaymentInv, NEW w \in Workers, NoAnswer(w)
    PROVE  PaymentInv'
<1>1. w \in Actors /\ w \notin Payments /\ w \notin Handlers /\ actor[w] \in Jobs
  BY ActorKinds, PayTypes
<1>2. PICK place :
          /\ place = IF actor[w].at \in {"send", "wait"} THEN "retry" ELSE "markSent"
          /\ Leave(w, [actor[w] EXCEPT !.at = place])
  BY DEF NoAnswer
<1>3. WorkerMatches(w) /\ actor[w].at \in {"send", "sync", "wait", "syncWait"}
  BY DEF PaymentInv, NoAnswer
<1>4. HasRow(Pay(w), actor[w].msg) /\ (place = "markSent" => actor[w].msg = "NEW")
  BY <1>2, <1>3 DEF WorkerMatches, At, Deciding, WorkerPlaces
<1> DEFINE job == [actor[w] EXCEPT !.at = place]
<1>5. /\ job.at \in {"retry", "markSent"} /\ job.at = place
      /\ job.pay = Pay(w) /\ job.msg = actor[w].msg
  BY <1>1, <1>2 DEF Jobs, Pay
<1> HIDE DEF job
<1>6. Leave(w, job)
  BY <1>2 DEF job
<1> QED BY <1>1, <1>4, <1>5, <1>6, LeaveStep DEF NoAnswer

LEMMA CrashInv ==
    ASSUME PaymentTypeOK, PaymentInv, NEW a \in Actors, Crash(a)
    PROVE  PaymentInv'
<1>1. a \in Payments => Job("end", a).pay = a /\ Job("end", a).at = "end"
  BY DEF Job
<1>2. CASE a \in Payments
  <2>1. Leave(a, Job("end", a))
    BY <1>2 DEF Crash
  <2> QED BY <1>1, <1>2, <2>1, ActorKinds, LeaveStep DEF Crash
<1>3. CASE a \notin Payments
  <2>1. Leave(a, Idle)
    BY <1>3 DEF Crash
  <2> QED BY <1>3, <2>1, ActorKinds, LeaveStep DEF Crash
<1> QED BY <1>2, <1>3

\* What an answer says, and to whom.
LEMMA Answering ==
    ASSUME PaymentTypeOK, PaymentInv, NEW h \in Handlers, NEW w, NEW r,
           w = actor[h].caller, r = actor[h].reply
    PROVE  /\ Pay(h) \in Payments
           /\ AnswerMatches(Pay(h), actor[h].msg, r)
           /\ At(h, "vote") => actor[h].msg = "NEW"
           /\ w # NoActor =>
                  /\ w \in Workers /\ w # h /\ Pay(w) = Pay(h) /\ WorkerMatches(w)
                  /\ \/ At(w, "wait") /\ actor[w].msg = actor[h].msg
                     \/ At(w, "syncWait") /\ actor[h].msg = "COMMIT"
                  /\ \A k \in Handlers \ {h} : actor[k].caller # w
<1>1. w \in Workers \cup {NoActor} /\ Pay(h) \in Payments
  BY ActorKinds, PayTypes DEF PaymentTypeOK, Jobs
<1>2. HandlerMatches(h) /\ CallerMatches(h)
  BY DEF PaymentInv
<1>3. w # NoActor => w \in Workers /\ w # h /\ WorkerMatches(w)
  BY <1>1, ActorKinds DEF PaymentInv
<1> QED BY <1>1, <1>2, <1>3 DEF HandlerMatches, CallerMatches, At

LEMMA AnswerMoves ==
    ASSUME PaymentTypeOK, PaymentInv, NEW h \in Handlers, Answer(h), NEW w, NEW r,
           w = actor[h].caller, r = actor[h].reply
    PROVE  /\ actor'[h] = Idle
           /\ \A b \in Actors \ {h, w} : actor'[b] = actor[b]
           /\ w # NoActor => /\ actor'[w].at = Heard(w, r) /\ actor'[w].pay = Pay(h)
                             /\ actor'[w].msg = actor[w].msg
                             /\ actor'[w].giveUp = actor[w].giveUp
<1>1. h \in Actors /\ actor \in [Actors -> Jobs]
  BY ActorKinds DEF PaymentTypeOK
<1>2. CASE w = NoActor
  BY <1>1, <1>2 DEF Answer
<1>3. CASE w # NoActor
  <2>1. actor' = [actor EXCEPT ![h] = Idle, ![w].at = Heard(w, r)]
    BY <1>3 DEF Answer
  <2>2. w \in Actors /\ w # h /\ actor[w] \in Jobs /\ actor[w].pay = Pay(h)
    BY <1>1, <1>3, Answering, ActorKinds DEF Pay
  <2>3. actor'[w] = [actor[w] EXCEPT !.at = Heard(w, r)]
    BY <1>1, <2>1, <2>2
  <2>4. actor'[h] = Idle /\ \A b \in Actors \ {h, w} : actor'[b] = actor[b]
    BY <1>1, <2>1, <2>2
  <2> QED BY <1>3, <2>2, <2>3, <2>4 DEF Jobs
<1> QED BY <1>2, <1>3

LEMMA AnswerInv ==
    ASSUME PaymentTypeOK, PaymentInv, NEW h \in Handlers, Answer(h)
    PROVE  PaymentInv'
<1>1. PICK w, r, p, m : w = actor[h].caller /\ r = actor[h].reply /\ p = actor[h].pay
                        /\ m = actor[h].msg
  OBVIOUS
<1>2. /\ p \in Payments /\ m \in Messages /\ AnswerMatches(p, m, r)
      /\ At(h, "vote") => m = "NEW"
  BY <1>1, Answering, ActorKinds, PayTypes DEF Pay
<1>3. w # NoActor =>
          /\ w \in Workers /\ w # h /\ actor[w].pay = p /\ WorkerMatches(w)
          /\ \/ actor[w].at = "wait" /\ actor[w].msg = m
             \/ actor[w].at = "syncWait" /\ m = "COMMIT"
          /\ \A k \in Handlers \ {h} : actor[k].caller # w
  BY <1>1, Answering DEF At, Pay
<1>4. /\ actor'[h] = Idle
      /\ \A b \in Actors \ {h, w} : actor'[b] = actor[b]
      /\ w # NoActor => /\ actor'[w].at = Heard(w, r) /\ actor'[w].pay = p
                        /\ actor'[w].msg = actor[w].msg /\ actor'[w].giveUp = actor[w].giveUp
  BY <1>1, AnswerMoves DEF Pay
<1>5. RowsEvolve
  <2>1. CASE UNCHANGED outbox
    BY <2>1, StillEvolves
  <2>2. CASE MarkCommitSent(w, r) /\ MarksCommit(w, r)
    <3>1. w # NoActor /\ actor[w].at = "syncWait" /\ r \in {"DONE", "LATER"}
      BY <2>2 DEF MarksCommit, At
    <3>2. Committed("payee", p) /\ HasRow(p, "COMMIT") /\ actor[w].pay = p
      BY <1>2, <1>3, <3>1 DEF AnswerMatches, WorkerMatches, At, Pay
    <3>3. outbox' = [outbox EXCEPT ![p]["COMMIT"].status = "SENT"]
      BY <2>2, <3>2 DEF MarkCommitSent, Pay
    <3>4. outbox[p]["COMMIT"] \in Rows
      BY <1>2, BankOf DEF PaymentTypeOK
    <3>5. \A q \in Payments, n \in Messages :
              outbox'[q][n].status = IF q = p /\ n = "COMMIT" THEN "SENT"
                                     ELSE outbox[q][n].status
      BY <1>2, <3>3, <3>4, BankOf DEF PaymentTypeOK, Rows
    <3> QED BY <3>2, <3>5 DEF RowsEvolve
  <2> QED BY <1>1, <2>1, <2>2 DEF Answer, MarkCommitSent
<1>6. AnswersEvolve
  <2>1. CASE UNCHANGED inbox
    BY <2>1, StillEvolves
  <2>2. CASE At(h, "vote") /\ inbox' = [inbox EXCEPT ![p]["NEW"] = r]
    <3>1. \A q \in Payments, n \in Messages :
              inbox'[q][n] = IF q = p /\ n = "NEW" THEN r ELSE inbox[q][n]
      BY <1>2, <2>2, BankOf DEF PaymentTypeOK
    <3> QED BY <1>2, <2>2, <3>1 DEF AnswersEvolve
  <2> QED BY <1>1, <2>1, <2>2 DEF Answer, Pay
<1>7. \A b \in Actors \ {h, w} : Stays(b)
  BY <1>4 DEF Stays
<1>8. Evolves
  <2>1. \A q \in Payments : Stays(q)
    BY <1>3, <1>7, ActorKinds
  <2> QED BY <1>5, <1>6, <2>1, OthersInitiate, StillEvolves DEF Answer, Evolves, bankVars
<1>9. DataMatches /\ ActorsMatch /\ DataMatches' /\ Grows
  BY <1>8, InvParts, DataKept, ClaimsGrow
<1>10. w # NoActor => WorkerMatches(w)'
  <2> SUFFICES ASSUME w # NoActor PROVE WorkerMatches(w)'
    OBVIOUS
  <2>1. /\ actor[w].msg \in Messages /\ HasRow(p, actor[w].msg)
        /\ actor[w].at = "syncWait" => actor[w].msg = "NEW"
    BY <1>3, ActorKinds, PayTypes DEF WorkerMatches, At, Pay, Deciding, WorkerPlaces
  <2>2. HasRow(p, actor[w].msg)'
    BY <1>2, <1>4, <1>9, <2>1 DEF Grows
  <2>3. /\ actor'[w].at \in {"markSent", "commit", "rollback", "retry"}
        /\ actor'[w].at \in {"commit", "rollback"} =>
               actor[w].at = "wait" /\ r \in {"YES", "NO"}
        /\ actor'[w].at = "commit" => r = "YES"
        /\ actor'[w].at = "markSent" =>
               actor[w].at = "syncWait" \/ (actor[w].at = "wait" /\ r = "DONE")
    BY <1>4 DEF Heard, At
  <2>4. /\ actor'[w].at \in {"commit", "rollback"} => actor[w].msg = "NEW"
        /\ actor'[w].at = "commit" => Settled("payee", p)'
        /\ actor'[w].at = "markSent" /\ actor[w].msg = "COMMIT" => Committed("payee", p)'
    BY <1>2, <1>3, <1>9, <2>1, <2>3, BankOf DEF AnswerMatches, Grows
  <2> QED BY <1>4, <2>2, <2>3, <2>4 DEF WorkerMatches, At, Pay, Deciding
<1>11. \A v \in Workers : WorkerMatches(v)'
  BY <1>7, <1>9, <1>10, Stayers, ActorKinds
<1>12. \A k \in Handlers : HandlerMatches(k)'
  <2>1. HandlerMatches(h)'
    BY <1>4, IdleMatches
  <2>2. \A k \in Handlers \ {h} : Stays(k)
    BY <1>3, <1>7, ActorKinds
  <2> QED BY <1>9, <2>1, <2>2, Stayers
<1>13. \A k \in Handlers : CallerMatches(k)'
  <2>1. ASSUME NEW k \in Handlers, actor'[k].caller # NoActor
        PROVE  /\ actor'[k].caller = actor[k].caller
               /\ actor'[k].pay = actor[k].pay /\ actor'[k].msg = actor[k].msg
               /\ actor[k].caller # NoActor => Stays(actor[k].caller)
    <3>1. k # h
      BY <1>4, <2>1, IdleMatches
    <3>2. actor'[k] = actor[k]
      BY <1>3, <1>4, <3>1, ActorKinds
    <3>3. actor[k].caller \in Workers /\ actor[k].caller # w
      BY <1>3, <2>1, <3>1, <3>2, ActorKinds DEF PaymentTypeOK, Jobs
    <3> QED BY <1>7, <3>2, <3>3, ActorKinds
  <2> QED BY <1>9, <2>1, CallersKept
<1> QED BY <1>9, <1>11, <1>12, <1>13 DEF PaymentInv, DataMatches

-----------------------------------------------------------------------------
(* The theorems *)

LEMMA InitInv ==
    ASSUME Init
    PROVE  PaymentInv
<1>1. PaymentTypeOK
  BY InitTypes
<1>2. /\ \A p \in Payments : actor[p].at = "new" /\ actor[p].pay = p
      /\ \A a \in Workers \cup Handlers : actor[a] = Idle
  BY ActorKinds DEF Init, Job
<1>3. /\ Idle.at = "idle" /\ Idle.msg = "NEW" /\ Idle.reply = "ERROR"
      /\ ~Idle.giveUp /\ Idle.caller = NoActor
  BY DEF Idle, Job
<1>4. /\ \A p \in Payments, m \in Messages : ~HasRow(p, m) /\ inbox[p][m] = "ERROR"
      /\ \A p \in Payments : banking[p] = "PROCESSING"
      /\ \A b \in Banks, p \in Payments : record[b][p] = "NONE" /\ ~Committed(b, p)
  BY DEF Init, HasRow, NoRow, Committed
<1>5. RecordsMatch /\ RowsMatch /\ CreditIsBacked /\ SentCommitIsCredited
  BY <1>4, BankOf DEF RecordsMatch, RowsMatch, CreditIsBacked, SentCommitIsCredited, HasRow
<1>6. InboxMatches
  BY <1>4 DEF InboxMatches, AnswerMatches
<1>7. InitiatorsMatch
  BY <1>2, <1>4 DEF InitiatorsMatch, At, Pay
<1>8. \A w \in Workers : WorkerMatches(w)
  BY <1>2, <1>3 DEF WorkerMatches, At, Deciding
<1>9. \A h \in Handlers : HandlerMatches(h) /\ CallerMatches(h)
  BY <1>2, <1>3 DEF HandlerMatches, CallerMatches, AnswerMatches, At
<1> QED BY <1>5, <1>6, <1>7, <1>8, <1>9 DEF PaymentInv

LEMMA StillInv ==
    ASSUME PaymentTypeOK, PaymentInv, UNCHANGED vars
    PROVE  PaymentInv'
<1>1. \A a \in Actors : Stays(a) /\ actor'[a] = actor[a]
  BY DEF Stays, vars
<1>2. Evolves
  BY <1>1, ActorKinds, OthersInitiate, StillEvolves DEF Evolves, vars, bankVars
<1>3. DataMatches /\ ActorsMatch /\ DataMatches' /\ Grows
  BY <1>2, InvParts, DataKept, ClaimsGrow
<1>4. ActorsMatch'
  <2>1. \A h \in Handlers : CallerMatches(h)'
    BY <1>3 DEF vars, ActorsMatch, CallerMatches, At, Pay
  <2> QED BY <1>1, <1>3, <2>1, Stayers, ActorKinds DEF ActorsMatch
<1> QED BY <1>3, <1>4 DEF PaymentInv, DataMatches, ActorsMatch

LEMMA InvStep ==
    ASSUME PaymentTypeOK, PaymentInv, [Next]_vars
    PROVE  PaymentInv'
<1>1. CASE UNCHANGED vars
  BY <1>1, StillInv
<1>2. CASE \E p \in Payments : Initiate(p) \/ EnqueueNewTx(p) \/ Reject(p)
  BY <1>2, InitiateInv, EnqueueNewTxInv, RejectInv
<1>3. CASE \E a \in Payments \cup Handlers : Reserve(a) \/ Confirm(a) \/ Refuse(a)
  BY <1>3, ReserveInv, ConfirmInv, RefuseInv
<1>4. CASE \E h \in Handlers : Prepare(h) \/ Create(h) \/ Answer(h)
  BY <1>4, PrepareInv, CreateInv, AnswerInv
<1>5. CASE \E a \in Workers \cup Handlers : LocalTransaction(a)
  BY <1>5, ReadForCommitInv, BankCommitInv, SaveCommitInv,
     ReadForRollbackInv, BankRollbackInv, SaveRollbackInv DEF LocalTransaction
<1>6. ASSUME NEW w \in Workers,
             \/ \E p \in Payments, m \in Messages : Claim(w, p, m)
             \/ \E h \in Handlers : Send(w, h) \/ SendCommit(w, h)
             \/ NoAnswer(w) \/ Retry(w) \/ EnqueueFollowUp(w)
             \/ ReportPaid(w) \/ ReportFailed(w) \/ MarkSent(w) \/ MarkFailed(w)
      PROVE  PaymentInv'
  BY <1>6, ClaimInv, SendInv, NoAnswerInv, RetryInv, EnqueueFollowUpInv, ReportInv, MarkInv
<1>7. CASE \E p \in Payments, m \in Messages : LeaseLapses(p, m)
  BY <1>7, LapseInv
<1>8. CASE \E a \in Actors : Crash(a)
  BY <1>8, CrashInv
<1> QED BY <1>1, <1>2, <1>3, <1>4, <1>5, <1>6, <1>7, <1>8, StepCases

(***************************************************************************)
(* Behind every record, row, answer and message of a payment there is what  *)
(* it claims, whatever is lost, repeated, overtaken, given up or crashes: a *)
(* COMMITTED record has a committed posting, a COMMIT_TX a debited payer    *)
(* and a vote of the payee's bank.                                         *)
(***************************************************************************)
THEOREM PaymentInvariant == Spec => []PaymentInv
<1>1. Init => PaymentInv
  BY InitInv
<1>2. PaymentTypeOK /\ PaymentInv /\ [Next]_vars => PaymentInv'
  BY InvStep
<1> QED BY <1>1, <1>2, PaymentTypes, PTL DEF Spec

(***************************************************************************)
(* The payee's bank credits nothing that the payer's bank has not debited.  *)
(***************************************************************************)
THEOREM CreditIsAlwaysBacked == Spec => []CreditIsBacked
<1>1. PaymentInv => CreditIsBacked
  BY DEF PaymentInv
<1> QED BY <1>1, PaymentInvariant, PTL

(***************************************************************************)
(* A COMMIT_TX that the payer's bank has marked as sent is credited.        *)
(***************************************************************************)
THEOREM SentCommitIsAlwaysCredited == Spec => []SentCommitIsCredited
<1>1. PaymentInv => SentCommitIsCredited
  BY DEF PaymentInv
<1> QED BY <1>1, PaymentInvariant, PTL

(***************************************************************************)
(* A payment that banking shows as completed is debited, and the outbox has *)
(* a COMMIT_TX of it.                                                      *)
(***************************************************************************)
THEOREM CompletedIsAlwaysPaid == Spec => []CompletedIsPaid
<1>1. PaymentInv => CompletedIsPaid
  BY DEF PaymentInv, RowsMatch, CompletedIsPaid, Backed, HasRow
<1> QED BY <1>1, PaymentInvariant, PTL

-----------------------------------------------------------------------------
(* The invariant behind PaidCanBeCredited and UndisturbedIsFreed: what holds *)
(* of a payment as long as no call for it has failed or lost its answer      *)

Calm(p)        == p \notin disturbed
Ongoing(p)     == Calm(p) /\ ~HasRow(p, "ROLLBACK")
Reserved(b, p) == posting[b][p] \in {"PREPARED", "COMMITTED"}

\* The payee's bank can still credit the payee.
Kept(p) == record["payee"][p] \in {"PREPARED", "COMMITTED"} /\ Reserved("payee", p)

NewAnswers == {"YES", "NO", "ERROR"}

PaymentCalm(p) ==
    /\ \A m \in Messages : HasRow(p, m) => At(p, "end")
    /\ At(p, "reserve") => record["payer"][p] = "PREPARING"
    /\ inbox[p]["NEW"] \in NewAnswers
    /\ ~willing["payee"][p] => posting["payee"][p] = "NONE"
    /\ Calm(p) /\ (record["payer"][p] = "ROLLED_BACK" \/ At(p, "refuse") \/ Dealt(p)) => ~Held(p)
    /\ Ongoing(p) /\ record["payee"][p] \in {"PREPARED", "COMMITTED"} => Reserved("payee", p)
    /\ Ongoing(p) /\ (inbox[p]["NEW"] = "YES" \/ Committed("payer", p)) => Kept(p)

\* Where the vote on a NEW_TX has taken effect in the payer's bank.
Effected == {"saveCommit", "enqueue", "saveRollback", "reportPaid", "reportFailed", "sync",
             "syncWait", "markSent", "markFailed"}

WorkerCalm(w) ==
    /\ Calm(Pay(w)) /\ actor[w].msg = "NEW" /\ actor[w].at \in Effected => ~Held(Pay(w))
    /\ Ongoing(Pay(w)) /\ actor[w].at \in {"commit", "bankCommit"} => Kept(Pay(w))

HandlerCalm(h) ==
    /\ actor[h].msg = "NEW" => actor[h].reply \in NewAnswers
    /\ actor[h].msg = "ROLLBACK" => HasRow(Pay(h), "ROLLBACK")
    /\ Ongoing(Pay(h)) /\ At(h, "confirm") => Reserved("payee", Pay(h))
    /\ Ongoing(Pay(h)) /\ At(h, "refuse") => ~willing["payee"][Pay(h)]
    /\ Ongoing(Pay(h)) /\ actor[h].reply = "YES" => Kept(Pay(h))

CalmInv ==
    /\ \A p \in Payments : PaymentCalm(p)
    /\ \A w \in Workers : WorkerCalm(w)
    /\ \A h \in Handlers : HandlerCalm(h)

-----------------------------------------------------------------------------
(* What a step may take away from an undisturbed payment, and what it leaves *)

\* Nothing that the invariant says of p is touched, but for calls that fail.
Quiet(p) ==
    /\ \A b \in Banks : record'[b][p] = record[b][p] /\ posting'[b][p] = posting[b][p]
    /\ willing'["payee"][p] = willing["payee"][p]
    /\ \A m \in Messages : outbox'[p][m].status = outbox[p][m].status
    /\ inbox'[p]["NEW"] = inbox[p]["NEW"]
    /\ actor'[p].at \in {actor[p].at, "end"}
    /\ p \in disturbed => p \in disturbed'

\* What the actors that work at p can rely on.
Steady(p) ==
    /\ Calm(p)' => Calm(p)
    /\ \A m \in Messages : HasRow(p, m) => HasRow(p, m)'
    /\ willing'["payee"][p] = willing["payee"][p]
    /\ Calm(p)' /\ At(p, "end") /\ ~Held(p) => ~Held(p)'
    /\ Ongoing(p)' /\ Reserved("payee", p) => Reserved("payee", p)'
    /\ Ongoing(p)' /\ Kept(p) => Kept(p)'

LEMMA QuietPayment ==
    ASSUME NEW p \in Payments, PaymentCalm(p), Quiet(p)
    PROVE  Steady(p) /\ PaymentCalm(p)'
<1>1. /\ \A m \in Messages : HasRow(p, m)' <=> HasRow(p, m)
      /\ HasRow(p, "ROLLBACK")' <=> HasRow(p, "ROLLBACK")
      /\ Dealt(p)' <=> Dealt(p)
  BY BankOf DEF Quiet, HasRow, Dealt
<1>2. /\ Calm(p)' => Calm(p)
      /\ Ongoing(p)' => Ongoing(p)
  BY <1>1 DEF Quiet, Calm, Ongoing
<1>3. /\ Held(p)' <=> Held(p)
      /\ Kept(p)' <=> Kept(p)
      /\ Reserved("payee", p)' <=> Reserved("payee", p)
      /\ Committed("payer", p)' <=> Committed("payer", p)
  BY BankOf DEF Quiet, Held, Kept, Reserved, Committed
<1>4. Steady(p)
  BY <1>1, <1>2, <1>3 DEF Steady, Quiet
<1>5. PaymentCalm(p)'
  BY <1>1, <1>2, <1>3, BankOf DEF PaymentCalm, Quiet, At
<1> QED BY <1>4, <1>5

\* An actor that does not move keeps what it claims.
LEMMA CalmStayers ==
    ASSUME PaymentTypeOK, PaymentInv, CalmInv, \A p \in Payments : Steady(p)
    PROVE  /\ \A w \in Workers : Stays(w) => WorkerCalm(w)'
           /\ \A h \in Handlers : Stays(h) => HandlerCalm(h)'
<1>1. ASSUME NEW p \in Payments
      PROVE  (Ongoing(p)' => Ongoing(p)) /\ (HasRow(p, "ROLLBACK") => HasRow(p, "ROLLBACK")')
  BY BankOf DEF Steady, Ongoing
<1>2. ASSUME NEW w \in Workers, Stays(w) PROVE WorkerCalm(w)'
  <2>1. PICK p \in Payments : p = actor[w].pay
    BY PayTypes, ActorKinds DEF Pay
  <2>2. WorkerCalm(w) /\ WorkerMatches(w) /\ PaymentCalm(p) /\ Steady(p)
    BY <2>1 DEF CalmInv, PaymentInv
  <2>3. actor[w].msg = "NEW" /\ actor[w].at \in Effected => At(p, "end")
    BY <2>1, <2>2, BankOf DEF WorkerMatches, At, Pay, Effected, PaymentCalm
  <2>4. Calm(p)' /\ actor'[w].msg = "NEW" /\ actor'[w].at \in Effected => ~Held(p)'
    BY <1>2, <2>1, <2>2, <2>3 DEF WorkerCalm, Stays, Steady, Pay
  <2>5. Ongoing(p)' /\ actor'[w].at \in {"commit", "bankCommit"} => Kept(p)'
    BY <1>1, <1>2, <2>1, <2>2 DEF WorkerCalm, Stays, Steady, Pay
  <2> QED BY <1>2, <2>1, <2>4, <2>5 DEF WorkerCalm, Stays, Pay
<1>3. ASSUME NEW h \in Handlers, Stays(h) PROVE HandlerCalm(h)'
  <2>1. PICK p \in Payments : p = actor[h].pay
    BY PayTypes, ActorKinds DEF Pay
  <2>2. HandlerCalm(h) /\ Steady(p) /\ actor'[h].pay = p
    BY <1>3, <2>1 DEF CalmInv, Stays
  <2> QED BY <1>1, <1>3, <2>1, <2>2 DEF HandlerCalm, Stays, Steady, Pay, At
<1> QED BY <1>2, <1>3

\* A step about the payment p.
LEMMA CalmStep ==
    ASSUME PaymentTypeOK, PaymentInv, CalmInv, NEW p \in Payments,
           \A q \in Payments \ {p} : Quiet(q), Quiet(p) \/ (Steady(p) /\ PaymentCalm(p)'),
           \A w \in Workers : Stays(w) \/ WorkerCalm(w)',
           \A h \in Handlers : Stays(h) \/ HandlerCalm(h)'
    PROVE  CalmInv'
<1>1. \A q \in Payments : Steady(q) /\ PaymentCalm(q)'
  BY QuietPayment DEF CalmInv
<1> QED BY <1>1, CalmStayers DEF CalmInv

\* A step that one actor takes, about its payment.
LEMMA CalmMove ==
    ASSUME PaymentTypeOK, PaymentInv, CalmInv, NEW a \in Actors, NEW p \in Payments,
           \A b \in Actors \ {a} : actor'[b] = actor[b],
           \A q \in Payments \ {p} : Quiet(q), Quiet(p) \/ (Steady(p) /\ PaymentCalm(p)'),
           a \in Workers => WorkerCalm(a)',
           a \in Handlers => HandlerCalm(a)'
    PROVE  CalmInv'
<1>1. \A b \in Actors \ {a} : Stays(b)
  BY DEF Stays
<1> QED BY <1>1, ActorKinds, CalmStep

LEMMA CalmParts ==
    ASSUME PaymentTypeOK, PaymentInv, CalmInv, NEW a \in Actors
    PROVE  /\ Pay(a) \in Payments /\ PaymentCalm(Pay(a)) /\ Bank(a) \in Banks
           /\ a \in Workers => WorkerCalm(a) /\ WorkerMatches(a) /\ Bank(a) = "payer"
           /\ a \in Handlers => HandlerCalm(a) /\ HandlerMatches(a) /\ Bank(a) = "payee"
           /\ a \in Payments => Pay(a) = a /\ Bank(a) = "payer"
  BY PayTypes, BankOf, BankTypes DEF CalmInv, PaymentInv, InitiatorsMatch

\* Who is disturbed by a fault.
LEMMA Disturbance ==
    ASSUME NEW a
    PROVE  /\ Fails(a) \/ Unanswered(a) => disturbed' = disturbed \cup {Pay(a)}
           /\ UNCHANGED faultVars => disturbed' = disturbed
  BY DEF Fails, Unanswered, Disturbs, faultVars

\* What the rows of the outbox look like when one of them is changed.
LEMMA ChangedRow ==
    ASSUME PaymentTypeOK, NEW p \in Payments, NEW m \in Messages, NEW row,
           outbox' = [outbox EXCEPT ![p][m] = row]
    PROVE  \A q \in Payments, n \in Messages :
               outbox'[q][n].status = IF q = p /\ n = m THEN row.status
                                      ELSE outbox[q][n].status
<1>1. \A q \in Payments, n \in Messages :
          outbox'[q][n] = IF q = p /\ n = m THEN row ELSE outbox[q][n]
  BY DEF PaymentTypeOK
<1> QED BY <1>1

LEMMA RowKeepsStatus ==
    ASSUME PaymentTypeOK, NEW p \in Payments, NEW m \in Messages, NEW x, NEW n,
           \/ outbox' = [outbox EXCEPT ![p][m].leased = x]
           \/ outbox' = [outbox EXCEPT ![p][m].attempts = n, ![p][m].leased = x]
    PROVE  \A q \in Payments, k \in Messages : outbox'[q][k].status = outbox[q][k].status
<1>1. outbox[p][m] \in Rows
  BY DEF PaymentTypeOK
<1>2. CASE outbox' = [outbox EXCEPT ![p][m].leased = x]
  <2>1. outbox' = [outbox EXCEPT ![p][m] = [outbox[p][m] EXCEPT !.leased = x]]
    BY <1>2
  <2>2. [outbox[p][m] EXCEPT !.leased = x].status = outbox[p][m].status
    BY <1>1 DEF Rows
  <2> QED BY <2>1, <2>2, ChangedRow
<1>3. CASE outbox' = [outbox EXCEPT ![p][m].attempts = n, ![p][m].leased = x]
  <2>1. outbox' = [outbox EXCEPT ![p][m] = [outbox[p][m] EXCEPT !.attempts = n, !.leased = x]]
    BY <1>3 DEF PaymentTypeOK
  <2>2. [outbox[p][m] EXCEPT !.attempts = n, !.leased = x].status = outbox[p][m].status
    BY <1>1 DEF Rows
  <2> QED BY <2>1, <2>2, ChangedRow
<1> QED BY <1>2, <1>3

-----------------------------------------------------------------------------
(* The steps of an undisturbed payment *)

LEMMA InitiateCalm ==
    ASSUME PaymentTypeOK, PaymentInv, CalmInv, NEW p \in Payments, Initiate(p)
    PROVE  CalmInv'
<1>1. p \in Actors /\ Pay(p) = p /\ Bank(p) = "payer" /\ At(p, "new") /\ PaymentCalm(p)
  BY ActorKinds, CalmParts DEF Initiate
<1>2. Moves(p) /\ actor'[p].at \in {"reserve", "reject"}
  BY <1>1, GoMoves DEF Initiate
<1>3. /\ \A b \in Banks, q \in Payments : q # p \/ b # "payer" => record'[b][q] = record[b][q]
      /\ disturbed \subseteq disturbed'
      /\ actor'[p].at = "reserve" => record'["payer"][p] = "PREPARING"
      /\ record'["payer"][p] \in {"PREPARING", record["payer"][p]}
  <2>1. CASE SaveRecord(p, "PREPARING") /\ UNCHANGED faultVars
    BY <1>1, <2>1, SavedRecord, Disturbance, BankOf
  <2>2. CASE Fails(p) /\ Go(p, "reject") /\ UNCHANGED record
    BY <1>1, <2>2, GoMoves, Disturbance
  <2> QED BY <2>1, <2>2 DEF Initiate
<1>4. \A q \in Payments \ {p} : Quiet(q)
  BY <1>2, <1>3, ActorKinds DEF Initiate, Quiet, Moves
<1>5. \A m \in Messages : ~HasRow(p, m) /\ ~HasRow(p, m)'
  BY <1>1 DEF PaymentCalm, At, Initiate, HasRow
<1>6. Steady(p)
  BY <1>1, <1>3, <1>5, BankOf
     DEF Initiate, Steady, Calm, At, Ongoing, Reserved, Kept, HasRow, Held
<1>7. PaymentCalm(p)'
  BY <1>1, <1>2, <1>3, <1>5, <1>6, BankOf
     DEF Initiate, PaymentCalm, Steady, Calm, At, Ongoing, Dealt, HasRow, Held, Reserved, Kept,
         Committed
<1> QED BY <1>1, <1>2, <1>4, <1>6, <1>7, ActorKinds, CalmMove DEF Moves

LEMMA EnqueueNewTxCalm ==
    ASSUME PaymentTypeOK, PaymentInv, CalmInv, NEW p \in Payments, EnqueueNewTx(p)
    PROVE  CalmInv'
<1>1. p \in Actors /\ Pay(p) = p /\ At(p, "enqueue") /\ PaymentCalm(p)
  BY ActorKinds, CalmParts DEF EnqueueNewTx
<1>2. Moves(p) /\ actor'[p].at \in {"end", "reject"}
  BY <1>1, GoMoves DEF EnqueueNewTx
<1>3. /\ disturbed \subseteq disturbed'
      /\ \A q \in Payments \ {p}, m \in Messages : outbox'[q][m].status = outbox[q][m].status
      /\ \A m \in Messages : outbox'[p][m].status \in {outbox[p][m].status, "PENDING"}
      /\ \A m \in Messages : HasRow(p, m)' => actor'[p].at = "end"
  <2>1. CASE Enqueue(p, "NEW") /\ Go(p, "end") /\ UNCHANGED faultVars
    BY <1>1, <2>1, GoMoves, EnqueuedRow, Disturbance, BankOf
  <2>2. CASE Fails(p) /\ UNCHANGED outbox
    BY <1>1, <2>2, Disturbance DEF PaymentCalm, At, HasRow
  <2> QED BY <2>1, <2>2 DEF EnqueueNewTx
<1>4. \A q \in Payments \ {p} : Quiet(q)
  BY <1>2, <1>3, ActorKinds DEF EnqueueNewTx, Quiet, Moves, bankVars
<1>5. \A m \in Messages : ~HasRow(p, m)
  BY <1>1 DEF PaymentCalm, At
<1>6. Steady(p)
  BY <1>1, <1>3, <1>5, BankOf
     DEF EnqueueNewTx, bankVars, Steady, Calm, At, Ongoing, Reserved, Kept, HasRow, Held
<1>7. PaymentCalm(p)'
  BY <1>1, <1>2, <1>3, <1>5, <1>6, BankOf
     DEF EnqueueNewTx, bankVars, PaymentCalm, Steady, Calm, At, Ongoing, Dealt, HasRow, Held,
         Reserved, Kept, Committed
<1> QED BY <1>1, <1>2, <1>4, <1>6, <1>7, ActorKinds, CalmMove DEF Moves

LEMMA RejectCalm ==
    ASSUME PaymentTypeOK, PaymentInv, CalmInv, NEW p \in Payments, Reject(p)
    PROVE  CalmInv'
<1>1. p \in Actors /\ Moves(p) /\ actor'[p].at = "end"
  BY ActorKinds, GoMoves DEF Reject
<1>2. disturbed \subseteq disturbed'
  BY Disturbance DEF Reject
<1>3. \A q \in Payments : Quiet(q)
  BY <1>1, <1>2, ActorKinds DEF Reject, Quiet, Moves, bankVars
<1> QED BY <1>1, <1>3, ActorKinds, CalmMove DEF Moves

\* Phase 1 in the payee's bank.
LEMMA PrepareCalm ==
    ASSUME PaymentTypeOK, PaymentInv, CalmInv, NEW h \in Handlers, Prepare(h)
    PROVE  CalmInv'
<1>1. PICK p \in Payments : p = Pay(h)
  BY ActorKinds, PayTypes
<1>2. /\ h \in Actors /\ Bank(h) = "payee" /\ At(h, "prepare") /\ HandlerCalm(h)
      /\ actor[h].msg = "NEW" /\ PaymentCalm(p)
  BY <1>1, ActorKinds, CalmParts DEF Prepare, HandlerMatches, At
<1>3. /\ Moves(h) /\ actor'[h].at \notin {"confirm", "refuse"}
      /\ actor'[h].reply \in {actor[h].reply, "YES", "NO"}
      /\ actor'[h].reply # actor[h].reply /\ actor'[h].reply = "YES" =>
             record["payee"][p] \in {"PREPARED", "COMMITTED"}
      /\ disturbed \subseteq disturbed'
  <2>1. disturbed \subseteq disturbed'
    BY Disturbance DEF Prepare
  <2>2. ASSUME NEW place \in {"create", "reserve", "answer"}, Go(h, place)
        PROVE  Moves(h) /\ actor'[h].at = place /\ actor'[h].reply = actor[h].reply
    BY <1>2, <2>2, GoMoves
  <2>3. ASSUME NEW reply \in {"YES", "NO"}, Reply(h, "vote", reply)
        PROVE  Moves(h) /\ actor'[h].at = "vote" /\ actor'[h].reply = reply
    BY <1>2, <2>3, GoMoves
  <2>4. CASE Reply(h, "vote", "NO")
    BY <2>1, <2>3, <2>4
  <2>5. CASE record["payee"][p] \in {"PREPARED", "COMMITTED"} /\ Reply(h, "vote", "YES")
    BY <2>1, <2>3, <2>5
  <2> QED BY <1>1, <1>2, <2>1, <2>2, <2>4, <2>5 DEF Prepare, Record
<1>4. \A q \in Payments : Quiet(q)
  BY <1>3, ActorKinds DEF Prepare, Quiet, Moves, bankVars
<1>5. Steady(p)
  BY <1>2, <1>4, QuietPayment
<1>6. HandlerCalm(h)'
  <2>1. Ongoing(p)' => Ongoing(p)
    BY <1>5, BankOf DEF Steady, Ongoing
  <2>2. Ongoing(p)' /\ actor'[h].reply = "YES" => Kept(p)'
    BY <1>1, <1>2, <1>3, <1>5, <2>1 DEF HandlerCalm, PaymentCalm, Kept, Steady
  <2> QED BY <1>1, <1>2, <1>3, <2>2, BankOf DEF HandlerCalm, NewAnswers, Moves, At, Pay
<1> QED BY <1>2, <1>3, <1>4, <1>6, ActorKinds, CalmMove DEF Moves

LEMMA CreateCalm ==
    ASSUME PaymentTypeOK, PaymentInv, CalmInv, NEW h \in Handlers, Create(h)
    PROVE  CalmInv'
<1>1. PICK p \in Payments : p = Pay(h)
  BY ActorKinds, PayTypes
<1>2. /\ h \in Actors /\ Bank(h) = "payee" /\ At(h, "create") /\ HandlerCalm(h)
      /\ actor[h].msg = "NEW" /\ PaymentCalm(p)
  BY <1>1, ActorKinds, CalmParts DEF Create, HandlerMatches, At
<1>3. /\ Moves(h) /\ actor'[h].at \in {"reserve", "answer"}
      /\ actor'[h].reply = actor[h].reply
      /\ disturbed \subseteq disturbed'
  BY <1>2, GoMoves, Disturbance DEF Create
<1>4. /\ \A b \in Banks, q \in Payments : q # p \/ b # "payee" => record'[b][q] = record[b][q]
      /\ \/ record'["payee"][p] = record["payee"][p]
         \/ record["payee"][p] = "NONE" /\ record'["payee"][p] = "PREPARING"
  <2>1. CASE SaveRecord(h, "PREPARING") /\ Record(h) = "NONE"
    BY <1>1, <1>2, <2>1, SavedRecord, BankOf DEF Record
  <2>2. CASE UNCHANGED record
    BY <2>2
  <2> QED BY <2>1, <2>2 DEF Create
<1>5. \A q \in Payments \ {p} : Quiet(q)
  BY <1>3, <1>4, ActorKinds DEF Create, Quiet, Moves
<1>6. Steady(p) /\ At(p, "end")' = At(p, "end")
  BY <1>3, <1>4, ActorKinds, BankOf
     DEF Create, Steady, Calm, At, Ongoing, Reserved, Kept, HasRow, Held, Moves
<1>7. PaymentCalm(p)'
  BY <1>2, <1>3, <1>4, <1>6, ActorKinds, BankOf
     DEF Create, PaymentCalm, Steady, Calm, At, Ongoing, Dealt, HasRow, Held, Reserved, Kept,
         Committed, Moves
<1>8. HandlerCalm(h)'
  BY <1>1, <1>2, <1>3, <1>6, BankOf DEF HandlerCalm, Steady, Ongoing, Moves, At, Pay
<1> QED BY <1>2, <1>3, <1>5, <1>6, <1>7, <1>8, ActorKinds, CalmMove DEF Moves

\* Phases 2 and 3 in the payer's bank, before there is any row of the payment.
LEMMA InitiatorPhaseCalm ==
    ASSUME PaymentTypeOK, PaymentInv, CalmInv, NEW p \in Payments,
           Reserve(p) \/ Confirm(p) \/ Refuse(p)
    PROVE  CalmInv'
<1>1. /\ p \in Actors /\ p \notin Handlers /\ Pay(p) = p /\ Bank(p) = "payer"
      /\ actor[p].at \in {"reserve", "confirm", "refuse"} /\ PaymentCalm(p)
  BY ActorKinds, CalmParts DEF Reserve, Confirm, Refuse, At
<1>2. /\ Moves(p) /\ actor'[p].at \in {"confirm", "refuse", "enqueue", "reject"}
      /\ disturbed \subseteq disturbed'
  BY <1>1, GoMoves, Disturbance DEF Reserve, Confirm, Refuse, Confirmed, Broken
<1>3. \A m \in Messages : ~HasRow(p, m) /\ ~HasRow(p, m)'
  BY <1>1 DEF PaymentCalm, At, Reserve, Confirm, Refuse, HasRow
<1>4. /\ \A b \in Banks, q \in Payments : q # p \/ b # "payer" =>
             record'[b][q] = record[b][q] /\ posting'[b][q] = posting[b][q]
      /\ posting'["payer"][p] = "COMMITTED" => posting["payer"][p] = "COMMITTED"
      /\ p \notin disturbed' /\ (record'["payer"][p] = "ROLLED_BACK" \/ actor'[p].at = "refuse")
             => posting'["payer"][p] # "PREPARED"
  <2>1. CASE Reserve(p)
    <3>1. record'["payer"][p] = "PREPARING" /\ UNCHANGED record
      BY <1>1, <2>1 DEF PaymentCalm, Reserve, At
    <3>2. CASE SavePosting(p, "PREPARED") /\ (Go(p, "confirm") \/ Unanswered(p))
      BY <1>1, <3>1, <3>2, SavedPosting, GoMoves, Disturbance, BankOf
    <3>3. CASE UNCHANGED posting /\ (Go(p, "confirm") \/ Fails(p))
      BY <1>1, <3>1, <3>3, GoMoves, Disturbance
    <3>4. CASE UNCHANGED posting /\ Posting(p) \notin {"PREPARED", "COMMITTED"}
      BY <1>1, <3>1, <3>4 DEF Posting
    <3> QED BY <2>1, <3>2, <3>3, <3>4 DEF Reserve
  <2>2. CASE Confirm(p)
    <3>1. actor'[p].at # "refuse" /\ UNCHANGED posting
      BY <1>1, <2>2, GoMoves DEF Confirm, Confirmed, Broken
    <3>2. CASE SaveRecord(p, "PREPARED")
      BY <1>1, <3>1, <3>2, SavedRecord, BankOf
    <3>3. CASE UNCHANGED record /\ Fails(p)
      BY <1>1, <3>1, <3>3, Disturbance
    <3> QED BY <2>2, <3>2, <3>3 DEF Confirm
  <2>3. CASE Refuse(p)
    <3>1. UNCHANGED posting /\ (p \notin disturbed' => posting["payer"][p] # "PREPARED")
      BY <1>1, <1>2, <2>3 DEF Refuse, PaymentCalm, At, Calm, Held
    <3>2. \A b \in Banks, q \in Payments : q # p \/ b # "payer" => record'[b][q] = record[b][q]
      BY <1>1, <2>3, SavedRecord DEF Refuse
    <3> QED BY <3>1, <3>2
  <2> QED BY <1>1, <2>1, <2>2, <2>3
<1>5. UNCHANGED <<willing, outbox, inbox>>
  BY DEF Reserve, Confirm, Refuse
<1>6. \A q \in Payments \ {p} : Quiet(q)
  BY <1>2, <1>4, <1>5, ActorKinds DEF Quiet, Moves
<1>7. Steady(p)
  BY <1>1, <1>2, <1>3, <1>4, <1>5, BankOf DEF Steady, Calm, At, Ongoing, Reserved, Kept
<1>8. PaymentCalm(p)'
  BY <1>1, <1>2, <1>3, <1>4, <1>5, <1>7, BankOf
     DEF PaymentCalm, Steady, Calm, At, Ongoing, Dealt, HasRow, Held, Reserved, Kept, Committed
<1> QED BY <1>1, <1>2, <1>6, <1>7, <1>8, ActorKinds, CalmMove DEF Moves

\* Phases 2 and 3 in the payee's bank: one answer of banking for all deliveries.
LEMMA HandlerPhaseCalm ==
    ASSUME PaymentTypeOK, PaymentInv, CalmInv, NEW h \in Handlers,
           Reserve(h) \/ Confirm(h) \/ Refuse(h)
    PROVE  CalmInv'
<1>1. PICK p \in Payments : p = Pay(h)
  BY ActorKinds, PayTypes
<1>2. /\ h \in Actors /\ Bank(h) = "payee" /\ HandlerCalm(h) /\ PaymentCalm(p)
      /\ actor[h].msg = "NEW" /\ actor[h].at \in {"reserve", "confirm", "refuse"}
  BY <1>1, ActorKinds, CalmParts DEF Reserve, Confirm, Refuse, HandlerMatches, At
<1>3. /\ Moves(h) /\ actor'[h].at \in {"confirm", "refuse", "vote", "answer"}
      /\ actor'[h].reply \in {actor[h].reply, "YES", "NO"}
      /\ disturbed \subseteq disturbed'
  BY <1>2, GoMoves, Disturbance DEF Reserve, Confirm, Refuse, Confirmed, Broken
<1>4. /\ UNCHANGED <<willing, outbox, inbox>>
      /\ Ongoing(p)' => Ongoing(p)
      /\ \A m \in Messages : HasRow(p, m)' <=> HasRow(p, m)
  BY <1>3 DEF Reserve, Confirm, Refuse, Ongoing, Calm, HasRow
<1>5. \A b \in Banks, q \in Payments : q # p \/ b # "payee" =>
          record'[b][q] = record[b][q] /\ posting'[b][q] = posting[b][q]
  BY <1>1, <1>2, SavedRecord, SavedPosting DEF Reserve, Confirm, Refuse
<1>6. /\ Ongoing(p)' /\ Reserved("payee", p) => Reserved("payee", p)'
      /\ Ongoing(p)' /\ Kept(p) => Kept(p)'
      /\ ~willing["payee"][p] => posting'["payee"][p] = "NONE"
      /\ Ongoing(p)' /\ record'["payee"][p] \in {"PREPARED", "COMMITTED"} => Reserved("payee", p)'
      /\ Ongoing(p)' /\ actor'[h].at = "confirm" => Reserved("payee", p)'
      /\ Ongoing(p)' /\ actor'[h].at = "refuse" => ~willing["payee"][p]
      /\ Ongoing(p)' /\ actor'[h].reply = "YES" => Kept(p)'
  <2>1. CASE Reserve(h)
    <3>1. UNCHANGED record /\ actor'[h].reply = actor[h].reply
      BY <1>2, <2>1, GoMoves DEF Reserve
    <3>2. CASE /\ SavePosting(h, "PREPARED") /\ willing["payee"][p]
               /\ Go(h, "confirm") \/ Unanswered(h)
      <4>1. posting'["payee"][p] = "PREPARED"
        BY <1>1, <1>2, <3>2, SavedPosting, BankOf
      <4>2. actor'[h].at = "refuse" => p \in disturbed'
        BY <1>1, <1>2, <3>2, GoMoves, Disturbance
      <4> QED BY <1>1, <1>2, <1>4, <3>1, <3>2, <4>1, <4>2
              DEF Ongoing, Calm, Reserved, Kept, PaymentCalm, HandlerCalm
    <3>3. CASE UNCHANGED posting /\ Reserved("payee", p) /\ Go(h, "confirm")
      BY <1>1, <1>2, <1>4, <3>1, <3>3, GoMoves
         DEF Ongoing, Calm, Reserved, Kept, PaymentCalm, HandlerCalm
    <3>4. CASE UNCHANGED posting /\ Go(h, "refuse") /\ (Fails(h) \/ ~willing["payee"][p])
      BY <1>1, <1>2, <1>4, <3>1, <3>4, GoMoves, Disturbance
         DEF Ongoing, Calm, Reserved, Kept, PaymentCalm, HandlerCalm
    <3> QED BY <1>1, <1>2, <2>1, <3>2, <3>3, <3>4 DEF Reserve, Posting, Reserved
  <2>2. CASE Confirm(h)
    <3>1. UNCHANGED posting /\ (Ongoing(p) => Reserved("payee", p))
          /\ actor'[h].at \in {"vote", "answer"}
      BY <1>1, <1>2, <2>2, GoMoves DEF Confirm, Confirmed, Broken, HandlerCalm, At
    <3>2. CASE SaveRecord(h, "PREPARED")
      BY <1>1, <1>2, <1>4, <3>1, <3>2, SavedRecord, BankOf
         DEF Reserved, Kept, PaymentCalm, HandlerCalm
    <3>3. CASE UNCHANGED record /\ Fails(h)
      BY <1>1, <1>2, <1>4, <3>1, <3>3, Disturbance DEF Ongoing, Calm, PaymentCalm
    <3> QED BY <2>2, <3>2, <3>3 DEF Confirm
  <2>3. CASE Refuse(h)
    <3>1. /\ UNCHANGED posting /\ (Ongoing(p) => ~willing["payee"][p])
          /\ actor'[h].at = "vote" /\ actor'[h].reply = "NO"
      BY <1>1, <1>2, <2>3, GoMoves DEF Refuse, HandlerCalm, At
    <3>2. Ongoing(p) => ~Reserved("payee", p) /\ ~Kept(p)
      BY <1>2, <3>1 DEF PaymentCalm, Reserved, Kept
    <3>3. record'["payee"][p] \in {record["payee"][p], "ROLLED_BACK"}
      BY <1>1, <1>2, <2>3, SavedRecord, BankOf DEF Refuse
    <3> QED BY <1>2, <1>4, <3>1, <3>2, <3>3 DEF PaymentCalm, Reserved
  <2> QED BY <2>1, <2>2, <2>3
<1>7. \A q \in Payments \ {p} : Quiet(q)
  BY <1>3, <1>4, <1>5, ActorKinds DEF Quiet, Moves
<1>8. Steady(p)
  BY <1>3, <1>4, <1>5, <1>6, BankOf DEF Steady, Calm, Held
<1>9. PaymentCalm(p)'
  BY <1>2, <1>3, <1>4, <1>5, <1>6, ActorKinds, BankOf
     DEF PaymentCalm, At, Calm, Dealt, Held, Committed, Moves
<1>10. HandlerCalm(h)'
  BY <1>1, <1>2, <1>3, <1>4, <1>6 DEF HandlerCalm, NewAnswers, Moves, At, Pay
<1> QED BY <1>2, <1>3, <1>7, <1>8, <1>9, <1>10, ActorKinds, CalmMove DEF Moves

-----------------------------------------------------------------------------
(* Local commit and rollback of an undisturbed payment *)

\* What such a step of a worker or a handler leaves alone.
LEMMA LocalStep ==
    ASSUME PaymentTypeOK, PaymentInv, CalmInv, NEW a \in Workers \cup Handlers,
           LocalTransaction(a), NEW p, p = Pay(a)
    PROVE  /\ a \in Actors /\ p \in Payments /\ PaymentCalm(p)
           /\ actor[a].at \in {"commit", "bankCommit", "saveCommit",
                               "rollback", "bankRollback", "saveRollback"}
           /\ Moves(a)
           /\ disturbed \subseteq disturbed' /\ UNCHANGED <<willing, banking>>
           /\ \A q \in Payments : inbox'[q]["NEW"] = inbox[q]["NEW"] /\ actor'[q] = actor[q]
           /\ \A b \in Banks, q \in Payments : q # p \/ b # Bank(a) =>
                  record'[b][q] = record[b][q] /\ posting'[b][q] = posting[b][q]
           /\ \A q \in Payments \ {p}, m \in Messages : outbox'[q][m].status = outbox[q][m].status
           /\ a \in Workers =>
                  /\ WorkerCalm(a) /\ Bank(a) = "payer" /\ a \notin Handlers
                  /\ actor[a].msg = "NEW" /\ HasRow(p, "NEW") /\ Settled("payer", p)
                  /\ At(p, "end")
           /\ a \in Handlers =>
                  /\ HandlerCalm(a) /\ HandlerMatches(a) /\ Bank(a) = "payee"
                  /\ actor[a].at \in {"commit", "bankCommit", "saveCommit"}
                       => actor[a].msg = "COMMIT"
                  /\ actor[a].at \in {"rollback", "bankRollback", "saveRollback"}
                       => actor[a].msg = "ROLLBACK" /\ ~Ongoing(p)
                  /\ actor[a].at \in {"commit", "bankCommit", "saveCommit"}
                       => actor'[a].reply \in {actor[a].reply, "DONE", "LATER"}
                  /\ actor'[a].at \notin {"confirm", "refuse"}
<1>1. a \in Actors /\ p \in Payments /\ PaymentCalm(p)
  BY ActorKinds, CalmParts
<1>2. actor[a].at \in {"commit", "bankCommit", "saveCommit",
                       "rollback", "bankRollback", "saveRollback"}
  BY DEF LocalTransaction, ReadForCommit, BankCommit, SaveCommit, ReadForRollback, BankRollback,
         SaveRollback, At
<1>3. disturbed \subseteq disturbed' /\ UNCHANGED <<willing, banking>>
  BY Disturbance DEF LocalTransaction, ReadForCommit, BankCommit, SaveCommit, ReadForRollback,
     BankRollback, SaveRollback
<1>4. a \in Workers =>
          /\ WorkerCalm(a) /\ Bank(a) = "payer" /\ a \notin Handlers
          /\ actor[a].msg = "NEW" /\ HasRow(p, "NEW") /\ Settled("payer", p)
          /\ At(p, "end")
  <2> SUFFICES ASSUME a \in Workers
               PROVE  /\ WorkerCalm(a) /\ Bank(a) = "payer" /\ a \notin Handlers
                      /\ actor[a].msg = "NEW" /\ HasRow(p, "NEW") /\ Settled("payer", p)
                      /\ At(p, "end")
    OBVIOUS
  <2>1. actor[a].at \in Deciding
    BY <1>2 DEF Deciding, WorkerPlaces
  <2> QED BY <1>1, <2>1, DecidingWorker, CalmParts, ActorKinds, BankOf DEF PaymentCalm
<1>5. a \in Handlers =>
          /\ HandlerCalm(a) /\ HandlerMatches(a) /\ Bank(a) = "payee"
          /\ actor[a].at \in {"commit", "bankCommit", "saveCommit"} => actor[a].msg = "COMMIT"
          /\ actor[a].at \in {"rollback", "bankRollback", "saveRollback"}
               => actor[a].msg = "ROLLBACK" /\ ~Ongoing(p)
  BY <1>1, CalmParts DEF HandlerMatches, HandlerCalm, At, Ongoing
<1>6. /\ Moves(a)
      /\ a \in Handlers => actor'[a].at \notin {"confirm", "refuse"}
      /\ a \in Handlers /\ actor[a].at \in {"commit", "bankCommit", "saveCommit"} =>
             actor'[a].reply \in {actor[a].reply, "DONE", "LATER"}
  <2>1. CASE ReadForCommit(a)
    BY <1>1, <2>1, GoMoves, KeptAnswer DEF ReadForCommit, Conclude, Abort
  <2>2. CASE BankCommit(a)
    BY <1>1, <2>2, GoMoves DEF BankCommit, Abort
  <2>3. CASE SaveCommit(a)
    <3>1. CASE Keep(a, "DONE") /\ a \in Handlers
      BY <1>1, <3>1, KeptAnswer
    <3>2. CASE Abort(a)
      BY <1>1, <3>2, GoMoves DEF Abort
    <3>3. ASSUME a \notin Handlers, NEW fresh,
                 actor' = [actor EXCEPT ![a].at = "reportPaid", ![a].fresh = fresh]
          PROVE  Moves(a)
      BY <1>1, <3>3 DEF Moves, PaymentTypeOK, Jobs
    <3> QED BY <2>3, <3>1, <3>2, <3>3 DEF SaveCommit
  <2>4. CASE ReadForRollback(a)
    BY <1>1, <2>4, GoMoves, KeptAnswer DEF ReadForRollback, At
  <2>5. CASE BankRollback(a)
    BY <1>1, <2>5, GoMoves DEF BankRollback, At
  <2>6. CASE SaveRollback(a)
    BY <1>1, <2>6, GoMoves, KeptAnswer DEF SaveRollback, At
  <2> QED BY <2>1, <2>2, <2>3, <2>4, <2>5, <2>6 DEF LocalTransaction
<1>7. \A q \in Payments : inbox'[q]["NEW"] = inbox[q]["NEW"]
  <2>1. \/ UNCHANGED inbox
        \/ a \in Handlers /\ \E reply : Keep(a, reply)
    BY DEF LocalTransaction, ReadForCommit, Conclude, BankCommit, SaveCommit, ReadForRollback,
           BankRollback, SaveRollback
  <2> QED BY <1>1, <1>2, <1>5, <2>1, KeptAnswer, BankOf
<1>8. \A q \in Payments : actor'[q] = actor[q]
  BY <1>6, ActorKinds DEF Moves
<1>9. \A b \in Banks, q \in Payments : q # p \/ b # Bank(a) =>
          record'[b][q] = record[b][q] /\ posting'[b][q] = posting[b][q]
  <2>1. /\ UNCHANGED record \/ \E s : SaveRecord(a, s)
        /\ UNCHANGED posting \/ \E s : SavePosting(a, s)
    BY DEF LocalTransaction, ReadForCommit, BankCommit, SaveCommit, ReadForRollback,
           BankRollback, SaveRollback, bankVars
  <2> QED BY <1>1, <2>1, SavedRecord, SavedPosting
<1>10. \A q \in Payments \ {p}, m \in Messages : outbox'[q][m].status = outbox[q][m].status
  <2>1. UNCHANGED outbox \/ Enqueue(p, "COMMIT") \/ Enqueue(p, "ROLLBACK")
    BY DEF LocalTransaction, ReadForCommit, BankCommit, SaveCommit, ReadForRollback,
           BankRollback, SaveRollback
  <2> QED BY <1>1, <2>1, EnqueuedRow, BankOf
<1> QED BY <1>1, <1>2, <1>3, <1>4, <1>5, <1>6, <1>7, <1>8, <1>9, <1>10

\* Such a step of a worker, from what it does to the payer's posting and record.
LEMMA LocalWorkerStep ==
    ASSUME PaymentTypeOK, PaymentInv, CalmInv, NEW w \in Workers, LocalTransaction(w),
           NEW p, p = Pay(w),
           \A m \in Messages : HasRow(p, m) => HasRow(p, m)',
           outbox'[p]["NEW"].status = outbox[p]["NEW"].status,
           Calm(p)' /\ ~Held(p) => ~Held(p)',
           Committed("payer", p)' => Committed("payer", p) \/ At(w, "bankCommit"),
           Calm(p)' /\ record'["payer"][p] = "ROLLED_BACK" => ~Held(p)',
           Calm(p)' /\ actor'[w].at \in Effected => ~Held(p)',
           actor'[w].at \in {"commit", "bankCommit"} => At(w, "commit")
    PROVE  CalmInv'
<1>1. /\ w \in Actors /\ p \in Payments /\ PaymentCalm(p) /\ Moves(w)
      /\ disturbed \subseteq disturbed' /\ UNCHANGED willing
      /\ \A q \in Payments : inbox'[q]["NEW"] = inbox[q]["NEW"] /\ actor'[q] = actor[q]
      /\ \A b \in Banks, q \in Payments : q # p \/ b # "payer" =>
             record'[b][q] = record[b][q] /\ posting'[b][q] = posting[b][q]
      /\ \A q \in Payments \ {p}, m \in Messages : outbox'[q][m].status = outbox[q][m].status
      /\ WorkerCalm(w) /\ HasRow(p, "NEW") /\ At(p, "end")
  BY LocalStep
<1>2. \A q \in Payments \ {p} : Quiet(q)
  BY <1>1 DEF Quiet
<1>3. Calm(p)' => Calm(p)
  BY <1>1 DEF Calm
<1>4. Ongoing(p)' => Ongoing(p)
  BY <1>3, BankOf DEF Ongoing
<1>5. Kept(p)' <=> Kept(p)
  BY <1>1, BankOf DEF Kept, Reserved
<1>6. Steady(p)
  BY <1>1, <1>3, <1>5, BankOf DEF Steady, Reserved
<1>7. Ongoing(p)' /\ Committed("payer", p)' => Kept(p)'
  BY <1>1, <1>4, <1>5 DEF PaymentCalm, WorkerCalm, At
<1>8. PaymentCalm(p)'
  <2>1. Calm(p)' /\ Dealt(p)' => ~Held(p)'
    BY <1>1, <1>3 DEF PaymentCalm, Dealt
  <2> QED BY <1>1, <1>3, <1>4, <1>5, <1>7, <2>1, BankOf DEF PaymentCalm, At, Reserved
<1>9. WorkerCalm(w)'
  BY <1>1, <1>4, <1>5 DEF WorkerCalm, Moves, Pay, At
<1> QED BY <1>1, <1>2, <1>6, <1>8, <1>9, ActorKinds, CalmMove DEF Moves

\* And of a handler, from what it does to the payee's.
LEMMA LocalHandlerStep ==
    ASSUME PaymentTypeOK, PaymentInv, CalmInv, NEW h \in Handlers, LocalTransaction(h),
           NEW p, p = Pay(h), UNCHANGED outbox,
           posting["payee"][p] = "NONE" => posting'["payee"][p] = "NONE",
           Ongoing(p)' /\ Reserved("payee", p) => Reserved("payee", p)',
           Ongoing(p)' /\ Kept(p) => Kept(p)',
           Ongoing(p)' /\ record'["payee"][p] \in {"PREPARED", "COMMITTED"} => Reserved("payee", p)'
    PROVE  CalmInv'
<1>1. /\ h \in Actors /\ p \in Payments /\ PaymentCalm(p) /\ Moves(h)
      /\ actor[h].at \in {"commit", "bankCommit", "saveCommit",
                          "rollback", "bankRollback", "saveRollback"}
      /\ disturbed \subseteq disturbed' /\ UNCHANGED willing
      /\ \A q \in Payments : inbox'[q]["NEW"] = inbox[q]["NEW"] /\ actor'[q] = actor[q]
      /\ \A b \in Banks, q \in Payments : q # p \/ b # "payee" =>
             record'[b][q] = record[b][q] /\ posting'[b][q] = posting[b][q]
      /\ HandlerCalm(h)
      /\ actor[h].at \in {"commit", "bankCommit", "saveCommit"} => actor[h].msg = "COMMIT"
      /\ actor[h].at \in {"rollback", "bankRollback", "saveRollback"}
           => actor[h].msg = "ROLLBACK" /\ ~Ongoing(p)
      /\ actor[h].at \in {"commit", "bankCommit", "saveCommit"}
           => actor'[h].reply \in {actor[h].reply, "DONE", "LATER"}
      /\ actor'[h].at \notin {"confirm", "refuse"}
  BY LocalStep
<1>2. \A q \in Payments \ {p} : Quiet(q)
  BY <1>1 DEF Quiet
<1>3. /\ Calm(p)' => Calm(p)
      /\ Ongoing(p)' => Ongoing(p)
      /\ Dealt(p)' <=> Dealt(p)
      /\ \A m \in Messages : HasRow(p, m)' <=> HasRow(p, m)
  BY <1>1 DEF Calm, Ongoing, Dealt, HasRow
<1>4. /\ Held(p)' <=> Held(p)
      /\ Committed("payer", p)' <=> Committed("payer", p)
  BY <1>1, BankOf DEF Held, Committed
<1>5. Steady(p)
  BY <1>1, <1>3, <1>4 DEF Steady
<1>6. PaymentCalm(p)'
  BY <1>1, <1>3, <1>4, BankOf DEF PaymentCalm, At
<1>7. Ongoing(p)' /\ actor'[h].reply = "YES" => Kept(p)'
  BY <1>1, <1>3 DEF HandlerCalm
<1>8. HandlerCalm(h)'
  BY <1>1, <1>3, <1>7, BankOf DEF HandlerCalm, Moves, At, Pay
<1> QED BY <1>1, <1>2, <1>5, <1>6, <1>8, ActorKinds, CalmMove DEF Moves

LEMMA ReadForCommitCalm ==
    ASSUME PaymentTypeOK, PaymentInv, CalmInv, NEW a \in Workers \cup Handlers, ReadForCommit(a)
    PROVE  CalmInv'
<1>1. PICK p \in Payments : p = Pay(a)
  BY ActorKinds, PayTypes
<1>2. LocalTransaction(a) /\ UNCHANGED <<record, posting, outbox>> /\ At(a, "commit")
  BY DEF LocalTransaction, ReadForCommit, bankVars
<1>3. CASE a \in Handlers
  <2>1. PaymentCalm(p) /\ (Ongoing(p)' => Ongoing(p))
    BY <1>1, <1>2, LocalStep DEF Ongoing, Calm, HasRow
  <2> QED BY <1>1, <1>2, <1>3, <2>1, LocalHandlerStep DEF Reserved, Kept, PaymentCalm
<1>4. CASE a \in Workers
  <2>1. /\ a \in Actors /\ Bank(a) = "payer" /\ a \notin Handlers /\ Settled("payer", p)
        /\ PaymentCalm(p) /\ (Calm(p)' => Calm(p))
    BY <1>1, <1>2, <1>4, LocalStep DEF Calm
  <2>2. actor'[a].at \in {"enqueue", "markSent"} /\ Calm(p)' => ~Held(p)
    <3>1. CASE Record(a) \in Concluded
      BY <1>1, <2>1, <3>1, BankOf
         DEF Concluded, Record, Settled, PaymentInv, RecordsMatch, Committed, Held
    <3>2. CASE Record(a) = "ROLLED_BACK"
      BY <1>1, <2>1, <3>2 DEF Record, PaymentCalm
    <3>3. CASE Fails(a)
      BY <1>1, <3>3, Disturbance DEF Calm
    <3>4. CASE Go(a, "bankCommit")
      BY <2>1, <3>4, GoMoves
    <3> QED BY <3>1, <3>2, <3>3, <3>4 DEF ReadForCommit
  <2>3. actor'[a].at \in {"enqueue", "markSent", "bankCommit"}
    BY <2>1, GoMoves DEF ReadForCommit, Conclude, Abort
  <2> QED BY <1>1, <1>2, <1>4, <2>1, <2>2, <2>3, LocalWorkerStep
          DEF HasRow, Held, Committed, PaymentCalm, Effected
<1> QED BY <1>3, <1>4

LEMMA BankCommitCalm ==
    ASSUME PaymentTypeOK, PaymentInv, CalmInv, NEW a \in Workers \cup Handlers, BankCommit(a)
    PROVE  CalmInv'
<1>1. PICK p \in Payments : p = Pay(a)
  BY ActorKinds, PayTypes
<1>2. /\ LocalTransaction(a) /\ UNCHANGED <<record, outbox>> /\ At(a, "bankCommit")
      /\ a \in Actors /\ Bank(a) \in Banks
  BY <1>1, LocalStep, BankTypes DEF LocalTransaction, BankCommit
<1>3. /\ \/ posting'[Bank(a)][p] = posting[Bank(a)][p]
         \/ posting[Bank(a)][p] # "NONE" /\ posting'[Bank(a)][p] = "COMMITTED"
      /\ p \notin disturbed' => posting'[Bank(a)][p] # "PREPARED"
  <2>1. CASE SavePosting(a, "COMMITTED") /\ Posting(a) \in {"PREPARED", "COMMITTED"}
    BY <1>1, <1>2, <2>1, SavedPosting DEF Posting
  <2>2. CASE UNCHANGED posting /\ Posting(a) \notin {"PREPARED", "COMMITTED"}
    BY <1>1, <2>2 DEF Posting
  <2>3. CASE UNCHANGED posting /\ Fails(a)
    BY <1>1, <2>3, Disturbance
  <2> QED BY <2>1, <2>2, <2>3 DEF BankCommit
<1>4. PaymentCalm(p) /\ disturbed \subseteq disturbed'
  BY <1>1, <1>2, LocalStep
<1>5. CASE a \in Handlers
  <2>1. Bank(a) = "payee" /\ (Ongoing(p)' => Ongoing(p))
    BY <1>2, <1>4, <1>5, BankOf DEF Ongoing, Calm, HasRow
  <2> QED BY <1>1, <1>2, <1>3, <1>4, <1>5, <2>1, LocalHandlerStep
          DEF Reserved, Kept, PaymentCalm
<1>6. CASE a \in Workers
  <2>1. Bank(a) = "payer" /\ a \notin Handlers
    BY <1>6, BankOf, ActorKinds
  <2>2. actor'[a].at \in {"saveCommit", "markSent"}
    BY <1>2, <2>1, GoMoves DEF BankCommit, Abort
  <2>3. Calm(p)' => ~Held(p)'
    BY <1>3, <2>1 DEF Calm, Held
  <2> QED BY <1>1, <1>2, <1>6, <2>2, <2>3, LocalWorkerStep DEF HasRow
<1> QED BY <1>5, <1>6

LEMMA SaveCommitCalm ==
    ASSUME PaymentTypeOK, PaymentInv, CalmInv, NEW a \in Workers \cup Handlers, SaveCommit(a)
    PROVE  CalmInv'
<1>1. PICK p \in Payments : p = Pay(a)
  BY ActorKinds, PayTypes
<1>2. /\ LocalTransaction(a) /\ UNCHANGED posting /\ At(a, "saveCommit")
      /\ a \in Actors /\ Bank(a) \in Banks
  BY <1>1, LocalStep, BankTypes DEF LocalTransaction, SaveCommit
<1>3. PaymentCalm(p) /\ disturbed \subseteq disturbed'
  BY <1>1, <1>2, LocalStep
<1>4. record'[Bank(a)][p] \in {record[Bank(a)][p], "COMMITTED"}
  BY <1>1, <1>2, SavedRecord DEF SaveCommit
<1>5. CASE a \in Handlers
  <2>1. /\ Bank(a) = "payee" /\ UNCHANGED outbox /\ Committed("payee", p)
    BY <1>1, <1>2, <1>5, CalmParts, BankOf DEF SaveCommit, HandlerMatches
  <2>2. Reserved("payee", p)' /\ (Ongoing(p)' => Ongoing(p))
    BY <1>2, <1>3, <2>1 DEF Reserved, Committed, Ongoing, Calm, HasRow
  <2>3. Kept(p) => Kept(p)'
    BY <1>4, <2>1, <2>2 DEF Kept
  <2> QED BY <1>1, <1>2, <1>5, <2>1, <2>2, <2>3, LocalHandlerStep
<1>6. CASE a \in Workers
  <2>1. /\ Bank(a) = "payer" /\ a \notin Handlers
        /\ actor[a].msg = "NEW" /\ WorkerCalm(a)
    BY <1>1, <1>2, <1>6, LocalStep
  <2>2. Calm(p)' => Calm(p) /\ ~Held(p) /\ ~Held(p)'
    BY <1>1, <1>2, <1>3, <2>1 DEF WorkerCalm, At, Effected, Calm, Held
  <2>3. \A m \in Messages :
            \/ outbox'[p][m].status = outbox[p][m].status
            \/ m # "NEW" /\ outbox'[p][m].status = "PENDING"
    BY <1>1, <1>2, <2>1, EnqueuedRow, BankOf DEF SaveCommit
  <2>4. \A m \in Messages : HasRow(p, m) => HasRow(p, m)'
    BY <2>3 DEF HasRow
  <2>5. actor'[a].at \in {"reportPaid", "markSent"}
    <3>1. CASE Abort(a)
      BY <1>2, <2>1, <3>1, GoMoves DEF Abort
    <3>2. ASSUME NEW fresh, actor' = [actor EXCEPT ![a].at = "reportPaid", ![a].fresh = fresh]
          PROVE  actor'[a].at = "reportPaid"
      BY <1>2, <3>2 DEF PaymentTypeOK, Jobs
    <3> QED BY <2>1, <3>1, <3>2 DEF SaveCommit
  <2>6. Committed("payer", p)' => Committed("payer", p)
    BY <1>2 DEF Committed
  <2> QED BY <1>1, <1>2, <1>6, <2>2, <2>3, <2>4, <2>5, <2>6, BankOf, LocalWorkerStep
<1> QED BY <1>5, <1>6

LEMMA ReadForRollbackCalm ==
    ASSUME PaymentTypeOK, PaymentInv, CalmInv, NEW a \in Workers \cup Handlers,
           ReadForRollback(a)
    PROVE  CalmInv'
<1>1. PICK p \in Payments : p = Pay(a)
  BY ActorKinds, PayTypes
<1>2. LocalTransaction(a) /\ UNCHANGED <<record, posting, outbox>> /\ At(a, "rollback")
  BY DEF LocalTransaction, ReadForRollback, bankVars
<1>3. PaymentCalm(p) /\ disturbed \subseteq disturbed' /\ a \in Actors
  BY <1>1, <1>2, LocalStep
<1>4. CASE a \in Handlers
  <2>1. Ongoing(p)' => Ongoing(p)
    BY <1>2, <1>3 DEF Ongoing, Calm, HasRow
  <2> QED BY <1>1, <1>2, <1>3, <1>4, <2>1, LocalHandlerStep DEF Reserved, Kept, PaymentCalm
<1>5. CASE a \in Workers
  <2>1. Bank(a) = "payer" /\ a \notin Handlers /\ Settled("payer", p)
    BY <1>1, <1>2, <1>5, LocalStep
  <2>2. actor'[a].at \in {"enqueue", "reportFailed"} /\ Calm(p)' => ~Held(p)
    <3>1. CASE Record(a) = "COMMITTED"
      BY <1>1, <2>1, <3>1, BankOf DEF Record, PaymentInv, RecordsMatch, Committed, Held
    <3>2. CASE Record(a) \in {"NONE", "ROLLED_BACK"}
      BY <1>1, <1>3, <2>1, <3>2 DEF Record, PaymentCalm, Settled, Calm
    <3>3. CASE Fails(a)
      BY <1>1, <3>3, Disturbance DEF Calm
    <3>4. CASE Go(a, "bankRollback")
      BY <1>3, <3>4, GoMoves
    <3> QED BY <3>1, <3>2, <3>3, <3>4 DEF ReadForRollback
  <2>3. actor'[a].at \in {"enqueue", "reportFailed", "bankRollback"}
    BY <1>3, <2>1, GoMoves DEF ReadForRollback
  <2>4. /\ Held(p)' <=> Held(p)
        /\ Committed("payer", p)' <=> Committed("payer", p)
        /\ Calm(p)' => Calm(p)
    BY <1>2, <1>3 DEF Held, Committed, Calm
  <2> QED BY <1>1, <1>2, <1>3, <1>5, <2>2, <2>3, <2>4, LocalWorkerStep
          DEF HasRow, PaymentCalm, Effected
<1> QED BY <1>4, <1>5

LEMMA BankRollbackCalm ==
    ASSUME PaymentTypeOK, PaymentInv, CalmInv, NEW a \in Workers \cup Handlers,
           BankRollback(a)
    PROVE  CalmInv'
<1>1. PICK p \in Payments : p = Pay(a)
  BY ActorKinds, PayTypes
<1>2. /\ LocalTransaction(a) /\ UNCHANGED <<record, outbox>> /\ At(a, "bankRollback")
      /\ a \in Actors /\ Bank(a) \in Banks
  BY <1>1, LocalStep, BankTypes DEF LocalTransaction, BankRollback
<1>3. /\ \/ posting'[Bank(a)][p] = posting[Bank(a)][p]
         \/ posting[Bank(a)][p] = "PREPARED" /\ posting'[Bank(a)][p] = "ROLLED_BACK"
      /\ p \notin disturbed' => posting'[Bank(a)][p] # "PREPARED"
  <2>1. CASE SavePosting(a, "ROLLED_BACK") /\ Posting(a) = "PREPARED"
    BY <1>1, <1>2, <2>1, SavedPosting DEF Posting
  <2>2. CASE UNCHANGED posting /\ Posting(a) # "PREPARED"
    BY <1>1, <2>2 DEF Posting
  <2>3. CASE UNCHANGED posting /\ Fails(a)
    BY <1>1, <2>3, Disturbance
  <2> QED BY <2>1, <2>2, <2>3 DEF BankRollback
<1>4. PaymentCalm(p) /\ disturbed \subseteq disturbed'
  BY <1>1, <1>2, LocalStep
<1>5. CASE a \in Handlers
  <2>1. Bank(a) = "payee" /\ ~Ongoing(p)
    BY <1>1, <1>2, <1>5, LocalStep DEF At
  <2>2. ~Ongoing(p)'
    BY <1>2, <1>4, <2>1 DEF Ongoing, Calm, HasRow
  <2> QED BY <1>1, <1>2, <1>3, <1>5, <2>1, <2>2, LocalHandlerStep
<1>6. CASE a \in Workers
  <2>1. Bank(a) = "payer" /\ a \notin Handlers
    BY <1>6, BankOf, ActorKinds
  <2>2. actor'[a].at = "saveRollback"
    BY <1>2, GoMoves DEF BankRollback
  <2>3. /\ Calm(p)' => ~Held(p)'
        /\ Committed("payer", p)' => Committed("payer", p)
    BY <1>3, <2>1 DEF Calm, Held, Committed
  <2> QED BY <1>1, <1>2, <1>6, <2>2, <2>3, LocalWorkerStep DEF HasRow
<1> QED BY <1>5, <1>6

LEMMA SaveRollbackCalm ==
    ASSUME PaymentTypeOK, PaymentInv, CalmInv, NEW a \in Workers \cup Handlers,
           SaveRollback(a)
    PROVE  CalmInv'
<1>1. PICK p \in Payments : p = Pay(a)
  BY ActorKinds, PayTypes
<1>2. /\ LocalTransaction(a) /\ UNCHANGED posting /\ At(a, "saveRollback") /\ a \in Actors
  BY <1>1, LocalStep DEF LocalTransaction, SaveRollback
<1>3. PaymentCalm(p) /\ disturbed \subseteq disturbed'
  BY <1>1, <1>2, LocalStep
<1>4. CASE a \in Handlers
  <2>1. ~Ongoing(p) /\ HandlerMatches(a)
    BY <1>1, <1>2, <1>4, LocalStep DEF At
  <2>2. UNCHANGED outbox
    BY <2>1 DEF SaveRollback, HandlerMatches
  <2>3. ~Ongoing(p)'
    BY <1>3, <2>1, <2>2 DEF Ongoing, Calm, HasRow
  <2> QED BY <1>1, <1>2, <1>4, <2>2, <2>3, LocalHandlerStep
<1>5. CASE a \in Workers
  <2>1. /\ a \notin Handlers /\ actor[a].msg = "NEW" /\ WorkerCalm(a)
    BY <1>1, <1>2, <1>5, LocalStep
  <2>2. Calm(p)' => ~Held(p) /\ ~Held(p)'
    BY <1>1, <1>2, <1>3, <2>1 DEF WorkerCalm, At, Effected, Calm, Held
  <2>3. \A m \in Messages :
            \/ outbox'[p][m].status = outbox[p][m].status
            \/ m # "NEW" /\ outbox'[p][m].status = "PENDING"
    BY <1>1, <1>2, EnqueuedRow, BankOf DEF SaveRollback
  <2>4. \A m \in Messages : HasRow(p, m) => HasRow(p, m)'
    BY <2>3 DEF HasRow
  <2>5. actor'[a].at = "reportFailed"
    BY <1>2, <2>1, GoMoves DEF SaveRollback
  <2>6. Committed("payer", p)' => Committed("payer", p)
    BY <1>2 DEF Committed
  <2> QED BY <1>1, <1>2, <1>5, <2>2, <2>3, <2>4, <2>5, <2>6, BankOf, LocalWorkerStep
<1> QED BY <1>4, <1>5

-----------------------------------------------------------------------------
(* The rows of an undisturbed payment, and its messages *)

LEMMA EnqueueFollowUpCalm ==
    ASSUME PaymentTypeOK, PaymentInv, CalmInv, NEW w \in Workers, EnqueueFollowUp(w)
    PROVE  CalmInv'
<1>1. PICK p \in Payments : p = Pay(w)
  BY ActorKinds, PayTypes
<1>2. /\ w \in Actors /\ w \notin Handlers /\ At(w, "enqueue") /\ PaymentCalm(p)
      /\ WorkerCalm(w) /\ actor[w].msg = "NEW" /\ HasRow(p, "NEW")
  BY <1>1, ActorKinds, CalmParts, DecidingWorker
     DEF EnqueueFollowUp, At, Deciding, WorkerPlaces
<1>3. /\ \A q \in Payments \ {p}, m \in Messages : outbox'[q][m].status = outbox[q][m].status
      /\ \A m \in Messages :
             \/ outbox'[p][m].status = outbox[p][m].status
             \/ m # "NEW" /\ outbox'[p][m].status = "PENDING"
  <2>1. UNCHANGED outbox \/ Enqueue(p, "COMMIT") \/ Enqueue(p, "ROLLBACK")
    BY <1>1 DEF EnqueueFollowUp
  <2> QED BY <2>1, EnqueuedRow, BankOf
<1>4. /\ \A b \in Actors \ {w} : actor'[b] = actor[b]
      /\ actor'[w].pay = p /\ actor'[w].msg = "NEW"
      /\ actor'[w].at \in {"reportPaid", "reportFailed", "markSent"}
  <2>1. ASSUME NEW place, Go(w, place)
        PROVE  /\ \A b \in Actors \ {w} : actor'[b] = actor[b]
               /\ actor'[w].pay = p /\ actor'[w].msg = "NEW" /\ actor'[w].at = place
    BY <1>1, <1>2, <2>1, GoMoves DEF Moves, Pay
  <2>2. ASSUME NEW place, NEW fresh,
               actor' = [actor EXCEPT ![w].at = place, ![w].fresh = fresh]
        PROVE  /\ \A b \in Actors \ {w} : actor'[b] = actor[b]
               /\ actor'[w].pay = p /\ actor'[w].msg = "NEW" /\ actor'[w].at = place
    BY <1>1, <1>2, <2>2 DEF PaymentTypeOK, Jobs, Pay
  <2> QED BY <2>1, <2>2 DEF EnqueueFollowUp
<1>5. /\ UNCHANGED <<record, posting, willing, inbox>> /\ disturbed \subseteq disturbed'
      /\ \A q \in Payments : actor'[q] = actor[q]
  BY <1>4, Disturbance, ActorKinds DEF EnqueueFollowUp, bankVars
<1>6. /\ \A q \in Payments \ {p} : Quiet(q)
      /\ \A m \in Messages : HasRow(p, m) => HasRow(p, m)'
      /\ Dealt(p)' <=> Dealt(p)
  BY <1>3, <1>5, BankOf DEF Quiet, HasRow, Dealt
<1>7. (Calm(p)' => Calm(p)) /\ (Ongoing(p)' => Ongoing(p)) /\ At(p, "end")
  BY <1>2, <1>5, <1>6, BankOf DEF Calm, Ongoing, PaymentCalm
<1>8. /\ Held(p)' <=> Held(p)
      /\ Kept(p)' <=> Kept(p)
      /\ Reserved("payee", p)' <=> Reserved("payee", p)
      /\ Committed("payer", p)' <=> Committed("payer", p)
  BY <1>5 DEF Held, Kept, Reserved, Committed
<1>9. Steady(p) /\ PaymentCalm(p)'
  BY <1>2, <1>5, <1>6, <1>7, <1>8 DEF Steady, PaymentCalm, At
<1>10. WorkerCalm(w)'
  BY <1>1, <1>2, <1>4, <1>7, <1>8 DEF WorkerCalm, Effected, Pay, At
<1> QED BY <1>2, <1>4, <1>6, <1>9, <1>10, CalmMove

\* Steps that touch nothing the invariant is about.
LEMMA QuietRest ==
    ASSUME PaymentTypeOK, disturbed \subseteq disturbed',
           UNCHANGED <<record, posting, willing, inbox>>,
           \A q \in Payments, k \in Messages : outbox'[q][k].status = outbox[q][k].status,
           \A q \in Payments : actor'[q].at \in {actor[q].at, "end"}
    PROVE  \A q \in Payments : Quiet(q)
  BY DEF Quiet

\* Where a worker claims nothing.
LEMMA NothingClaimed ==
    ASSUME NEW w, actor'[w].at \in {"idle", "send", "wait", "retry", "rollback", "bankRollback"}
    PROVE  WorkerCalm(w)'
  BY DEF WorkerCalm, Effected

LEMMA ClaimCalm ==
    ASSUME PaymentTypeOK, PaymentInv, CalmInv, NEW w \in Workers, NEW p \in Payments,
           NEW m \in Messages, Claim(w, p, m)
    PROVE  CalmInv'
<1>1. w \in Actors /\ \A b \in Actors \ {w} : actor'[b] = actor[b]
  BY ActorKinds DEF Claim, PaymentTypeOK
<1>2. actor'[w].at = "send"
  BY <1>1 DEF Claim, PaymentTypeOK, Job
<1>3. \A q \in Payments, k \in Messages : outbox'[q][k].status = outbox[q][k].status
  BY RowKeepsStatus DEF Claim
<1>4. \A q \in Payments : Quiet(q)
  BY <1>1, <1>3, ActorKinds, QuietRest DEF Claim, bankVars, faultVars
<1> QED BY <1>1, <1>2, <1>4, ActorKinds, NothingClaimed, CalmMove

LEMMA LapseCalm ==
    ASSUME PaymentTypeOK, PaymentInv, CalmInv, NEW p \in Payments, NEW m \in Messages,
           LeaseLapses(p, m)
    PROVE  CalmInv'
<1>1. \A q \in Payments, k \in Messages : outbox'[q][k].status = outbox[q][k].status
  BY RowKeepsStatus DEF LeaseLapses
<1>2. \A q \in Payments : Quiet(q)
  BY <1>1, QuietRest DEF LeaseLapses, bankVars, faultVars
<1>3. \A a \in Actors : Stays(a)
  BY DEF LeaseLapses, Stays
<1> QED BY <1>2, <1>3, ActorKinds, CalmStep

LEMMA RetryCalm ==
    ASSUME PaymentTypeOK, PaymentInv, CalmInv, NEW w \in Workers, Retry(w)
    PROVE  CalmInv'
<1>1. /\ w \in Actors /\ Pay(w) \in Payments /\ actor[w].msg \in Messages
      /\ actor \in [Actors -> Jobs]
  BY ActorKinds, PayTypes DEF PaymentTypeOK
<1>2. \A q \in Payments, k \in Messages : outbox'[q][k].status = outbox[q][k].status
  <2>1. PICK p, m, n : /\ p \in Payments /\ m \in Messages
                       /\ p = Pay(w) /\ m = actor[w].msg /\ n = actor[w].attempts + 1
    BY <1>1
  <2>2. CASE UNCHANGED outbox
    BY <2>2
  <2>3. CASE outbox' = [outbox EXCEPT ![p][m].attempts = n, ![p][m].leased = FALSE]
    BY <2>1, <2>3, RowKeepsStatus, Zenon
  <2> QED BY <2>1, <2>2, <2>3 DEF Retry
<1>3. /\ \A b \in Actors \ {w} : actor'[b] = actor[b]
      /\ \/ actor'[w].at \in {"idle", "rollback"}
         \/ actor'[w].at = "markFailed" /\ actor'[w].msg # "NEW"
  <2>1. CASE GiveUp(w)
    BY <1>1, <2>1 DEF GiveUp, Jobs
  <2>2. CASE Go(w, "markFailed") /\ actor[w].msg # "NEW"
    BY <1>1, <2>2, GoMoves DEF Moves
  <2>3. CASE actor' = [actor EXCEPT ![w] = Idle]
    BY <1>1, <2>3 DEF Idle, Job
  <2> QED BY <2>1, <2>2, <2>3 DEF Retry
<1>4. \A q \in Payments : Quiet(q)
  BY <1>2, <1>3, ActorKinds, QuietRest DEF Retry, bankVars, faultVars
<1>5. WorkerCalm(w)'
  BY <1>3 DEF WorkerCalm, Effected
<1> QED BY <1>1, <1>3, <1>4, <1>5, ActorKinds, CalmMove

LEMMA ReportCalm ==
    ASSUME PaymentTypeOK, PaymentInv, CalmInv, NEW w \in Workers,
           ReportPaid(w) \/ ReportFailed(w)
    PROVE  CalmInv'
<1>1. PICK p \in Payments : p = Pay(w)
  BY ActorKinds, PayTypes
<1>2. /\ w \in Actors /\ PaymentCalm(p) /\ WorkerCalm(w)
      /\ actor[w].at \in {"reportPaid", "reportFailed"}
  BY <1>1, ActorKinds, CalmParts DEF ReportPaid, ReportFailed, Report, At
<1>3. Moves(w) /\ actor'[w].at \in {"sync", "markFailed", "markSent"}
  BY <1>2, GoMoves DEF ReportPaid, ReportFailed, Report
<1>4. UNCHANGED <<record, posting, willing, outbox, inbox>> /\ disturbed \subseteq disturbed'
  BY Disturbance DEF ReportPaid, ReportFailed, Report, bankVars
<1>5. \A q \in Payments : Quiet(q)
  BY <1>3, <1>4, ActorKinds, QuietRest DEF Moves
<1>6. WorkerCalm(w)'
  BY <1>1, <1>2, <1>3, <1>4 DEF WorkerCalm, Effected, Moves, Pay, Calm, Held
<1> QED BY <1>2, <1>3, <1>5, <1>6, ActorKinds, CalmMove DEF Moves

LEMMA MarkCalm ==
    ASSUME PaymentTypeOK, PaymentInv, CalmInv, NEW w \in Workers, MarkSent(w) \/ MarkFailed(w)
    PROVE  CalmInv'
<1>1. PICK p, m : /\ p \in Payments /\ m \in Messages
                  /\ p = Pay(w) /\ m = actor[w].msg
  BY ActorKinds, PayTypes
<1>2. /\ w \in Actors /\ PaymentCalm(p) /\ WorkerCalm(w) /\ HasRow(p, m)
      /\ actor[w].at \in {"markSent", "markFailed"}
  BY <1>1, ActorKinds, CalmParts DEF MarkSent, MarkFailed, Mark, At, WorkerMatches
<1>3. (\A b \in Actors \ {w} : actor'[b] = actor[b]) /\ actor'[w].at = "idle"
  BY <1>2 DEF MarkSent, MarkFailed, Mark, PaymentTypeOK, Idle, Job
<1>4. /\ \A q \in Payments, k \in Messages :
             q # p \/ k # m => outbox'[q][k].status = outbox[q][k].status
      /\ outbox'[p][m].status \in {outbox[p][m].status, "SENT", "FAILED"}
  <2>1. ASSUME NEW s, outbox' = [outbox EXCEPT ![p][m].status = s, ![p][m].leased = FALSE]
        PROVE  \A q \in Payments, k \in Messages :
                   outbox'[q][k].status = IF q = p /\ k = m THEN s ELSE outbox[q][k].status
    <3> DEFINE new == [outbox[p][m] EXCEPT !.status = s, !.leased = FALSE]
    <3>1. outbox[p][m] \in Rows
      BY <1>1 DEF PaymentTypeOK
    <3>2. outbox' = [outbox EXCEPT ![p][m] = new]
      BY <1>1, <2>1 DEF PaymentTypeOK
    <3>3. new.status = s
      BY <3>1 DEF Rows
    <3> HIDE DEF new
    <3>4. \A q \in Payments, k \in Messages :
              outbox'[q][k] = IF q = p /\ k = m THEN new ELSE outbox[q][k]
      BY <1>1, <3>2 DEF PaymentTypeOK
    <3> QED BY <3>3, <3>4
  <2>2. CASE UNCHANGED outbox
    BY <2>2
  <2>3. CASE outbox' = [outbox EXCEPT ![p][m].status = "SENT", ![p][m].leased = FALSE]
    <3>1. \A q \in Payments, k \in Messages :
              outbox'[q][k].status = IF q = p /\ k = m THEN "SENT" ELSE outbox[q][k].status
      BY <2>1, <2>3, Zenon
    <3> QED BY <1>1, <3>1
  <2>4. CASE outbox' = [outbox EXCEPT ![p][m].status = "FAILED", ![p][m].leased = FALSE]
    <3>1. \A q \in Payments, k \in Messages :
              outbox'[q][k].status = IF q = p /\ k = m THEN "FAILED" ELSE outbox[q][k].status
      BY <2>1, <2>4, Zenon
    <3> QED BY <1>1, <3>1
  <2> QED BY <1>1, <2>2, <2>3, <2>4 DEF MarkSent, MarkFailed, Mark
<1>5. /\ UNCHANGED <<record, posting, willing, inbox>> /\ disturbed \subseteq disturbed'
      /\ \A q \in Payments : actor'[q] = actor[q]
  BY <1>3, Disturbance, ActorKinds DEF MarkSent, MarkFailed, Mark, bankVars
<1>6. /\ \A q \in Payments \ {p} : Quiet(q)
      /\ \A k \in Messages : HasRow(p, k)' <=> HasRow(p, k)
  BY <1>1, <1>2, <1>4, <1>5 DEF Quiet, HasRow
<1>7. (Calm(p)' => Calm(p)) /\ (Ongoing(p)' => Ongoing(p))
  BY <1>5, <1>6, BankOf DEF Calm, Ongoing
<1>8. /\ Held(p)' <=> Held(p)
      /\ Kept(p)' <=> Kept(p)
      /\ Reserved("payee", p)' <=> Reserved("payee", p)
      /\ Committed("payer", p)' <=> Committed("payer", p)
  BY <1>5 DEF Held, Kept, Reserved, Committed
<1>9. Calm(p)' /\ Dealt(p)' => ~Held(p)
  <2>1. CASE m = "NEW"
    BY <1>1, <1>2, <1>7, <2>1 DEF WorkerCalm, Effected
  <2>2. CASE m # "NEW"
    BY <1>1, <1>2, <1>4, <1>7, <2>2, BankOf DEF PaymentCalm, Dealt
  <2> QED BY <2>1, <2>2
<1>10. Steady(p) /\ PaymentCalm(p)'
  BY <1>1, <1>2, <1>5, <1>6, <1>7, <1>8, <1>9 DEF Steady, PaymentCalm, At
<1> QED BY <1>1, <1>2, <1>3, <1>6, <1>10, ActorKinds, NothingClaimed, CalmMove

\* Where an accepted message starts in the payee's bank.
LEMMA AcceptedCalm ==
    ASSUME PaymentTypeOK, PaymentInv, CalmInv, NEW w \in Workers, NEW h \in Handlers,
           NEW m \in Messages, HasRow(Pay(w), m), actor'[h] = Accepted(w, m),
           \A q \in Payments : Quiet(q)
    PROVE  HandlerCalm(h)'
<1>1. PICK p, r : p \in Payments /\ p = actor[w].pay /\ r \in Replies /\ r = inbox[p][m]
  BY ActorKinds, PayTypes DEF PaymentTypeOK, Pay
<1>2. /\ actor'[h].pay = p /\ actor'[h].msg = m
      /\ actor'[h].at \in {"answer", "prepare", "commit", "rollback"}
      /\ actor'[h].reply \in {r, "ERROR"}
  BY <1>1, AcceptedTypes DEF Pay
<1>3. PaymentCalm(p) /\ AnswerMatches(p, m, r) /\ PaymentCalm(p)' /\ Quiet(p)
  BY <1>1, QuietPayment DEF CalmInv, PaymentInv, InboxMatches
<1>4. HasRow(p, m)'
  BY <1>1, <1>3 DEF Quiet, HasRow, Pay
<1>5. r = "YES" => m = "NEW" /\ inbox'[p]["NEW"] = "YES"
  BY <1>1, <1>3 DEF AnswerMatches, Quiet
<1>6. m = "NEW" => r \in NewAnswers
  BY <1>1, <1>3 DEF PaymentCalm
<1>7. Ongoing(p)' /\ actor'[h].reply = "YES" => Kept(p)'
  BY <1>2, <1>3, <1>5 DEF PaymentCalm
<1> QED BY <1>2, <1>4, <1>6, <1>7 DEF HandlerCalm, At, Pay, NewAnswers

LEMMA SendCalm ==
    ASSUME PaymentTypeOK, PaymentInv, CalmInv, NEW w \in Workers, NEW h \in Handlers,
           Send(w, h) \/ SendCommit(w, h)
    PROVE  CalmInv'
<1>1. /\ w \in Actors /\ h \in Actors /\ w # h /\ WorkerCalm(w) /\ WorkerMatches(w)
      /\ actor \in [Actors -> Jobs] /\ actor[w] \in Jobs /\ actor[w].msg \in Messages
      /\ Pay(w) \in Payments
  BY ActorKinds, CalmParts, PayTypes DEF PaymentTypeOK
<1>2. ASSUME NEW m \in Messages, NEW place, HasRow(Pay(w), m),
             actor' = [actor EXCEPT ![w].at = place, ![h] = Accepted(w, m)],
             UNCHANGED <<bankVars, willing, outbox, inbox, banking, faultVars>>,
             place = "wait" \/ (place = "syncWait" /\ actor[w].at \in Effected)
      PROVE  CalmInv'
  <2>1. /\ \A b \in Actors \ {w, h} : actor'[b] = actor[b]
        /\ actor'[h] = Accepted(w, m)
        /\ actor'[w].at = place /\ actor'[w].pay = actor[w].pay
        /\ actor'[w].msg = actor[w].msg
    <3>1. actor'[w] = [actor[w] EXCEPT !.at = place]
      BY <1>1, <1>2
    <3>2. \A b \in Actors \ {w} : actor'[b] = IF b = h THEN Accepted(w, m) ELSE actor[b]
      BY <1>1, <1>2
    <3> QED BY <1>1, <3>1, <3>2 DEF Jobs
  <2>2. \A q \in Payments : Quiet(q)
    BY <1>2, <2>1, ActorKinds, QuietRest DEF bankVars, faultVars
  <2>3. WorkerCalm(w)'
    BY <1>1, <1>2, <2>1 DEF WorkerCalm, Effected, Pay, Calm, Held, bankVars, faultVars
  <2>4. HandlerCalm(h)'
    BY <1>2, <2>1, <2>2, AcceptedCalm
  <2>5. \A b \in Actors \ {w, h} : Stays(b)
    BY <2>1 DEF Stays
  <2> QED BY <1>1, <2>2, <2>3, <2>4, <2>5, ActorKinds, CalmStep
<1>3. CASE Send(w, h)
  BY <1>1, <1>2, <1>3 DEF Send, At, WorkerMatches
<1>4. CASE SendCommit(w, h)
  <2>1. HasRow(Pay(w), "COMMIT") /\ actor[w].at \in Effected
    BY <1>1, <1>4 DEF SendCommit, At, WorkerMatches, Effected
  <2> QED BY <1>2, <1>4, <2>1, BankOf DEF SendCommit
<1> QED BY <1>3, <1>4

\* An actor that leaves, for a job that claims nothing new.
LEMMA LeaveCalm ==
    ASSUME PaymentTypeOK, PaymentInv, CalmInv, NEW a \in Actors, NEW job, Leave(a, job),
           UNCHANGED <<bankVars, willing, outbox, inbox, banking>>,
           disturbed \subseteq disturbed',
           a \in Payments => job.at = "end",
           a \in Workers => WorkerCalm(a)',
           a \in Handlers => job = Idle
    PROVE  CalmInv'
<1>1. \A b \in Actors \ {a} : Stays(b)
  <2>1. \A b \in Actors : actor[b] \in Jobs
    BY DEF PaymentTypeOK
  <2>2. \A b \in Actors \ {a} :
            actor'[b] = IF actor[b].caller = a THEN [actor[b] EXCEPT !.caller = NoActor]
                        ELSE actor[b]
    BY DEF Leave
  <2> QED BY <2>1, <2>2 DEF Stays, Jobs
<1>2. actor'[a] = job
  BY DEF Leave
<1>3. \A q \in Payments : Quiet(q)
  BY <1>1, <1>2, ActorKinds, QuietRest DEF bankVars, Stays
<1>4. a \in Handlers => HandlerCalm(a)'
  <2>1. Idle.at = "idle" /\ Idle.msg = "NEW" /\ Idle.reply = "ERROR"
    BY DEF Idle, Job
  <2> QED BY <1>2, <2>1 DEF HandlerCalm, At, NewAnswers
<1>5. PICK p \in Payments : TRUE
  BY PayTypes
<1> QED BY <1>1, <1>3, <1>4, <1>5, ActorKinds, CalmStep

LEMMA NoAnswerCalm ==
    ASSUME PaymentTypeOK, PaymentInv, CalmInv, NEW w \in Workers, NoAnswer(w)
    PROVE  CalmInv'
<1>1. w \in Actors /\ w \notin Payments /\ w \notin Handlers /\ actor[w] \in Jobs /\ WorkerCalm(w)
  BY ActorKinds, PayTypes DEF CalmInv
<1>2. PICK place :
          /\ place = IF actor[w].at \in {"send", "wait"} THEN "retry" ELSE "markSent"
          /\ Leave(w, [actor[w] EXCEPT !.at = place])
  BY DEF NoAnswer
<1> DEFINE job == [actor[w] EXCEPT !.at = place]
<1>3. job.at = place /\ job.pay = actor[w].pay /\ job.msg = actor[w].msg
  BY <1>1 DEF Jobs
<1> HIDE DEF job
<1>4. Leave(w, job) /\ actor'[w] = job
  BY <1>1, <1>2 DEF job, Leave
<1>5. disturbed' = disturbed
  BY DEF NoAnswer, faultVars
<1>6. WorkerCalm(w)'
  <2>1. place = "retry" \/ (place = "markSent" /\ actor[w].at \in {"sync", "syncWait"})
    BY <1>2 DEF NoAnswer
  <2> QED BY <1>1, <1>3, <1>4, <1>5, <2>1
          DEF NoAnswer, bankVars, WorkerCalm, Effected, Pay, Calm, Held
<1> QED BY <1>1, <1>4, <1>5, <1>6, LeaveCalm DEF NoAnswer

LEMMA CrashCalm ==
    ASSUME PaymentTypeOK, PaymentInv, CalmInv, NEW a \in Actors, Crash(a)
    PROVE  CalmInv'
<1>1. CASE a \in Payments
  <2>1. Leave(a, Job("end", a)) /\ Job("end", a).at = "end"
    BY <1>1 DEF Crash, Job
  <2> QED BY <1>1, <2>1, ActorKinds, LeaveCalm DEF Crash
<1>2. CASE a \notin Payments
  <2>1. Leave(a, Idle) /\ Idle.at = "idle"
    BY <1>2 DEF Crash, Idle, Job
  <2>2. actor'[a].at = "idle"
    BY <2>1 DEF Leave
  <2> QED BY <1>2, <2>1, <2>2, ActorKinds, NothingClaimed, LeaveCalm DEF Crash
<1> QED BY <1>1, <1>2

LEMMA AnswerCalm ==
    ASSUME PaymentTypeOK, PaymentInv, CalmInv, NEW h \in Handlers, Answer(h)
    PROVE  CalmInv'
<1>1. PICK w, r, p, m : w = actor[h].caller /\ r = actor[h].reply /\ p = actor[h].pay
                        /\ m = actor[h].msg
  OBVIOUS
<1>2. /\ p \in Payments /\ m \in Messages /\ AnswerMatches(p, m, r) /\ PaymentCalm(p)
      /\ At(h, "vote") => m = "NEW"
  BY <1>1, Answering, ActorKinds, PayTypes DEF Pay, CalmInv
<1>3. w # NoActor =>
          /\ w \in Workers /\ w # h /\ actor[w].pay = p /\ WorkerMatches(w) /\ WorkerCalm(w)
          /\ \/ actor[w].at = "wait" /\ actor[w].msg = m
             \/ actor[w].at = "syncWait" /\ m = "COMMIT"
  BY <1>1, Answering DEF At, Pay, CalmInv
<1>4. /\ actor'[h] = Idle
      /\ \A b \in Actors \ {h, w} : actor'[b] = actor[b]
      /\ w # NoActor => /\ actor'[w].at = Heard(w, r) /\ actor'[w].pay = p
                        /\ actor'[w].msg = actor[w].msg
  BY <1>1, AnswerMoves DEF Pay
<1>5. /\ \A q \in Payments, k \in Messages :
             q # p \/ k # "COMMIT" => outbox'[q][k].status = outbox[q][k].status
      /\ \/ outbox'[p]["COMMIT"].status = outbox[p]["COMMIT"].status
         \/ HasRow(p, "COMMIT") /\ outbox'[p]["COMMIT"].status = "SENT"
  <2>1. CASE UNCHANGED outbox
    BY <2>1
  <2>2. CASE MarkCommitSent(w, r) /\ MarksCommit(w, r)
    <3>1. HasRow(p, "COMMIT") /\ actor[w].pay = p
      BY <1>3, <2>2 DEF MarksCommit, WorkerMatches, At, Pay
    <3>2. outbox' = [outbox EXCEPT ![p]["COMMIT"].status = "SENT"]
      BY <2>2, <3>1 DEF MarkCommitSent, Pay
    <3>3. outbox[p]["COMMIT"] \in Rows
      BY <1>2, BankOf DEF PaymentTypeOK
    <3>4. \A q \in Payments, n \in Messages :
              outbox'[q][n].status = IF q = p /\ n = "COMMIT" THEN "SENT"
                                     ELSE outbox[q][n].status
      BY <1>2, <3>2, <3>3, BankOf DEF PaymentTypeOK, Rows
    <3> QED BY <1>2, <3>1, <3>4, BankOf
  <2> QED BY <1>1, <2>1, <2>2 DEF Answer, MarkCommitSent
<1>6. /\ \A q \in Payments \ {p} : inbox'[q]["NEW"] = inbox[q]["NEW"]
      /\ inbox'[p]["NEW"] = inbox[p]["NEW"] \/ (m = "NEW" /\ inbox'[p]["NEW"] = r)
  <2>1. UNCHANGED inbox \/ (m = "NEW" /\ inbox' = [inbox EXCEPT ![p]["NEW"] = r])
    BY <1>1, <1>2 DEF Answer, Pay
  <2> QED BY <1>2, <2>1, BankOf DEF PaymentTypeOK
<1>7. /\ UNCHANGED <<record, posting, willing>> /\ disturbed \subseteq disturbed'
      /\ \A q \in Payments : actor'[q] = actor[q]
      /\ \A b \in Actors \ {h, w} : Stays(b)
  BY <1>3, <1>4, Disturbance, ActorKinds DEF Answer, bankVars, Stays
<1>8. /\ \A q \in Payments \ {p} : Quiet(q)
      /\ \A k \in Messages : HasRow(p, k)' <=> HasRow(p, k)
      /\ Dealt(p)' <=> Dealt(p)
  BY <1>2, <1>5, <1>6, <1>7, BankOf DEF Quiet, HasRow, Dealt
<1>9. (Calm(p)' => Calm(p)) /\ (Ongoing(p)' => Ongoing(p))
  BY <1>7, <1>8, BankOf DEF Calm, Ongoing
<1>10. /\ Held(p)' <=> Held(p)
       /\ Kept(p)' <=> Kept(p)
       /\ Reserved("payee", p)' <=> Reserved("payee", p)
       /\ Committed("payer", p)' <=> Committed("payer", p)
  BY <1>7 DEF Held, Kept, Reserved, Committed
<1>11. /\ m = "NEW" => r \in NewAnswers
       /\ Ongoing(p) /\ r = "YES" => Kept(p)
  BY <1>1 DEF CalmInv, HandlerCalm, Pay
<1>12. Steady(p) /\ PaymentCalm(p)'
  BY <1>2, <1>6, <1>7, <1>8, <1>9, <1>10, <1>11 DEF Steady, PaymentCalm, At
<1>13. w # NoActor => WorkerCalm(w)'
  <2> SUFFICES ASSUME w # NoActor PROVE WorkerCalm(w)'
    OBVIOUS
  <2>1. /\ actor'[w].at \in {"markSent", "commit", "rollback", "retry"}
        /\ actor'[w].at = "commit" => r = "YES"
        /\ actor'[w].at = "markSent" =>
               actor[w].at = "syncWait" \/ (actor[w].at = "wait" /\ r = "DONE")
    BY <1>4 DEF Heard, At
  <2>2. actor'[w].at = "markSent" /\ actor[w].msg = "NEW" => actor[w].at = "syncWait"
    BY <1>3, <1>11, <2>1 DEF NewAnswers
  <2>3. Calm(p)' /\ actor[w].msg = "NEW" /\ actor'[w].at \in Effected => ~Held(p)'
    BY <1>3, <1>9, <1>10, <2>1, <2>2 DEF WorkerCalm, Effected, Pay
  <2>4. Ongoing(p)' /\ actor'[w].at \in {"commit", "bankCommit"} => Kept(p)'
    BY <1>9, <1>10, <1>11, <2>1
  <2> QED BY <1>4, <2>3, <2>4 DEF WorkerCalm, Pay
<1>14. HandlerCalm(h)'
  <2>1. Idle.at = "idle" /\ Idle.msg = "NEW" /\ Idle.reply = "ERROR"
    BY DEF Idle, Job
  <2> QED BY <1>4, <2>1 DEF HandlerCalm, At, NewAnswers
<1>15. \A v \in Workers : Stays(v) \/ WorkerCalm(v)'
  BY <1>7, <1>13, ActorKinds
<1>16. \A k \in Handlers : Stays(k) \/ HandlerCalm(k)'
  BY <1>3, <1>7, <1>14, ActorKinds
<1> QED BY <1>2, <1>8, <1>12, <1>15, <1>16, CalmStep

LEMMA InitCalm ==
    ASSUME Init
    PROVE  CalmInv
<1>1. /\ \A p \in Payments : actor[p].at = "new"
      /\ \A a \in Workers \cup Handlers : actor[a] = Idle
  BY ActorKinds DEF Init, Job
<1>2. Idle.at = "idle" /\ Idle.msg = "NEW" /\ Idle.reply = "ERROR"
  BY DEF Idle, Job
<1>3. /\ \A p \in Payments : inbox[p]["NEW"] = "ERROR" /\ ~Dealt(p)
      /\ \A p \in Payments, m \in Messages : ~HasRow(p, m)
      /\ \A b \in Banks, p \in Payments : record[b][p] = "NONE" /\ posting[b][p] = "NONE"
  BY BankOf DEF Init, HasRow, NoRow, Dealt
<1>4. ASSUME NEW p \in Payments PROVE PaymentCalm(p)
  BY <1>1, <1>3, BankOf DEF PaymentCalm, At, NewAnswers, Held, Committed
<1>5. ASSUME NEW w \in Workers PROVE WorkerCalm(w)
  BY <1>1, <1>2 DEF WorkerCalm, Effected
<1>6. ASSUME NEW h \in Handlers PROVE HandlerCalm(h)
  BY <1>1, <1>2 DEF HandlerCalm, At, NewAnswers
<1> QED BY <1>4, <1>5, <1>6 DEF CalmInv

LEMMA StillCalm ==
    ASSUME PaymentTypeOK, PaymentInv, CalmInv, UNCHANGED vars
    PROVE  CalmInv'
<1>1. \A q \in Payments : Quiet(q)
  BY QuietRest DEF vars, bankVars, faultVars
<1>2. \A a \in Actors : Stays(a)
  BY DEF vars, Stays
<1>3. PICK p \in Payments : TRUE
  BY PaymentAssumption
<1> QED BY <1>1, <1>2, <1>3, ActorKinds, CalmStep

LEMMA CalmInvStep ==
    ASSUME PaymentTypeOK, PaymentInv, CalmInv, [Next]_vars
    PROVE  CalmInv'
<1>1. CASE UNCHANGED vars
  BY <1>1, StillCalm
<1>2. CASE \E p \in Payments : Initiate(p) \/ EnqueueNewTx(p) \/ Reject(p)
  BY <1>2, InitiateCalm, EnqueueNewTxCalm, RejectCalm
<1>3. CASE \E a \in Payments \cup Handlers : Reserve(a) \/ Confirm(a) \/ Refuse(a)
  BY <1>3, InitiatorPhaseCalm, HandlerPhaseCalm
<1>4. CASE \E h \in Handlers : Prepare(h) \/ Create(h) \/ Answer(h)
  BY <1>4, PrepareCalm, CreateCalm, AnswerCalm
<1>5. CASE \E a \in Workers \cup Handlers : LocalTransaction(a)
  BY <1>5, ReadForCommitCalm, BankCommitCalm, SaveCommitCalm,
     ReadForRollbackCalm, BankRollbackCalm, SaveRollbackCalm DEF LocalTransaction
<1>6. ASSUME NEW w \in Workers,
             \/ \E p \in Payments, m \in Messages : Claim(w, p, m)
             \/ \E h \in Handlers : Send(w, h) \/ SendCommit(w, h)
             \/ NoAnswer(w) \/ Retry(w) \/ EnqueueFollowUp(w)
             \/ ReportPaid(w) \/ ReportFailed(w) \/ MarkSent(w) \/ MarkFailed(w)
      PROVE  CalmInv'
  BY <1>6, ClaimCalm, SendCalm, NoAnswerCalm, RetryCalm, EnqueueFollowUpCalm, ReportCalm,
     MarkCalm
<1>7. CASE \E p \in Payments, m \in Messages : LeaseLapses(p, m)
  BY <1>7, LapseCalm
<1>8. CASE \E a \in Actors : Crash(a)
  BY <1>8, CrashCalm
<1> QED BY <1>1, <1>2, <1>3, <1>4, <1>5, <1>6, <1>7, <1>8, StepCases

(***************************************************************************)
(* Of a payment none of whose calls has failed: no money is left reserved   *)
(* in the payer's bank once its vote has taken effect, and the payee's bank *)
(* keeps the money it has voted for, until a ROLLBACK_TX has been written.  *)
(***************************************************************************)
THEOREM CalmInvariant == Spec => []CalmInv
<1>1. Init => CalmInv
  BY InitCalm
<1>2. PaymentTypeOK /\ PaymentInv /\ CalmInv /\ [Next]_vars => CalmInv'
  BY CalmInvStep
<1> QED BY <1>1, <1>2, PaymentTypes, PaymentInvariant, PTL DEF Spec

(***************************************************************************)
(* A payer who is debited can still have his payee credited, through lost,  *)
(* repeated and overlapping deliveries, crashes and lapsed leases, as long  *)
(* as no ROLLBACK_TX is written and no call of the payment has failed.      *)
(***************************************************************************)
THEOREM PaidCanAlwaysBeCredited == Spec => []PaidCanBeCredited
<1>1. CalmInv => PaidCanBeCredited
  BY DEF CalmInv, PaymentCalm, PaidCanBeCredited, Ongoing, Calm, HasRow, Kept, Reserved
<1> QED BY <1>1, CalmInvariant, PTL

(***************************************************************************)
(* Behind a NEW_TX that is dealt with, none of the payer's money is left    *)
(* reserved, unless a call of the payment has failed.                       *)
(***************************************************************************)
THEOREM UndisturbedIsAlwaysFreed == Spec => []UndisturbedIsFreed
<1>1. CalmInv => UndisturbedIsFreed
  BY DEF CalmInv, PaymentCalm, UndisturbedIsFreed, Calm
<1> QED BY <1>1, CalmInvariant, PTL
=============================================================================
