SPECIFICATION InterbankSpec
CONSTANTS
    Payments = {t1}
    Workers = {w1, w2}
    Handlers = {h1, h2}
    MaxAttempts = 2
    Faults = {"crash", "slow", "lost", "failure", "lost_answer"}
    MaxFaults = 3
    Attempts = {x1, x2}
    Terms = {1, 2}
    Owned = 1
    DealFaults = {"crash", "lost_answer", "failed_commit"}
    MaxDealFaults = 1
SYMMETRY InterbankSymmetry
CONSTRAINT InterbankBound
INVARIANTS
    InterbankTypeOK
    CreditIsBacked
    CompletedIsPaid
    SentCommitIsCredited
    PaidCanBeCredited
    UndisturbedIsFreed
    ContractsAgree
    DeliveredOnce
\* Every message is sent or given up, and then nothing is left to do.
CHECK_DEADLOCK FALSE
