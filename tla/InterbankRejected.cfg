SPECIFICATION Spec
CONSTANTS
    Payments = {t1}
    Workers = {w1}
    Handlers = {h1}
    MaxAttempts = 2
    Faults = {"crash", "lost"}
    MaxFaults = 3
INVARIANT
    RejectedIsUnpaid
\* Every message is sent or given up, and then nothing is left to do.
CHECK_DEADLOCK FALSE
