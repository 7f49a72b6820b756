SPECIFICATION Spec
CONSTANTS
    Offers = {o1}
    Requesters = {r1, r2, r3}
    Publishers = {}
    Portions = {}
    Owned = 3
    OpeningPublic = 3
    StalePublish = FALSE
    Faults = {}
    Terms <- MCOneTerm
INVARIANT
    PremiumPaidOnce
\* Every request ends, and then nothing is left to do.
CHECK_DEADLOCK FALSE
