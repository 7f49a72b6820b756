SPECIFICATION TradingSpec
CONSTANTS
    Offers = {o1, o2}
    Requesters = {1, 2, 3, 4}
    Publishers = {p1}
    Portions = {1}
    Owned = 2
    OpeningPublic = 1
    StalePublish = FALSE
    Faults = {"crash", "lost_answer", "failed_commit"}
    Terms <- MCTerms
    OrderCalls = {call}
    FundClients = {client1}
    Calls = {q1, q2}
    ActuaryCalls = {q1, q2}
    Passwords = {q3, q4}
    MaxFailedLogins = 1
    MaxTokens = 3
    MaxUsed = 1
    Pair = {q1, q2}
    Others = {q3, q4}
    TradeOrders <- MCOrders
    TradeOrder <- MCOrder
    TradeHolders <- MCHolders
    TradeOpening <- MCOpening
    Workers = {"loop", "withdrawal"}
    Loop = "loop"
    OrderLimit = 2
    MaxPaid = 2
    Taxpayers = {"client", "employee"}
    TaxActuaries = {"employee"}
    TaxAmounts = {1}
    MaxTax = 2
    FundAmounts = {2}
    Navs = {1, 2}
    MaxLiquid = 4
    MaxFundUnits = 4
    MaxRuns = 2
    MaxRunFaults = 2
    Inflow = 4
    Reinvested = 2
    Price = 2
    QuotePrice = 1
    AskPrices = {2, 3}
    MaxShares = 1
    Day = 5
    Week = 3
    Weekend = {2}
    OpenTime = 1
    CloseTime = 3
    AfterHoursWindow = 2
    AfterHoursDelay = 1
    Offsets <- MCOffsets
    Asks <- MCAsks
    Prices = {1, 2}
    NoPrice = 0
    MaxWait = 1
    MaxClock = 19
    Size = 2
    OpeningOption = 4
    MaxStock = 2
    MaxSettled = 3
CONSTRAINT TradingBound
SYMMETRY TradingSymmetry
INVARIANTS
    TradingTypeOK
    UnagreedIsRefunded
    ContractIsPaid
    ContractsCovered
    ReservedIsContracted
    FillsAgree
    SharesExact
    TaxAccounted
    UnitsExact
    ScheduledOnce
    DividendsExact
    ActuaryIsExact
PROPERTIES
    DeclinedIsFinal
    ChangesAreEntitled
\* Requests and orders end, and then nothing is left to do.
CHECK_DEADLOCK FALSE
