SPECIFICATION BankingSpec
CONSTANTS
    Accounts <- MCAccounts
    Keys = {k1, k2}
    Amounts <- MCAmounts
    Quotes <- MCQuotes
    Opening <- MCOpening
    MaxBalance = 3
    DailyLimit = 2
    MaxTries = 2
    MaxSent = 2
    Foreign = "abroad"
    Txs <- MCTxs
    Deal <- MCDeal
    PayAccounts <- MCPayAccounts
    PayOpening <- MCPayOpening
    Calls = {c1, c2}
    CashCalls = {c1, c2}
    CardCalls = {c1, c2}
    CashAccounts = {"anaRSD", "anaEUR", "bank"}
    Currencies = {"RSD", "EUR"}
    Currency <- MCCurrency
    Active = {"anaRSD", "bank"}
    Clients = {"ana"}
    ClientOf <- MCClientOf
    BankAccounts <- MCBankAccounts
    PrepareRequests <- MCRequests
    Rates = {1, 2}
    CashOpening <- MCCashOpening
    Period = 2
    MaxFunds = 1
    MaxPersonal = 2
    MaxBusiness = 1
    Employees = {c1, c2}
    CardIds = {card1, card2, card3}
    Personal = {personal}
    Business = {business}
    RequestIds = {r1, r2}
    Postings = {post1, post2}
    LoanRequests = {loan1}
CONSTRAINT BankingBound
SYMMETRY BankingSymmetry
CHECK_DEADLOCK FALSE
INVARIANTS
    BankingTypeOK
    HoldsMatchReservations
    LedgerExact
    MovedOnce
    BooksBalance
    SettledOnce
    HoldsArePrepared
    PaidOutOnce
    InstallmentsCounted
    CardsAreLimited
