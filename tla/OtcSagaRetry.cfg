SPECIFICATION Spec
CONSTANTS
    Contracts = {c1}
    Requesters = {r1, r2}
    Worker = w
    MaxAttempts = 2
    BuyerMoney = 2
    SellerShares = 1
    MaxShares = 1
    MaxAccesses = 1
    BuyerShares = 0
    MaxBalance = 1
    CommitAckLost = FALSE
    Users <- MCUsers
    Accounts <- MCAccounts
    Keys <- MCKeys
    BuyerOf <- MCBuyerOf
    SellerOf <- MCSellerOf
    BuyerAccount <- MCBuyerAccount
    SellerAccount <- MCSellerAccount
    Price <- MCPrice
    Quantity <- MCQuantity
    Amounts <- MCAmounts
    Quotes <- MCQuotes
    Opening <- MCOpening
    OpeningShares <- MCOpeningShares
    OpeningReserved <- MCOpeningReserved
    NoRunner = none
SYMMETRY Symmetric
INVARIANTS
    SagaInv
    ExercisedMeansPaid
    FailedMeansRefunded
    OneLiveAttempt
PROPERTIES
    DeliveryVersusPayment
