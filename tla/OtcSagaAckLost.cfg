SPECIFICATION Spec
CONSTANTS
    Contracts = {c1}
    Requesters = {r1}
    Worker = w
    MaxAttempts = 1
    BuyerMoney = 1
    SellerShares = 1
    MaxShares = 1
    MaxAccesses = 1
    BuyerShares = 0
    MaxBalance = 1
    CommitAckLost = TRUE
    Users <- MCUsers
    Accounts <- MCAccounts
    Keys <- MCKeys
    BuyerOf <- MCBuyerOf
    SellerOf <- MCSellerOf
    BuyerAccount <- MCBuyerAccount
    SellerAccount <- MCSellerAccount
    Price <- MCPrice
    Quantity <- MCQuantity
    Amounts <- MCAmounts
    Quotes <- MCQuotes
    Opening <- MCOpening
    OpeningShares <- MCOpeningShares
    OpeningReserved <- MCOpeningReserved
    NoRunner = none
INVARIANT ExercisedMeansPaid
