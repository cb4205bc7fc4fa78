SPECIFICATION FairSpec
CONSTANTS
    Mint = {m1, m2}
    USDMicros <- Amounts
    Rate <- Rates
    Foreign <- OtherRates
    Fallback = 12
    MaxAtoms = 100000
    TTL = 2
    MaxTime = 4
    NoOne = NoOne
INVARIANTS TypeOK QuotesCoverPrice
PROPERTIES UsesBestRate ImplementsAtomicRate MintAnswered
