SPECIFICATION Spec
CONSTANTS
    Resource = {"/topup"}
    USD = {1, 2}
    Hash = {h1}
    Addr = {d1, d2}
    Tx = {t1}
    Auth = {}
    Tool = {}
    RailTopup = TRUE
    Encoding = {e1}
    NamesTx = FALSE
    SDKReads <- ReadBySDK
    Durable = TRUE
    NotMinted = NotMinted
    Depth = 2
    Expirable = {d1}
    SignedFor <- NoSignatures
    Request = {q1, q2}
    Rails <- DcrOnly
    Price <- Prices
    NoPrice = NoPrice
    TopupSite = "/topup"
    TopupUSD = {1, 2}
    Presented <- OnchainProofs
    MaxLives = 2
SYMMETRY SymmetricRequests
INVARIANTS BillOnce CreditsBacked
PROPERTIES GrantsArePaid ImplementsLedger
