SPECIFICATION Spec
CONSTANTS
    Resource = {"/hello", "/topup", "/free"}
    USD = {1, 2}
    Hash = {h1, h2}
    Addr = {}
    Tx = {}
    Auth = {}
    Tool = {}
    RailTopup = TRUE
    Encoding = {e1}
    NamesTx = FALSE
    SDKReads <- ReadBySDK
    Durable = FALSE
    NotMinted = NotMinted
    Depth = 1
    Expirable = {h1, h2}
    SignedFor <- NoSignatures
    Request = {q1, q2}
    Rails <- DcrOnly
    Price <- Prices
    NoPrice = NoPrice
    TopupSite = "/topup"
    TopupUSD = {1, 2}
    Presented <- LightningProofs
    MaxLives = 2
SYMMETRY Symmetric
INVARIANTS TypeOK BillOnce CreditsBacked
PROPERTIES GrantsArePaid
