SPECIFICATION CallSpec
CONSTANTS
    Resource = {"/topup", "tool"}
    USD = {1}
    Hash = {h1}
    Addr = {d1}
    Tx = {t1}
    Auth = {}
    Tool = {"tool"}
    RailTopup = TRUE
    Encoding = {e1}
    NamesTx = FALSE
    SDKReads <- ReadBySDK
    Durable = TRUE
    NotMinted = NotMinted
    Depth = 1
    Expirable = {}
    SignedFor <- NoSignatures
    Request = {q1}
    Rails <- DcrOnly
    Price <- Prices
    NoPrice = NoPrice
    TopupSite = "/topup"
    TopupUSD = {1}
    CallPrice <- CallPrices
    Presented <- LightningProofs
    MaxLives = 1
INVARIANT WorkIsForValidPayments
