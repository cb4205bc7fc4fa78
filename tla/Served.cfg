SPECIFICATION ServiceFairSpec
CONSTANTS
    Resource = {"/topup", "tool"}
    USD = {1}
    Hash = {h1}
    Addr = {d1}
    Tx = {t1}
    Auth = {}
    Tool = {"tool"}
    Encoding = {e1}
    NamesTx = FALSE
    SDKReads <- ReadBySDK
    Durable = FALSE
    NotMinted = NotMinted
    Depth = 1
    Expirable = {}
    SignedFor <- NoSignatures
    Request = {q1}
    Rails <- DcrOnly
    Price <- Prices
    NoPrice = NoPrice
    TopupSite = "/topup"
    TopupUSD = {1}
    RailTopup = TRUE
    CallPrice <- CallPrices
    Presented <- DecredProofs
    MaxLives = 2
PROPERTIES LightningCredited DepositCredited PaidCallDelivered
