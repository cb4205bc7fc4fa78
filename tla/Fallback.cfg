SPECIFICATION Spec
CONSTANTS
    Resource = {"/hello", "/topup"}
    USD = {1, 2}
    Hash = {}
    Addr = {}
    Tx = {}
    Auth = {"a1"}
    Tool = {}
    RailTopup = TRUE
    Encoding = {"e1", "e2"}
    NamesTx = FALSE
    SDKReads <- ReadBySDK
    Durable = TRUE
    NotMinted = NotMinted
    Depth = 1
    Expirable = {}
    SignedFor <- Signatures
    Request = {q1}
    Rails <- UsdcOnly
    Price <- Prices
    NoPrice = NoPrice
    TopupSite = "/topup"
    TopupUSD = {1, 2}
    Presented <- UsdcProofs
    MaxLives = 2
SYMMETRY SymmetricRequests
INVARIANT OneReferencePerPayment
