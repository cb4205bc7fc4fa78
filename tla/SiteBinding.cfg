SPECIFICATION Spec
CONSTANTS
    Resource = {"/hello", "/other", "/topup"}
    USD = {1, 2}
    Hash = {}
    Addr = {}
    Tx = {}
    Auth = {"a1", "a2"}
    Tool = {}
    RailTopup = TRUE
    Encoding = {"e1"}
    NamesTx = FALSE
    SDKReads <- ReadBySDK
    Durable = TRUE
    NotMinted = NotMinted
    Depth = 1
    Expirable = {}
    SignedFor <- Signatures
    Request = {q1, q2}
    Rails <- UsdcOnly
    Price <- Prices
    NoPrice = NoPrice
    TopupSite = "/topup"
    TopupUSD = {1, 2}
    Presented <- UsdcProofs
    MaxLives = 2
SYMMETRY SymmetricRequests
PROPERTIES BoundToSite
