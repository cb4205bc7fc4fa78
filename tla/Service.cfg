SPECIFICATION ServiceSpec
CONSTANTS
    Resource = {"/hello", "/topup", "tool"}
    USD = {1}
    Hash = {h1}
    Addr = {d1}
    Tx = {t1}
    Auth = {a1}
    Tool = {"tool"}
    Encoding = {e1, e2}
    NamesTx = TRUE
    SDKReads <- ReadBySDK
    Durable = FALSE
    NotMinted = NotMinted
    Depth = 1
    Expirable = {h1}
    SignedFor <- Signatures
    Request = {q1, q2}
    Rails <- UsdcFirst
    Price <- Prices
    NoPrice = NoPrice
    TopupSite = "/topup"
    TopupUSD = {1}
    RailTopup = FALSE
    CallPrice <- CallPrices
    Presented <- EveryCredential
    MaxLives = 1
SYMMETRY SymmetricRequests
INVARIANTS TypeOK BillOnce CreditsBacked OneReferencePerPayment
PROPERTIES GrantsArePaid HandlersTerminate AnswerMatchesOwnership CallAnswersMatchOwnership ImplementsLedger
