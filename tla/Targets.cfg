SPECIFICATION Spec
CONSTANTS
    Resource = {"/hello", "https://x/hello"}
    USD = {1, 2}
    Hash = {h1, h2}
    Addr = {}
    Tx = {}
    Auth = {}
    Encoding = {}
    NotMinted = NotMinted
    Depth = 1
    Expirable = {}
    Hello = "/hello"
    WireURL = "https://x/hello"
    NoPrice = NoPrice
    Registrars <- TwoIndexes
    SyncTimeout = 3
    ListTimeout = 3
    SubmitTimeout = 6
    MaxLives = 1
INVARIANT NoTargetFailsOthers
CHECK_DEADLOCK FALSE
