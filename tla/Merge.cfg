SPECIFICATION Spec
CONSTANTS
    Rail = {"dcr402", "x402", "third"}
    Mints = {"dcr402", "third"}
    Key = {"bazaar", "info"}
    ExtensionsOf <- ThreeRails
    ExtraKeys = {"bazaar"}
    Site = "site"
INVARIANTS TypeOK OffersEveryWriter FirstWriterWins BodyMatchesHeader
CHECK_DEADLOCK FALSE
