SPECIFICATION Spec
CONSTANTS
    Configs <- MCConfigs
    Offers <- MCOffers
    MaxPolls = 2
INVARIANTS PreauthIsFresh TlsEnforced
CHECK_DEADLOCK FALSE
