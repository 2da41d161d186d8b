SPECIFICATION FairSpec
CONSTANTS
    Configs <- MCConfigs
    Offers <- MCOffers
    MaxPolls = 2
INVARIANTS SidesAgree PasswordGuarded
PROPERTIES EachPollEnds
CHECK_DEADLOCK FALSE
