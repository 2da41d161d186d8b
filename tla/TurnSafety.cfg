SPECIFICATION FairSpec
CONSTANTS
  Msgs = {1, 2}
  Domains = 3
  Capacity = 2
  Configs <- MCConfigs
  ReplyLines = {1}
  MaxSessions = 2
  MaxFaults = 2
INVARIANTS InStep PipeFaithful
PROPERTIES Transfer PipeMoves
CHECK_DEADLOCK FALSE
