SPECIFICATION Spec
CONSTANTS
    Mail <- SomeMail
    Mailboxes <- OneBox
    Options <- DisagreeOptions
    Facts <- HostFacts
    LocalNames <- Locals
    LocalDomains <- Domains
    Server = "server"
    MaxFaults = 2
INVARIANTS AliasesAreReal NoBlackhole
