SPECIFICATION FairSpec
CONSTANTS
    Mail <- SomeMail
    Mailboxes <- SomeBoxes
    Options <- SafeOptions
    Facts <- HostFacts
    LocalNames <- Locals
    LocalDomains <- Domains
    Server = "server"
    MaxFaults = 2
INVARIANTS InStep Faithful RightRecipients
