\* Two connections' worth of commands, each of which may fail, one crash and one removal refused.
CONSTANTS
    Servers4 = {"server1"}
    Servers6 = {"server3"}
    HostHasV6 = TRUE
    Requests <- SomeRequests
    Faults <- AllFaults
    MaxCrashes = 1
    MaxRefusals = 1
SPECIFICATION Spec
INVARIANTS
    TypeOK
    DialsEscapeTun
    BypassStaysOut
    LanIsNotSentToGateway
    ConnectedCarriesAll
    NothingFlashesPast
    DownIsUntouched
PROPERTIES
    SplitOwnsItsTable
