SPECIFICATION Spec
CONSTANTS
    Provider <- MCProvider
    Pasted <- MCPasted
    Drafts <- MCDrafts
    MaxRedirects = 1
    MaxRows = 1
    MaxCards = 2
    MaxCalls = 2
PROPERTIES
    SelectionStays
    SelectionSurvivesReload
    EveryCardIsPolled
