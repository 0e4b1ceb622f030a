\* Every .env two edits from one of the examples, renders and starts in between
SPECIFICATION Spec
CONSTANTS
    Hosts <- MCHosts
    Ports <- MCPorts
    Paths <- MCPaths
    Extends <- MCExtends
    CorePrefixes <- MCCorePrefixes
    WebReserved <- MCWebReserved
    Examples <- MCExamples
    EditedUrls <- MCEditedUrls
    MaxEdits = 2
INVARIANTS TypeOK ReachesOwn EntryPointsInForce
