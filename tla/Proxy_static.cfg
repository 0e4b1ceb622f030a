\* One example, one edit
SPECIFICATION Spec
CONSTANTS
    Hosts <- MCHosts
    Ports <- MCPorts
    Paths <- MCPaths
    Extends <- MCExtends
    CorePrefixes <- MCCorePrefixes
    WebReserved <- MCWebReserved
    Examples <- MCExamples
    EditedUrls <- MCEditedUrls
    MaxEdits = 1
INVARIANTS StaticInForce
