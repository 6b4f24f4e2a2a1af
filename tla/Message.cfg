SPECIFICATION Spec
CONSTANTS
    LongLimit = 8
    IntLimit = 4
    Thousand = 4
    ElementToQore <- MCElementToQore
    ElementToProton <- MCElementToProton
    ElementLeft <- MCElementLeft
    Depth <- MCDepth
    Values <- MCValues
    WireValues <- MCWireValues
    Requests <- MCRequests
    ForeignMessages <- MCForeignMessages
INVARIANTS
    TypeOK
    RoundTrip
PROPERTIES
    ForwardIsExact
    ReplyCorrelates
