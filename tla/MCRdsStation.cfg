SPECIFICATION GroupsSpec
CONSTANTS
    Letters = {"a", "b"}
    CharsPerBlock = 1
    Inputs <- TextAndPsInputs
    Channel <- MCChannel
    PsSegments = 4
    TextSegments = 2
    Name <- MCName
    Texts <- MCTexts
    Programmes <- MCProgrammes
INVARIANTS
    BestIsKept
    TextIsOfOneMessage
    ReportedIsWhole
PROPERTIES
    TextSettles
    NameSettles
