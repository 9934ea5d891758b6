SPECIFICATION Spec
CONSTANTS
    NumFiles = 2
    Contents <- MCContents
    Disks <- MCDisks
    Parsable <- MCParsable
    NoContent = "gone"
    Ids <- MCIds
    Names <- MCNames
    NameOf <- MCNameOf
    Methods <- MCMethods
    TypeIds = {}
    Rank <- MCRank
    LikeName <- MCLike
    Paths <- MCPaths
    Declares <- MCDeclares
    CallsIn <- MCCallsIn
    ImportsIn <- MCImportsIn
    FileNode <- MCFileNode
    Unresolved <- MCUnresolved
    Passing <- MCPassing
    MaxEdits = 2
    MaxCalls = 0
    MaxMishaps = 0
INVARIANT CycleShown
CHECK_DEADLOCK FALSE
