SPECIFICATION FairSpec
CONSTANTS
    NumFiles = 2
    Contents <- MCContents
    Disks <- MCDisks
    Parsable <- MCParsable
    NoContent = "gone"
    Ids <- MCIds
    Names <- MCNames
    NameOf <- MCNameOf
    Methods <- MCMethods
    TypeIds = {}
    Rank <- MCRank
    LikeName <- MCLike
    Paths <- MCPaths
    Declares <- MCDeclares
    CallsIn <- MCCallsIn
    ImportsIn <- MCImportsIn
    FileNode <- MCFileNode
    Unresolved <- MCUnresolved
    Passing <- MCPassing
    MaxEdits = 1
    MaxCalls = 1
    MaxMishaps = 1
INVARIANT TypeOK ViewNeverStale EdgesGrounded
PROPERTY ViewHeals ImplementsView
CHECK_DEADLOCK FALSE
