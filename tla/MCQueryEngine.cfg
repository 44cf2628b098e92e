\* A catalog set of three names (MaxEntries = 3) and a binder of one table
\* index: every catalog the three names can form, bound against.
SPECIFICATION QuerySpec
CONSTANTS
    Names = {"t", "add", "sub"}
    Entries <- MCEntries
    MaxEntries = 3
    Builtins <- MCBuiltins
    Tables = {"t", "add"}
    QueryBodies <- MCQueryBodies
    InsertStmts <- MCInsertStmts
    SelectNodes <- MCSelectNodes
    MaxTableIndex = 1
    NONE = NONE
    Unbound <- MCUnbound
    ExprType <- MCExprType
    BoundExprs <- MCBoundExprs
    BindContexts <- MCBindContexts
    ParsedExprs <- MCParsedExprs
    Executions <- MCExecutions
    Scans <- MCScans
    Lower <- MCLower
    Apply <- MCApply
INVARIANT TypeOK
INVARIANT NamesOwnTheirEntries
INVARIANT BuiltinsResolve
INVARIANT AliasesSurviveStar
INVARIANT InsertMapIsInverse
INVARIANT NullableHasCause
INVARIANT ColumnRefOrderFree
INVARIANT ConjunctionCoversAll
PROPERTY ImplementsCatalogMap
CHECK_DEADLOCK FALSE
