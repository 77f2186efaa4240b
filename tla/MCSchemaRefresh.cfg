CONSTANTS
    Relations = {"r"}
    Columns = {"c"}
    Indexes = {}
    Callers = {c1, c2}
    Listed <- MCListed
    Changes <- MCChanges
    Unanswered <- MCUnanswered
    Refreshed <- MCRefreshed
    MaxRunning = 1
SPECIFICATION FairSchemaSpec
INVARIANTS SchemaTypeOK KeyMeansRefresh ScopeIsOneIntrospection FoundIsListed
PROPERTIES RefreshEnds
