SPECIFICATION ReviewSpec
CONSTANTS
    Editors = {e1}
    Publishers = {p1, p2}
    PublishKeys = {k1, k2}
    Packages <- MCPackages
    Resolvers = {r1, r2}
    ResolveKeys = {x1}
    ResolvedRules = {"header", "missing_synthesis"}
    MaxEvents = 3
    MaxEdits = 2
    MaxReports = 2
    MaxAssemblies = 1
    MaxResolutions = 2
CHECK_DEADLOCK FALSE
SYMMETRY Symmetry
INVARIANTS
    ReviewTypeOK
    ReadyMeansValidated
    PublishedOnce
    OnlyEventlessDraftsPass
    ResolvedByRequest
PROPERTIES
    ImplementsPublishing
    AssembledEventsAreSupported
