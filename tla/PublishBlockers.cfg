SPECIFICATION ReviewSpec
CONSTANTS
    Editors = {e1}
    Publishers = {p1}
    PublishKeys = {k1}
    Packages <- MCPackages
    Resolvers = {}
    ResolveKeys = {}
    ResolvedRules = {}
    MaxEvents = 2
    MaxEdits = 2
    MaxReports = 1
    MaxAssemblies = 0
    MaxResolutions = 0
CHECK_DEADLOCK FALSE
PROPERTY NoBlockersPublished
