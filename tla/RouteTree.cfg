\* The generated route tree: the tables agree and resolution is unique.
CONSTANT Values <- MCValues
SPECIFICATION Spec
INVARIANT RouteTablesAgree
INVARIANT ResolutionUnique
