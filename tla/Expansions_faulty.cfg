SPECIFICATION FairSpec
CONSTANTS
    Foo = Foo
    Bar = Bar
    None = None
    TypeExpansions <- MCTypeExpansions
    TypeRoutes <- MCTypeRoutes
    Requested <- MCRequested
    Database <- MCDatabase
    Bodies <- MCBodies
    Faults = {"errors", "transport", "foreign"}
INVARIANTS
    FilledByItsRoute
    UnexpandedIsExplained
    ErrorsAreRaised
PROPERTY
    ExpansionsEnd
CHECK_DEADLOCK FALSE
