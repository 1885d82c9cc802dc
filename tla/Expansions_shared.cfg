SPECIFICATION FairSpec
CONSTANTS
    Foo = Foo
    Bar = Bar
    None = None
    TypeExpansions <- MCTypeExpansions
    TypeRoutes <- MCSharedRoutes
    Requested <- MCRequested
    Database <- MCSharedDatabase
    Bodies <- MCBodies
    Faults = {}
INVARIANT
    FilledByItsRoute
CHECK_DEADLOCK FALSE
