SPECIFICATION Spec
INVARIANTS
    AllOrNothing
    HandlerSafe
    ListedIsWhole
    ReleasesOwned
