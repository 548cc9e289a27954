CONSTANTS
    r1 = r1
    r2 = r2
    r3 = r3
    Undefined = Undefined
    Rules <- MCRules
    SeedData <- MCSeedData
SPECIFICATION Spec
INVARIANTS
    ReportedAreShown
