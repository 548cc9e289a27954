CONSTANTS
    u1 = u1
    u2 = u2
    b1 = b1
    b2 = b2
    Undefined = Undefined
    Uuids <- MCUuids
    Bodies <- MCBodies
    MaxRequests = 2
SPECIFICATION Spec
INVARIANTS
    TypeOK
    OneActionPerVisit
    FormBelongsToRoute
