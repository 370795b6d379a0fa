SPECIFICATION MaintenanceSpec
CONSTANTS
    HttpRequest = {r1, r2}
    Caller = {r1}
    Job = {j1}
    MaxTime = 2
    MaxRows = 1
    CacheLife = 1
    EndTime = {1}
INVARIANTS
    MaintenanceTypeOK
    AnnouncedInTheEnd
PROPERTIES
    SwitchHolds
    OverdueEnds
