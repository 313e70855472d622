SPECIFICATION WorkbenchSpec
CONSTANTS
    PoseCount = 3
    FitCount = 2
    HeadRequired = 2
    MaxSessions = 1
    Versions = {1, 2}
    MaxRevisions = 4
    MaxOperations = 2
    MaxMishaps = 1
    Publications = {1}
    Places = {p1, p2}
    MaxPoses = 2
    MaxMaps = 2
    MaxDeaths = 1
    Workflows = {base_geometry, servo}
    BaseGeometry = base_geometry
    MaxSaves = 4
    MaxToolDeaths = 1
INVARIANT
    CurrentIsCompatible
CHECK_DEADLOCK FALSE
