SPECIFICATION Spec
CONSTANTS
    Instances = {i1, i2}
    i1 = i1  i2 = i2
    Releases <- MCReleases
    Cuts <- MCCuts
    MaxFaults = 1
CHECK_DEADLOCK FALSE
INVARIANTS RecordedExists InOrder
PROPERTIES ServesComplete Progress
