SPECIFICATION Spec
CONSTANTS
    Absent = Absent
    None = None
    v1 = v1
    s1 = s1
    s2 = s2
    r1 = r1
    Variants = {v1}
    Shops = {s1, s2}
    Regions = {r1}
    Unassigned = Unassigned
    InitialMap <- MCInitialMap
    SafetyBuffer <- MCSafetyBuffer
    Dtos <- MCDtos
    Workers = {w1, w2}
    MaxMessages = 3
    MaxMappings = 1
CHECK_DEADLOCK FALSE
INVARIANT NoPhantomRegion
