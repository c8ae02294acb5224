SPECIFICATION Spec
CONSTANTS
    Scores = {s1}
    Learns = {l1}
    Readers = {}
    Primers = {}
    StatusOf <- SampleStatus
    MaxOutcomes = 2
    MaxClears = 2
    None = none
INVARIANT RedIsRefused
