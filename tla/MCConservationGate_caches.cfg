SPECIFICATION Spec
CONSTANTS
    Scores = {r1}
    Learns = {l1}
    Readers = {r1}
    Primers = {r1}
    StatusOf <- SampleStatus
    MaxOutcomes = 2
    MaxClears = 2
    None = none
INVARIANTS CountsAreCurrent InFlightHasAReader ReceiptShowsOutcome StatusIsOneClearBehind
