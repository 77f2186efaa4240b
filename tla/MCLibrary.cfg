CONSTANTS
    w1 = w1
    w2 = w2
    d1 = d1
    d2 = d2
    d3 = d3
    Writers = {w1, w2}
    Calls = {d1, d2, d3}
    Queries = {1}
    Ids = {1, 2, 3, 4}
    Retained = 2
    LastSecond = 2
SYMMETRY MCSymmetry
SPECIFICATION LibSpec
INVARIANTS RecordedIsApplied HistoryIsBounded
PROPERTIES CreationIsKept
