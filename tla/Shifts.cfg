SPECIFICATION Spec
CONSTANTS
    Instants = {0, 1, 2, 3, 4, 5}
    Breaks = {0, 1}
    Types = {"day", "night"}
    DateOf <- MCDateOf
    SlotsPerHour = 2
    MaxBreak = 1
    DaysPerWeek = 2
    Ids = {i1, i2}
    Keep = Keep
    Notes = {"null", "text"}
    Writers = {w1, w2}
    Readers = {s1}
    Creates <- MCCreates
    Patches <- MCPatches
    RateRows <- MCRateRows
    Ranges <- MCRanges
SYMMETRY MCSymmetry
INVARIANTS RowsAreShifts SummariesAreTrue
PROPERTIES PatchChangesWhatItSent
