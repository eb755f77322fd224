\* Two words, four results, lists of two results, three days.
SPECIFICATION Spec
CONSTANTS
    w1 = w1
    w2 = w2
    Words = {w1, w2}
    MaxWordsPerCall = 2
    MaxEntries = 2
    MaxResults = 2
    MaxReviews = 4
    MaxDay = 1
SYMMETRY WordSymmetry
INVARIANTS
    KnownMeansGraduated
    ReviewsCounted
    DueOffered
PROPERTIES
    SuspendedStays
CHECK_DEADLOCK FALSE
