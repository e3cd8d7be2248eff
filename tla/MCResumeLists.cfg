CONSTANTS
    Lists <- MCLists
    End = 5
SPECIFICATION Spec
INVARIANTS MergedSeparated SavedIsUnion AsksForMissing
