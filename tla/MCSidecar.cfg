CONSTANTS
    Procs <- MCProcs
    Annots = {a}
    Edited = {a}
    Keys = {k}
    Tops = {}
    Excluded = {}
    Docs <- QuickDocs
    Found <- FoundNested
    Room = 5
    Inodes = {1, 2, 3}
    MaxDraws = 1
    MaxCrashes = 1
    a = a
    k = k
    t = t
    p1 = p1
    p2 = p2
SPECIFICATION StoreSpec
CONSTRAINT FirstAfterStop
VIEW Seen
SYMMETRY Symmetric
INVARIANTS WholeUnlessShared NoLitter
PROPERTIES KeptWhenItFits UnforcedSaveMatches
