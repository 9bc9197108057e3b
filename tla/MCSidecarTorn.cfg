CONSTANTS
    Procs <- MCProcs
    Annots = {a}
    Edited = {a}
    Keys = {k, t}
    Tops = {t}
    Excluded = {}
    Docs <- MCDocs
    Found <- FoundBoth
    Room = 9
    Inodes = {1, 2, 3}
    MaxDraws = 1
    MaxCrashes = 0
    a = a
    k = k
    t = t
    p1 = p1
    p2 = p2
SPECIFICATION StoreSpec
SYMMETRY Symmetric
INVARIANT TargetWhole
