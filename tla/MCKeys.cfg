CONSTANTS
    Objs = {o1, o2}
    Keys = {k1, k2, k3}
    Pairs = {1, 2}
    Faults = {"pq"}
    Families <- MCFamilies
    HwTypes <- MCHwTypes
    Entries <- MCEntries
    Streams <- MCStreams
SPECIFICATION Spec
SYMMETRY Symmetry
INVARIANTS TypeOK OwnedOnce GuessAndPair EqualIsSame BothPartsCount EachOnce
