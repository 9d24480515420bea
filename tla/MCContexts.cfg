CONSTANTS
    Ctxs = {c1, c2}
    RsaKeys <- MCRsaKeys
    InitLists <- MCInitLists
    SigLists <- MCSigLists
    MaxSets = 1
    SigChunks = 2
    EncKeys <- MCEncKeys
    EncLists <- MCEncLists
    TokenDigests = {"sha1", "sha256"}
    Keys <- MCKeys
    AppKeys <- MCAppKeys
    Names = {"sha1", "sha256"}
    DigestSize <- MCDigestSize
    Strings = {"s"}
    MaxChunks = 1
SPECIFICATION Spec
SYMMETRY Symmetry
INVARIANTS WholeMessage RestrictionsHold SignaturesVerify RefsExact
CHECK_DEADLOCK FALSE
