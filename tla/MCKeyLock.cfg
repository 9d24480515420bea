SPECIFICATION FairSpec
CONSTANTS
    Threads = {t1, t2, t3, t4}
    Buffers = {b1, b2}
INVARIANTS
    CountersExact
    ReaderViewCurrent
PROPERTIES
    NoReaderOvertakes
    ImplementsRWLock
    WriterProgress
    ReaderProgress
