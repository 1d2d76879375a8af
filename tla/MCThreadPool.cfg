SPECIFICATION FairSpec
CONSTANTS
    MAX_THREADS = 2
    Tid = {t1, t2, t3}
    Conn = {c1, c2}
    NoTid = none
INVARIANTS TypeOK AtMostMaxThreads Registered
PROPERTY ThreadsEnd
