\* Progress of lock waiters; no pre-chain rows and two numbered rows.
SPECIFICATION FairSpec
CONSTANTS
    w1 = w1
    w2 = w2
    Writers <- MCWriters
    NoWriter = NoWriter
    Retention = 1
    LegacyMonths <- NoLegacy
    StartMonth = 0
    ChunkSize = 2
    MaxSeq = 2
    MaxMonth = 1
PROPERTIES LockIsServed
