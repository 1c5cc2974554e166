\* Two concurrent transactions, one pre-chain row, verification in pages of two rows.
SPECIFICATION Spec
CONSTANTS
    w1 = w1
    w2 = w2
    Writers <- MCWriters
    NoWriter = NoWriter
    Retention = 1
    LegacyMonths <- OneLegacy
    StartMonth = 0
    ChunkSize = 2
    MaxSeq = 4
    MaxMonth = 3
SYMMETRY WriterSymmetry
INVARIANTS TypeOK NoFork UntamperedChainVerifies NoFalseAlarm
PROPERTIES CommitsAppend OnlyArchivedRowsPruned
