SPECIFICATION PSpec
CONSTANTS
    Connection = {k1, k2}
    Transaction = {t1, t2, t3}
    Single = {a1}
    NoTx = NoTx
    Nobody = Nobody
SYMMETRY PoolSymmetry
INVARIANTS
    CommittedWhole
    AcknowledgedDurable
PROPERTY ReadsStayTrue
CHECK_DEADLOCK FALSE
