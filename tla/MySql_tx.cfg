SPECIFICATION Spec
CONSTANTS
    p = p
    q = q
    Procs = {p, q}
    ConnStrs = {"db"}
    NonTransaction = NonTransaction
    NoTx = NoTx
    MaxEvents = 6
    Times = {1, 2}
    SeqModulus = 4
    KeptSeq = 2
    LowSpan = 2
    DomainSpan = 2
    Domains = {"org"}
    Randoms = {1, 2}
    ByteGroups <- MCGroups
    PrefixLen = 3
    Texts <- MCTexts
    Spares <- MCSpares
SYMMETRY Symmetry
INVARIANTS UniqueV1 ParseOutcome InstanceBound TxTracked OutcomeOnce PanicCauses
CHECK_DEADLOCK FALSE
