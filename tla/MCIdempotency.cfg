SPECIFICATION FairSpec
CONSTANTS
    pay = pay
    cmd = cmd
    first = first
    second = second
    None = None
    Attempts = {a1, a2, a3, b1, b2}
    CmdAttempts = {b1, b2}
    SecondAttempts = {a3}
    Keys = {pay, cmd}
    Hashes = {first, second}
    External = {pay}
    KeyOf <- MCKeyOf
    HashOf <- MCHashOf
INVARIANTS
    AnswersAgree
    LiveClaimExcludes
    TxEffectOnce
PROPERTIES
    SucceededIsFinal
    ImplementsAnswerOnce
    EveryAttemptEnds
CHECK_DEADLOCK FALSE
