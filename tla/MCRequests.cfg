SPECIFICATION MCSpec
CONSTANTS
    q1 = q1
    q2 = q2
    q3 = q3
    q4 = q4
    Requests = {q1, q2, q3, q4}
    Inputs <- MCInputs
    Configs <- MCConfigs
INVARIANTS FieldsPromise QuotaPerPeer AnswersExplained UploadsExplained
PROPERTY EveryRequestAnswered
CHECK_DEADLOCK FALSE
