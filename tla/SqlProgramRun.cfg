SPECIFICATION FairSpec
CONSTANTS
    N = 3
    Temps = {1}
    Timeout = 2
    Grace = 1
INVARIANTS TypeOK FailureBlocks ReportIsFaithful AnswerEndsTheWorker LeftoversWereTried NeverPackagesAHalfRun
PROPERTIES CallerIsAnswered
CHECK_DEADLOCK FALSE
