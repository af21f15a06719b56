SPECIFICATION PlanningSpec
CONSTANTS
    Lex <- MCLex
    FkOf <- MCFkOf
    TypeOf <- MCTypeOf
    ExprType <- MCExprType
    TimeNamed = {"ts"}
    Large = {"o"}
    Enums = {}
    Close = {}
    Requests <- MCRequests
    Within <- MCWithin
    Echo <- MCEcho
    Likeness <- MCLikeness
    AggOf <- MCAggOf
    Answers <- MCAnswers
    MaxTries = 2
    Descending = {"mon"}
CHECK_DEADLOCK FALSE
INVARIANTS
    StatementsBind
    FiltersKept
    OutputsDelivered
    DeclaredWins
    SchemaPromise
    StrictChecksPass
    SparkAgrees
    RunsTranslate
    ChainsTraced
    PlainStatementsAgree
