--------------------------- MODULE SqlProgramRun ---------------------------
(***************************************************************************)
(* One SqlProgram executed on DuckDB (sql/executor.py, process_guard.py,   *)
(* executor_worker.py).  The calling thread starts a worker process and    *)
(* waits for its answer, no longer than a hard limit; the worker runs the  *)
(* statements on one connection and drops the temporary tables; every      *)
(* statement has a timer thread that interrupts whatever the connection is *)
(* running when it fires.  The caller decides on the answer whether a      *)
(* review package is built (api/pipeline.py).                              *)
(*                                                                         *)
(* Rows, traces and summaries are left out: a statement's result is its    *)
(* ExecutionStatus.  A killed worker is gone at once.                      *)
(***************************************************************************)
EXTENDS Naturals, Sequences

CONSTANTS
    N,          \* statements of the program
    Temps,      \* those that create a temporary table, to be dropped
    Timeout,    \* timeout_sec, in ticks of the clock
    Grace       \* what the hard limit adds to it

ASSUME ProgramAssumption ==
    /\ N \in Nat \ {0}
    /\ Temps \subseteq 1..N
    /\ Timeout \in Nat \ {0}
    /\ Grace \in Nat

Statements == 1..N
HardLimit == Timeout + Grace

\* run_all over compute steps reads the status only of a last result that
\* exists; run_all over a join chain and execute read it always.
Callers == {"steps", "chain"}
Status == {"PASS", "FAIL", "TIMEOUT", "LARGE", "NOT_EXECUTED"}

\* How a statement ended in DuckDB: with all rows, with too many rows, with
\* an error (whose text may speak of a timeout), or interrupted.
Ending == {"ok", "large", "error", "timeout error", "interrupted"}

VARIABLES
    caller,    \* which entry method executes the program
    parent,    \* the calling thread
    worker,    \* the worker process
    at,        \* the statement the worker is at
    query,     \* what the connection runs: statement i, drop N + i, nothing 0
    hit,       \* an interrupt has reached that query
    todo,      \* temporary tables still to be dropped
    tables,    \* temporary tables that exist
    timer,     \* the timer thread of each statement
    age,       \* time since the last timer started
    total,     \* time since the worker started
    results,   \* the worker's list of statement results
    report,    \* the ProgramExecutionResult the caller gets: who made it,
               \* the results, and the name of the failed statement or 0
    outcome,   \* what the caller makes of it
    ended,     \* history: how each statement ended in DuckDB
    undropped  \* history: temporary tables whose DROP failed

vars == <<caller, parent, worker, at, query, hit, todo, tables, timer, age,
          total, results, report, outcome, ended, undropped>>

Alive == worker \in {"boot", "arm", "execute", "record", "drop"}
NoReport == [by |-> "nobody", results |-> <<>>, failedAt |-> 0]

Init ==
    /\ caller \in Callers
    /\ parent = "start" /\ worker = "off"
    /\ at = 1 /\ query = 0 /\ hit = FALSE
    /\ todo = Temps /\ tables = {}
    /\ timer = [i \in Statements |-> "off"]
    /\ age = 0 /\ total = 0
    /\ results = <<>> /\ report = NoReport /\ outcome = "none"
    /\ ended = [i \in Statements |-> "not run"]
    /\ undropped = {}

-----------------------------------------------------------------------------
(* The calling thread. *)

\* What the caller gets when the worker gave no usable answer.
Failure(status) == [by |-> "parent", results |-> <<status>>, failedAt |-> 1]

\* failed_at: the statement the worker stopped at, if it stopped at one.
FailedAt(rs) ==
    IF rs = <<>> \/ rs[Len(rs)] \in {"PASS", "NOT_EXECUTED"} THEN 0 ELSE Len(rs)

Get(r) ==
    /\ parent' = "decide" /\ report' = r
    /\ UNCHANGED <<caller, at, todo, timer, age, total, results, outcome,
                   tables, ended, undropped>>

StartWorker ==
    /\ parent = "start"
    /\ parent' = "wait" /\ worker' = "boot"
    /\ UNCHANGED <<caller, at, query, hit, todo, tables, timer, age, total,
                   results, report, outcome, ended, undropped>>

\* The process guard or Popen fails: no worker is left.
StartFails ==
    /\ parent = "start"
    /\ Get(Failure("FAIL"))
    /\ UNCHANGED <<worker, query, hit>>

\* communicate returns: the answer is the worker's.
ReceiveAnswer ==
    /\ parent = "wait" /\ worker = "answered"
    /\ Get([by |-> "worker", results |-> results, failedAt |-> FailedAt(results)])
    /\ UNCHANGED <<worker, query, hit>>

\* The worker died, or its answer is too long or not JSON.
ReceiveFailure ==
    /\ parent = "wait" /\ worker \in {"answered", "dead"}
    /\ Get(Failure("FAIL"))
    /\ UNCHANGED <<worker, query, hit>>

\* Mutant of Terminated: the caller gives up on the worker and lets it run.
TerminatedNot(w) == w

\* ProcessGuard.terminate kills what has not ended by itself.
Terminated(w) == IF w = "answered" THEN w ELSE "dead"

\* Mutant of LimitPassed: the limit counts only while statements run.
LimitPassedInStatement == total >= HardLimit /\ worker \in {"arm", "execute", "record"}

\* communicate raises TimeoutExpired.
LimitPassed == total >= HardLimit

\* The hard limit passes: the worker is killed and its results are lost.
HardTimeout ==
    /\ parent = "wait" /\ LimitPassed
    /\ worker' = Terminated(worker)
    /\ query' = 0 /\ hit' = FALSE
    /\ Get(Failure("TIMEOUT"))

\* Mutant of Verdict: the decision goes by the first result.
VerdictOfFirst(rs, by) ==
    IF rs = <<>> THEN IF by = "steps" THEN "package" ELSE "error"
    ELSE IF rs[1] = "PASS" THEN "package" ELSE "blocked"

\* What a caller makes of the results: it looks at the last one.  Without
\* results, reading the status raises in one caller, and the other has no
\* status to object to.
Verdict(rs, by) ==
    IF rs = <<>> THEN IF by = "steps" THEN "package" ELSE "error"
    ELSE IF rs[Len(rs)] = "PASS" THEN "package" ELSE "blocked"

Decide ==
    /\ parent = "decide"
    /\ parent' = "done"
    /\ outcome' = Verdict(report.results, caller)
    /\ UNCHANGED <<caller, worker, at, query, hit, todo, tables, timer, age,
                   total, results, report, ended, undropped>>

-----------------------------------------------------------------------------
(* The worker process. *)

\* duckdb is not installed: every statement is reported as not executed.
ImportFails ==
    /\ worker = "boot"
    /\ worker' = "answered"
    /\ results' = [i \in Statements |-> "NOT_EXECUTED"]
    /\ UNCHANGED <<caller, parent, at, query, hit, todo, tables, timer, age,
                   total, report, outcome, ended, undropped>>

\* Tables that do not load are skipped: a statement will miss them.
Connect ==
    /\ worker = "boot"
    /\ worker' = "arm"
    /\ UNCHANGED <<caller, parent, at, query, hit, todo, tables, timer, age,
                   total, results, report, outcome, ended, undropped>>

\* No connection, or one that refuses its settings (the drops still run).
ConnectFails ==
    /\ worker = "boot"
    /\ worker' \in {"answered", "drop"}
    /\ UNCHANGED <<caller, parent, at, query, hit, todo, tables, timer, age,
                   total, results, report, outcome, ended, undropped>>

ArmTimer ==
    /\ worker = "arm"
    /\ worker' = "execute"
    /\ timer' = [timer EXCEPT ![at] = "armed"] /\ age' = 0
    /\ UNCHANGED <<caller, parent, at, query, hit, todo, tables, total,
                   results, report, outcome, ended, undropped>>

BeginQuery ==
    /\ worker = "execute" /\ query = 0
    /\ query' = at /\ hit' = FALSE
    /\ UNCHANGED <<caller, parent, worker, at, todo, tables, timer, age,
                   total, results, report, outcome, ended, undropped>>

\* execute and fetchmany.  A query may end before it sees the interrupt; a
\* statement that creates a table has no rows to fetch.
EndQuery(how) ==
    /\ worker = "execute" /\ query = at
    /\ how = "interrupted" => hit
    /\ how = "large" => at \notin Temps
    /\ worker' = "record" /\ query' = 0 /\ hit' = FALSE
    /\ ended' = [ended EXCEPT ![at] = how]
    /\ tables' = IF how = "ok" /\ at \in Temps THEN tables \cup {at} ELSE tables
    /\ UNCHANGED <<caller, parent, at, todo, timer, age, total, results,
                   report, outcome, undropped>>

\* Mutant of StatusOf: the text of the error is taken for its status.
StatusOfRaw(how) == CASE how = "ok" -> "PASS" [] how = "large" -> "LARGE" [] OTHER -> how

\* _is_interrupt_exception goes by the error's text as well as its type.
StatusOf(how) ==
    CASE how = "ok" -> "PASS"
      [] how = "large" -> "LARGE"
      [] how = "error" -> "FAIL"
      [] OTHER -> "TIMEOUT"

\* cancel comes too late for a timer that has already woken up.
Cancelled(t) == IF t = "armed" THEN "cancelled" ELSE t

\* Mutant of Listed: a failed statement leaves no result.
ListedIfPassed(rs, how) == IF how = "ok" THEN Append(rs, StatusOf(how)) ELSE rs

Listed(rs, how) == Append(rs, StatusOf(how))

\* Mutant of AfterStatement: an overflowing result does not stop the program.
AfterStatementLargeGoesOn(i, how) ==
    IF how \in {"ok", "large"} /\ i < N THEN "arm" ELSE "drop"

\* Mutant of AfterStatement: a failure returns without the cleanup.
AfterStatementNoCleanup(i, how) ==
    IF how # "ok" THEN "answered" ELSE IF i < N THEN "arm" ELSE "drop"

\* The first statement that does not end well is the last one to run.
AfterStatement(i, how) == IF how = "ok" /\ i < N THEN "arm" ELSE "drop"

Record ==
    /\ worker = "record"
    /\ timer' = [timer EXCEPT ![at] = Cancelled(@)]
    /\ results' = Listed(results, ended[at])
    /\ worker' = AfterStatement(at, ended[at])
    /\ at' = IF worker' = "arm" THEN at + 1 ELSE at
    /\ UNCHANGED <<caller, parent, query, hit, todo, tables, age, total,
                   report, outcome, ended, undropped>>

\* Drops have no timer of their own, but a late one may hit them.
BeginDrop ==
    /\ worker = "drop" /\ query = 0
    /\ \E t \in todo :
        /\ \A u \in todo : t <= u
        /\ query' = N + t
    /\ hit' = FALSE
    /\ UNCHANGED <<caller, parent, worker, at, todo, tables, timer, age,
                   total, results, report, outcome, ended, undropped>>

\* A drop that fails is passed over in silence.
EndDrop ==
    /\ worker = "drop" /\ query > N
    /\ todo' = todo \ {query - N}
    /\ \/ tables' = tables \ {query - N} /\ UNCHANGED undropped
       \/ undropped' = undropped \cup {query - N} /\ UNCHANGED tables
    /\ query' = 0 /\ hit' = FALSE
    /\ UNCHANGED <<caller, parent, worker, at, timer, age, total, results,
                   report, outcome, ended>>

Answer ==
    /\ worker = "drop" /\ query = 0 /\ todo = {}
    /\ worker' = "answered"
    /\ UNCHANGED <<caller, parent, at, query, hit, todo, tables, timer, age,
                   total, results, report, outcome, ended, undropped>>

\* The memory limit, an error outside the statements, or the system ends it.
Crash ==
    /\ Alive
    /\ worker' = "dead" /\ query' = 0 /\ hit' = FALSE
    /\ UNCHANGED <<caller, parent, at, todo, tables, timer, age, total,
                   results, report, outcome, ended, undropped>>

-----------------------------------------------------------------------------
(* Timer threads of the worker, and time. *)

\* The wait is over and cancel has not come: interrupt follows.
TimerWakes(i) ==
    /\ Alive /\ timer[i] = "armed" /\ age >= Timeout
    /\ timer' = [timer EXCEPT ![i] = "awake"]
    /\ UNCHANGED <<caller, parent, worker, at, query, hit, todo, tables, age,
                   total, results, report, outcome, ended, undropped>>

Interrupt(i) ==
    /\ Alive /\ timer[i] = "awake"
    /\ timer' = [timer EXCEPT ![i] = "spent"]
    /\ hit' = (query # 0)
    /\ UNCHANGED <<caller, parent, worker, at, query, todo, tables, age,
                   total, results, report, outcome, ended, undropped>>

Tick ==
    /\ parent = "wait" /\ total < HardLimit
    /\ total' = total + 1
    /\ age' = IF age < Timeout THEN age + 1 ELSE age
    /\ UNCHANGED <<caller, parent, worker, at, query, hit, todo, tables,
                   timer, results, report, outcome, ended, undropped>>

-----------------------------------------------------------------------------
Parent == StartWorker \/ StartFails \/ ReceiveAnswer \/ ReceiveFailure \/ HardTimeout \/ Decide

Worker ==
    \/ ImportFails \/ Connect \/ ConnectFails \/ ArmTimer \/ BeginQuery
    \/ \E how \in Ending : EndQuery(how)
    \/ Record \/ BeginDrop \/ EndDrop \/ Answer \/ Crash

Timers == \E i \in Statements : TimerWakes(i) \/ Interrupt(i)

Next == Parent \/ Worker \/ Timers \/ Tick

Spec == Init /\ [][Next]_vars

\* The caller is an ordinary thread and communicate returns at the limit, so
\* it and time are fair; nothing is asked of the worker, which may hang.
FairSpec == Spec /\ WF_vars(Parent) /\ WF_vars(Tick)

-----------------------------------------------------------------------------
ResultTypes ==
    /\ results \in Seq(Status) /\ Len(results) <= N
    /\ report \in [by : {"nobody", "worker", "parent"}, results : Seq(Status), failedAt : 0..N]

ControlTypes ==
    /\ caller \in Callers
    /\ parent \in {"start", "wait", "decide", "done"}
    /\ worker \in {"off", "boot", "arm", "execute", "record", "drop", "answered", "dead"}
    /\ at \in Statements
    /\ query \in 0..(2 * N) /\ hit \in BOOLEAN
    /\ todo \subseteq Temps /\ tables \subseteq Statements /\ undropped \subseteq Statements
    /\ timer \in [Statements -> {"off", "armed", "awake", "cancelled", "spent"}]
    /\ age \in 0..Timeout /\ total \in 0..HardLimit
    /\ outcome \in {"none", "package", "blocked", "error"}
    /\ ended \in [Statements -> Ending \cup {"not run"}]

\* Every variable has its type; times stay within their limits.
TypeOK == ControlTypes /\ ResultTypes

\* No statement is run, and no query of it started, unless every statement
\* before it ended well: the program stops at its first failure.
FailureBlocks ==
    \A i \in Statements :
        ended[i] # "not run" \/ query = i => \A j \in 1..(i - 1) : ended[j] = "ok"

\* A worker's report lists the statements that ran and no other, each as it
\* ended, and failed_at names the only one that did not pass.
ReportIsFaithful ==
    report.by = "worker" =>
        \A i \in Statements :
            IF i \in DOMAIN report.results /\ report.results[i] # "NOT_EXECUTED"
            THEN /\ report.results[i] = StatusOf(ended[i])
                 /\ report.failedAt = i <=> ended[i] # "ok"
            ELSE ended[i] = "not run" /\ report.failedAt # i

\* When the caller has its answer no worker is left: neither a query nor a
\* timer of the program can still act.
AnswerEndsTheWorker == parent \in {"decide", "done"} => ~Alive

\* The cleanup is reached from every failure: a temporary table that is
\* there when the worker answers is one whose DROP was tried and failed.
LeftoversWereTried == worker = "answered" => tables \subseteq undropped

\* A program of which some statements ran and not all passed is never made
\* into a review package, whoever executes it.
NeverPackagesAHalfRun ==
    outcome = "package" =>
        \/ \A i \in Statements : ended[i] = "ok"
        \/ \A i \in Statements : ended[i] = "not run"

\* Only RUNTIME_PASS enters the path of success (api/pipeline.py:2309): what
\* is made into a package has passed every statement.
OnlyPassedIsPackaged ==
    outcome = "package" => \A i \in Statements : ended[i] = "ok"

\* The caller always comes to an end, even if the worker hangs while it
\* loads tables, drops them or ignores its interrupts.
CallerIsAnswered == <>(outcome # "none")
=============================================================================
