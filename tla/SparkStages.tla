----------------------------- MODULE SparkStages -----------------------------
(***************************************************************************)
(* The six Spark stages of one request (api/pipeline.py).  A stage is run  *)
(* by itself from the HTTP event loop, in any order, or in sequence by the *)
(* background thread of a full run; all of them share the request's entry  *)
(* of _results and its SparkStageContext.                                  *)
(*                                                                         *)
(* Data is abstracted to where it came from: version v of the contract,    *)
(* the SQL, the Spark plan and the code are those of the v-th run of the   *)
(* SQL pipeline.  Error texts, traces and the response's layout are left   *)
(* out; PackageFinalizer models the call that attaches the CRE report.     *)
(***************************************************************************)
EXTENDS Naturals, Sequences, FiniteSets

CONSTANTS
    Loop,       \* threads of the HTTP event loop: one stage call at a time
    Streams,    \* background threads of full runs
    MaxRuns,    \* bound: runs of the SQL pipeline
    Contexts,   \* SparkStageContext objects, used again when nobody holds them
    Unsafe,     \* versions whose code the static validator refuses
    Exclusive,  \* TRUE: nobody touches the request during a run or a stage
    None        \* no entry in _results

ASSUME StagesAssumption ==
    /\ Loop \cap Streams = {}
    /\ MaxRuns \in Nat /\ 0 \notin Contexts
    /\ Unsafe \subseteq 1..MaxRuns
    /\ Exclusive \in BOOLEAN

Threads == Loop \cup Streams
Version == 1..MaxRuns
NoVersion == 0
AnyVersion == Version \cup {NoVersion}

Order == <<"MAPPER", "DEVELOPER", "COMPILER", "VALIDATOR", "COMPARATOR", "PHYSICAL_VERIFIER">>
Stages == {Order[i] : i \in DOMAIN Order}
Stopping == {"MAPPER", "COMPILER", "VALIDATOR"}                \* stop a full run
Critical == {"MAPPER", "COMPILER", "VALIDATOR", "COMPARATOR"}  \* review_builder.py:41

VARIABLES
    runs,      \* runs of the SQL pipeline so far
    result,    \* self._results[request_id] and its timestamp, or None
    current,   \* self._spark_contexts[request_id], or 0
    ctx,       \* the fields of each SparkStageContext
    call,      \* run_spark_stage, by thread
    run,       \* run_all_full_stream's _execute, by thread
    vetted,    \* history: code versions a validator run has passed
    rogue      \* history: threads that executed code outside vetted

vars == <<runs, result, current, ctx, call, run, vetted, rogue>>

\* What an entry of _results holds: the parsed spec, the plan and the
\* contract, or everything up to the compiled SQL.
Result == [ver : Version, has : {"spec", "plan", "all"}]
Status == {"SUCCESS", "FAILURE", "SKIPPED", "SNAPSHOT_NOT_READY", "NOT_EXECUTED"}
Comparison == {"NONE", "LOGIC_EQUIVALENT", "LOGIC_MISMATCH", "NOT_EXECUTED"}

Context ==
    [plan : AnyVersion, annotation : AnyVersion,
     compiled : [plan : AnyVersion, annotation : AnyVersion],
     code : AnyVersion, compared : Comparison,
     report : {"none", "consistent", "inconsistent"},
     stage : [Stages -> Status]]

NewContext ==
    [plan |-> NoVersion, annotation |-> NoVersion,
     compiled |-> [plan |-> NoVersion, annotation |-> NoVersion],
     code |-> NoVersion, compared |-> "NONE", report |-> "none",
     stage |-> [s \in Stages |-> "NOT_EXECUTED"]]

\* A stage call: its stage and program point, the context object and the
\* artifact bundle it took at its start, and the versions it works on.
NoCall == [at |-> "idle"]
Call ==
    [at : {"work", "store", "gate", "verify", "return"}, stage : Stages,
     g : Contexts, art : Result, of : SUBSET AnyVersion,
     plan : AnyVersion, annotation : AnyVersion]

\* A full run: how far it is, its own record of each stage (the status and
\* the versions the stage worked on) and what it reports in the end.
Done == [status : {"none", "ok", "failed", "skipped"}, of : SUBSET AnyVersion]
FullRun ==
    [at : {"start", "spark", "verdict", "done"}, ver : AnyVersion, next : 1..Len(Order),
     did : [Stages -> Done], compared : Comparison, ready : BOOLEAN, ok : BOOLEAN]
NewRun ==
    [at |-> "start", ver |-> NoVersion, next |-> 1,
     did |-> [s \in Stages |-> [status |-> "none", of |-> {}]],
     compared |-> "NONE", ready |-> FALSE, ok |-> FALSE]

Init ==
    /\ runs = 0
    /\ result = None
    /\ current = 0
    /\ ctx = [g \in Contexts |-> NewContext]
    /\ call = [t \in Threads |-> NoCall]
    /\ run = [t \in Streams |-> NewRun]
    /\ vetted = {}
    /\ rogue = {}

\* Contexts that calls of threads in T hold.
HeldBy(T) == {call[t].g : t \in {u \in T : call[u] # NoCall}}
Held == HeldBy(Threads)

Busy(t) == call[t] # NoCall \/ (t \in Streams /\ run[t].at \in {"spark", "verdict"})
MayAct(t) == Exclusive => \A u \in Threads \ {t} : ~Busy(u)

-----------------------------------------------------------------------------
(* The SQL pipeline and the caches *)

\* _store_result of a new run; what it replaces is gone, the context stays.
Store(has) ==
    /\ runs < MaxRuns
    /\ runs' = runs + 1
    /\ result' = [ver |-> runs + 1, has |-> has]

\* A request handled by the event loop: parse_only, build_plan, run_all, ...
HttpRun(t) ==
    /\ t \in Loop /\ ~Busy(t) /\ MayAct(t)
    /\ \E has \in {"spec", "plan", "all"} : Store(has)
    /\ UNCHANGED <<current, ctx, call, run, vetted, rogue>>

\* Step 1 of a full run: run_all.  Without an error the Spark stages follow.
RunSql(t) ==
    /\ t \in Streams /\ run[t].at = "start" /\ MayAct(t)
    /\ \/ /\ Store("all")
          /\ run' = [run EXCEPT ![t].at = "spark", ![t].ver = runs + 1]
       \/ /\ Store("spec")
          /\ run' = [run EXCEPT ![t].at = "verdict", ![t].ver = runs + 1]
    /\ UNCHANGED <<current, ctx, call, vetted, rogue>>

\* _purge_expired, at any public entry after the TTL: the stages do not renew
\* the timestamp, so it may strike between any two of them.
Expire ==
    /\ result # None
    /\ result' = None
    /\ current' = 0
    /\ ctx' = [g \in Contexts |-> IF g \in Held THEN ctx[g] ELSE NewContext]
    /\ UNCHANGED <<runs, call, run, vetted, rogue>>

\* _get_or_create_spark_context.  An object nobody holds is as good as new.
GetContext(g) ==
    /\ IF current # 0 THEN g = current ELSE g \notin Held
    /\ current' = g

-----------------------------------------------------------------------------
(* run_spark_stage *)

\* _check_stage_dependencies: presence, never origin.
Missing(s, c, a) ==
    CASE s = "MAPPER" -> a.has = "spec"
      [] s \in {"DEVELOPER", "COMPILER"} -> c.plan = NoVersion
      [] s = "VALIDATOR" -> c.compiled.plan = NoVersion
      [] s = "COMPARATOR" -> a.has = "spec" \/ c.plan = NoVersion
      [] s = "PHYSICAL_VERIFIER" -> a.has # "all" \/ c.compiled.plan = NoVersion

\* The failure policy of a full run.
AfterStage(r, s, status) ==
    IF r.next = Len(Order) \/ (s \in Stopping /\ status = "failed")
    THEN [r EXCEPT !.at = "verdict"]
    ELSE [r EXCEPT !.next = @ + 1]

Record(r, s, status, of) ==
    AfterStage([r EXCEPT !.did[s] = [status |-> status, of |-> of]], s, status)

MayCall(t, s) ==
    /\ call[t] = NoCall /\ MayAct(t)
    /\ t \in Streams => run[t].at = "spark" /\ s = Order[run[t].next]

\* No artifacts, or a dependency is missing: SparkDependencyMissingError.
Refuse(t, s) ==
    /\ MayCall(t, s)
    /\ \/ result = None /\ UNCHANGED current
       \/ result # None /\ \E g \in Contexts : GetContext(g) /\ Missing(s, ctx[g], result)
    /\ run' = IF t \in Loop THEN run
              ELSE [run EXCEPT ![t] = Record(run[t], s, "failed", {})]
    /\ UNCHANGED <<runs, result, ctx, call, vetted, rogue>>

\* Steps 1 to 3: export_artifacts, the context, the dependency gate.
Begin(t, s) ==
    /\ MayCall(t, s)
    /\ result # None
    /\ \E g \in Contexts :
        /\ GetContext(g)
        /\ ~Missing(s, ctx[g], result)
        /\ call' = [call EXCEPT ![t] =
                       [at |-> "work", stage |-> s, g |-> g, art |-> result, of |-> {},
                        plan |-> NoVersion, annotation |-> NoVersion]]
    /\ UNCHANGED <<runs, result, ctx, run, vetted, rogue>>

At(t, s, where) == call[t] # NoCall /\ call[t].stage = s /\ call[t].at = where
Mine(t) == ctx[call[t].g]

\* The call writes the fields of its context and goes on to the point "to".
Write(t, c) == ctx' = [ctx EXCEPT ![call[t].g] = c]
Finish(t, of) == call' = [call EXCEPT ![t].at = "return", ![t].of = of]
SetStage(c, s, status) == [c EXCEPT !.stage[s] = status]

\* Mutant of Fails: the handler leaves the stage's old result in place.
FailsKeepsResult(t, s) ==
    /\ UNCHANGED ctx
    /\ Finish(t, {})

\* An exception in the stage: step 4's handler.
Fails(t, s) ==
    /\ Write(t, SetStage(Mine(t), s, "FAILURE"))
    /\ Finish(t, {})

\* _do_spark_map: the contract of the bundle becomes the plan.
Map(t) ==
    /\ At(t, "MAPPER", "work")
    /\ \/ /\ Write(t, [SetStage(Mine(t), "MAPPER", "SUCCESS") EXCEPT !.plan = call[t].art.ver])
          /\ Finish(t, {call[t].art.ver})
       \/ Fails(t, "MAPPER")
    /\ UNCHANGED <<runs, result, current, run, vetted, rogue>>

\* _do_spark_develop and _do_spark_compile read the plan before the LLM call,
\* the compilation, and store what they made of it afterwards.
ReadPlan(t) ==
    /\ At(t, "DEVELOPER", "work") \/ At(t, "COMPILER", "work")
    /\ call' = [call EXCEPT ![t].at = "store", ![t].plan = Mine(t).plan,
                            ![t].annotation = Mine(t).annotation]
    /\ UNCHANGED <<runs, result, current, ctx, run, vetted, rogue>>

\* No service is injected, the LLM fails, or the plan is annotated.
Develop(t) ==
    /\ At(t, "DEVELOPER", "store")
    /\ \/ /\ Write(t, [SetStage(Mine(t), "DEVELOPER", "SUCCESS")
                          EXCEPT !.annotation = call[t].plan])
          /\ Finish(t, {call[t].plan})
       \/ Write(t, SetStage(Mine(t), "DEVELOPER", "SKIPPED")) /\ Finish(t, {})
       \/ Fails(t, "DEVELOPER")
    /\ UNCHANGED <<runs, result, current, run, vetted, rogue>>

\* Mutant of Compiled: the sandbox code of the previous compilation is kept.
CompiledKeepsCode(c, p, a) ==
    [SetStage(c, "COMPILER", "SUCCESS") EXCEPT
        !.compiled = [plan |-> p, annotation |-> a],
        !.code = IF @ = NoVersion THEN p ELSE @]

\* compile_result, stage_results and sandbox_transform_code together.
Compiled(c, p, a) ==
    [SetStage(c, "COMPILER", "SUCCESS") EXCEPT
        !.compiled = [plan |-> p, annotation |-> a], !.code = p]

Compile(t) ==
    /\ At(t, "COMPILER", "store")
    /\ \/ /\ Write(t, Compiled(Mine(t), call[t].plan, call[t].annotation))
          /\ Finish(t, {call[t].plan})
       \/ Fails(t, "COMPILER")
    /\ UNCHANGED <<runs, result, current, run, vetted, rogue>>

\* _do_spark_validate.
Validate(t) ==
    /\ At(t, "VALIDATOR", "work")
    /\ LET v == Mine(t).compiled.plan
           valid == v \notin Unsafe
       IN  /\ Write(t, SetStage(Mine(t), "VALIDATOR", IF valid THEN "SUCCESS" ELSE "FAILURE"))
           /\ vetted' = IF valid THEN vetted \cup {v} ELSE vetted
           /\ Finish(t, {v})
    /\ UNCHANGED <<runs, result, current, run, rogue>>

\* _do_spark_compare: the stage succeeds whatever the comparison says.
Compare(t) ==
    /\ At(t, "COMPARATOR", "work")
    /\ \/ \E status \in Comparison \ {"NONE"} :
            /\ Write(t, [SetStage(Mine(t), "COMPARATOR", "SUCCESS")
                            EXCEPT !.compared = status])
            /\ Finish(t, {call[t].art.ver, Mine(t).plan})
       \/ Fails(t, "COMPARATOR")
    /\ UNCHANGED <<runs, result, current, run, vetted, rogue>>

\* _should_physical_verify.
GateOpen(c) ==
    /\ c.stage["VALIDATOR"] = "SUCCESS"
    /\ c.compared \notin {"NONE", "NOT_EXECUTED"}

\* Mutant of PhysicalGate: the reports of the last run are kept.
PhysicalGateKeepsReport(t) ==
    /\ At(t, "PHYSICAL_VERIFIER", "work")
    /\ \/ /\ GateOpen(Mine(t))
          /\ call' = [call EXCEPT ![t].at = "gate"]
          /\ UNCHANGED ctx
       \/ /\ ~GateOpen(Mine(t))
          /\ Write(t, SetStage(Mine(t), "PHYSICAL_VERIFIER", "SKIPPED"))
          /\ Finish(t, {})
    /\ UNCHANGED <<runs, result, current, run, vetted, rogue>>

\* _do_spark_physical_verify clears the old report and asks the gate.
PhysicalGate(t) ==
    /\ At(t, "PHYSICAL_VERIFIER", "work")
    /\ LET c == [Mine(t) EXCEPT !.report = "none"]
       IN  \/ /\ GateOpen(c)
              /\ Write(t, c)
              /\ call' = [call EXCEPT ![t].at = "gate"]
           \/ /\ ~GateOpen(c)
              /\ Write(t, SetStage(c, "PHYSICAL_VERIFIER", "SKIPPED"))
              /\ Finish(t, {})
    /\ UNCHANGED <<runs, result, current, run, vetted, rogue>>

\* PySpark is not installed, there is no code, no snapshot can be built ...
PhysicalNotReady(t) ==
    /\ At(t, "PHYSICAL_VERIFIER", "gate")
    /\ \E status \in {"SKIPPED", "SNAPSHOT_NOT_READY", "FAILURE"} :
        /\ status = "FAILURE" <=> Mine(t).code = NoVersion
        /\ Write(t, SetStage(Mine(t), "PHYSICAL_VERIFIER", status))
    /\ Finish(t, {})
    /\ UNCHANGED <<runs, result, current, run, vetted, rogue>>

\* ... or the code the context holds by now is executed.
PhysicalExecute(t) ==
    /\ At(t, "PHYSICAL_VERIFIER", "gate")
    /\ Mine(t).code # NoVersion
    /\ rogue' = IF Mine(t).code \in vetted THEN rogue ELSE rogue \cup {t}
    /\ call' = [call EXCEPT ![t].at = "verify", ![t].of = {call[t].art.ver, Mine(t).code}]
    /\ UNCHANGED <<runs, result, current, ctx, run, vetted>>

PhysicalStore(t) ==
    /\ At(t, "PHYSICAL_VERIFIER", "verify")
    /\ \/ Write(t, [SetStage(Mine(t), "PHYSICAL_VERIFIER", "SUCCESS")
                       EXCEPT !.report = "consistent"])
       \/ Write(t, [SetStage(Mine(t), "PHYSICAL_VERIFIER", "FAILURE")
                       EXCEPT !.report = "inconsistent"])
       \/ Write(t, SetStage(Mine(t), "PHYSICAL_VERIFIER", "FAILURE"))
    /\ Finish(t, call[t].of)
    /\ UNCHANGED <<runs, result, current, run, vetted, rogue>>

\* Step 5, the status of the stage in the response.
StatusOf(c, s) ==
    CASE c.stage[s] = "SUCCESS" ->
            IF s = "PHYSICAL_VERIFIER" /\ c.report = "inconsistent" THEN "failed" ELSE "ok"
      [] c.stage[s] = "FAILURE" -> "failed"
      [] OTHER -> "skipped"

\* Mutant of RecordedStatus: the stage result is recorded unconverted.
RecordedStatusRaw(r, c, s) == c.stage[s]

\* The status a full run records: a failed annotation counts as skipped, and
\* so does a physical verification without a validation of its own.
RecordedStatus(r, c, s) ==
    IF \/ s = "DEVELOPER" /\ StatusOf(c, s) = "failed"
       \/ s = "PHYSICAL_VERIFIER" /\ r.did["VALIDATOR"].status # "ok"
    THEN "skipped" ELSE StatusOf(c, s)

Return(t) ==
    /\ call[t] # NoCall /\ call[t].at = "return"
    /\ call' = [call EXCEPT ![t] = NoCall]
    /\ ctx' = IF call[t].g \in HeldBy(Threads \ {t}) \cup {current}
              THEN ctx ELSE [ctx EXCEPT ![call[t].g] = NewContext]
    /\ LET s == call[t].stage
           c == Mine(t)
       IN  run' = IF t \in Loop THEN run
                  ELSE [run EXCEPT ![t] =
                         [Record(run[t], s, RecordedStatus(run[t], c, s), call[t].of) EXCEPT
                            !.compared = IF s = "COMPARATOR" /\ StatusOf(c, s) = "ok"
                                         THEN c.compared ELSE run[t].compared]]
    /\ UNCHANGED <<runs, result, current, vetted, rogue>>

StageStep(t) ==
    \/ Map(t) \/ ReadPlan(t) \/ Develop(t) \/ Compile(t) \/ Validate(t) \/ Compare(t)
    \/ PhysicalGate(t) \/ PhysicalNotReady(t) \/ PhysicalExecute(t) \/ PhysicalStore(t)
    \/ Return(t)

-----------------------------------------------------------------------------
(* The verdict of a full run *)

CriticalOk(c) == \A s \in Critical : c.stage[s] = "SUCCESS"

\* SparkReviewBuilder._compute_review_ready, over the context's stage results
\* and the comparison of this run.
Ready(r, c) == CriticalOk(c) /\ r.compared = "LOGIC_EQUIVALENT"

Verdict(t) ==
    /\ t \in Streams /\ run[t].at = "verdict"
    /\ \E g \in Contexts :
        /\ GetContext(g)
        /\ run' = [run EXCEPT ![t].at = "done",
                      ![t].ready = Ready(run[t], ctx[g]),
                      ![t].ok = /\ run[t].did["PHYSICAL_VERIFIER"].status = "ok"
                                /\ run[t].compared = "LOGIC_EQUIVALENT"]
    /\ UNCHANGED <<runs, result, ctx, call, vetted, rogue>>

Next ==
    \/ Expire
    \/ \E t \in Threads :
        \/ HttpRun(t) \/ RunSql(t) \/ StageStep(t) \/ Verdict(t)
        \/ \E s \in Stages : Begin(t, s) \/ Refuse(t, s)

Spec == Init /\ [][Next]_vars

-----------------------------------------------------------------------------
TypeOK ==
    /\ runs \in 0..MaxRuns
    /\ result \in Result \cup {None}
    /\ current \in Contexts \cup {0}
    /\ ctx \in [Contexts -> Context]
    /\ call \in [Threads -> Call \cup {NoCall}]
    /\ run \in [Streams -> FullRun]
    /\ vetted \subseteq Version
    /\ rogue \subseteq Threads

\* A full run that calls its material ready for review passed every critical
\* stage itself, over the contract of its own SQL run; one that reports
\* spark_ok also validated and executed that very code (pipeline.py:2989-3006).
VerdictIsOfThisRun ==
    \A t \in Streams :
        LET passed(s) == run[t].did[s] = [status |-> "ok", of |-> {run[t].ver}]
        IN  /\ run[t].ready => \A s \in Critical : passed(s)
            /\ run[t].ok => passed("VALIDATOR") /\ passed("PHYSICAL_VERIFIER")

\* A full run executes no code that the validator has not passed
\* (pipeline.py:4928-4945).
RunsExecuteVetted == rogue \cap Streams = {}

\* Between two calls the context is consistent: the code that would be
\* executed is the code that would be validated, and a physical verification
\* that was skipped left no report (pipeline.py:4691-4697, 4960-4962).
QuietContext ==
    (\A t \in Threads : call[t] = NoCall) =>
        \A g \in Contexts :
            /\ ctx[g].code = ctx[g].compiled.plan
            /\ ctx[g].stage["PHYSICAL_VERIFIER"] = "SKIPPED" => ctx[g].report = "none"

=============================================================================
