---------------------------- MODULE RunAllStream ----------------------------
(***************************************************************************)
(* run_all_full_stream (api/pipeline.py) and the TeeCollector that feeds   *)
(* it (api/streaming.py).  A background thread runs the SQL pipeline and   *)
(* then the Spark stages and puts one event per change on a bounded queue; *)
(* a generator takes them off and yields one NDJSON line for each, until   *)
(* it has yielded a final one.  The client may leave at any time: nobody   *)
(* resumes the generator then, and the thread runs on.                     *)
(*                                                                         *)
(* Stages are numbered: 1..SqlStages are those run_all opens through the   *)
(* collector, the six after them the Spark stages.  What they compute is   *)
(* the business of SparkStages; here a stage ends somehow.                 *)
(***************************************************************************)
EXTENDS Naturals, Sequences

CONSTANTS
    SqlStages,       \* stages of run_all: nine in the code
    MaxQueue,        \* maxsize of the event queue: 500 in the code
    DoneSerializes   \* FALSE: json.dumps may refuse the result in "done"

Order == <<"MAPPER", "DEVELOPER", "COMPILER", "VALIDATOR", "COMPARATOR", "PHYSICAL_VERIFIER">>
StageCount == SqlStages + 6
Spark == (SqlStages + 1)..StageCount
Name(s) == Order[s - SqlStages]

\* All events of a run fit on the queue: 31 of 500 in the code.
ASSUME StreamAssumption ==
    /\ SqlStages \in Nat \ {0}
    /\ MaxQueue \in Nat /\ MaxQueue >= 2 * StageCount + 1
    /\ DoneSerializes \in BOOLEAN

VARIABLES
    queue,      \* event_queue
    stop,       \* stop_event
    thread,     \* where _execute is
    stage,      \* the stage it is in, or the last one it was in
    validated,  \* VALIDATOR is recorded as ok in spark_stages
    generator,  \* where the generator is in its loop
    running, last, phase  \* what the client was told, as in ProgressStream

told == <<running, last, phase>>
vars == <<queue, stop, thread, stage, validated, generator, told>>

Event ==
    [event : {"stage"}, stage : 1..StageCount,
     status : {"started", "completed", "failed", "skipped"}]
        \cup [event : {"done", "fatal"}, stage : {0}, status : {"final"}]
Tell(s, status) == [event |-> "stage", stage |-> s, status |-> status]
Final(kind) == [event |-> kind, stage |-> 0, status |-> "final"]
IsFinal(e) == e.event \in {"done", "fatal"}

Init ==
    /\ queue = <<>>
    /\ stop = FALSE
    /\ thread = "sql"
    /\ stage = 0
    /\ validated = FALSE
    /\ generator = "check"
    /\ running = 0 /\ last = 0 /\ phase = "listening"

-----------------------------------------------------------------------------
(* The background thread *)

\* Mutant of Put: the thread hands each event over before it goes on.
PutHandOver(e) == queue = <<>> /\ queue' = <<e>>

\* event_queue.put: waits while the queue is full.
Put(e) ==
    /\ Len(queue) < MaxQueue
    /\ queue' = Append(queue, e)

\* TeeCollector.stage, and the exit of its context: a stage of run_all.  The
\* paths through run_all leave stages out, none opens one in another.
StartSql ==
    /\ thread = "sql" /\ stage < SqlStages
    /\ \E s \in (stage + 1)..SqlStages :
        /\ Put(Tell(s, "started"))
        /\ stage' = s
    /\ thread' = "in sql"
    /\ UNCHANGED <<stop, validated, generator, told>>

EndSql ==
    /\ thread = "in sql"
    /\ \/ Put(Tell(stage, "completed")) /\ thread' = "sql"
       \/ Put(Tell(stage, "failed")) /\ thread' \in {"verdict", "raised"}
    /\ UNCHANGED <<stop, stage, validated, generator, told>>

\* run_all returns, with or without pipeline_error, or raises.
LeaveSql ==
    /\ thread = "sql"
    /\ \/ thread' = "spark" /\ stage' = SqlStages
       \/ thread' \in {"verdict", "raised"} /\ UNCHANGED stage
    /\ UNCHANGED <<queue, stop, validated, generator, told>>

StartSpark ==
    /\ thread = "spark"
    /\ Put(Tell(stage + 1, "started"))
    /\ stage' = stage + 1
    /\ thread' = "in spark"
    /\ UNCHANGED <<stop, validated, generator, told>>

\* How the end of a Spark stage is told: run_spark_stage returns a status,
\* or raises.
Outcome(s, status) ==
    CASE status = "raised" -> "failed"
      [] Name(s) = "DEVELOPER" -> IF status = "failed" THEN "skipped" ELSE "completed"
      [] Name(s) = "COMPARATOR" -> "completed"
      [] Name(s) = "PHYSICAL_VERIFIER" /\ ~validated -> "skipped"
      [] Name(s) = "PHYSICAL_VERIFIER" /\ status = "skipped" -> "skipped"
      [] OTHER -> IF status = "ok" THEN "completed" ELSE "failed"

\* Mutant of Stops: the loop does not end by itself.
StopsOnFailureOnly(s, status) ==
    Name(s) \in {"MAPPER", "COMPILER", "VALIDATOR"} /\ status \in {"failed", "raised"}

Stops(s, status) ==
    \/ s = StageCount
    \/ Name(s) \in {"MAPPER", "COMPILER", "VALIDATOR"} /\ status \in {"failed", "raised"}

\* Mutant of EndSpark: an exception in a stage moves on without a word.
EndSparkSilent ==
    /\ thread = "in spark"
    /\ \E status \in {"ok", "failed", "skipped", "raised"} :
        /\ IF status = "raised" THEN UNCHANGED queue
           ELSE Put(Tell(stage, Outcome(stage, status)))
        /\ validated' = (validated \/ (Name(stage) = "VALIDATOR" /\ status = "ok"))
        /\ thread' = IF Stops(stage, status) THEN "verdict" ELSE "spark"
    /\ UNCHANGED <<stop, stage, generator, told>>

\* Mutant of EndSpark: the event queue stays set in the ContextVar, and the
\* collector of run_spark_stage tells the end as well.
EndSparkTwice ==
    /\ thread = "in spark"
    /\ \E status \in {"ok", "failed", "skipped", "raised"} :
        /\ Len(queue) < MaxQueue
        /\ queue' = queue \o <<Tell(stage, "completed"), Tell(stage, Outcome(stage, status))>>
        /\ validated' = (validated \/ (Name(stage) = "VALIDATOR" /\ status = "ok"))
        /\ thread' = IF Stops(stage, status) THEN "verdict" ELSE "spark"
    /\ UNCHANGED <<stop, stage, generator, told>>

EndSpark ==
    /\ thread = "in spark"
    /\ \E status \in {"ok", "failed", "skipped", "raised"} :
        /\ Put(Tell(stage, Outcome(stage, status)))
        /\ validated' = (validated \/ (Name(stage) = "VALIDATOR" /\ status = "ok"))
        /\ thread' = IF Stops(stage, status) THEN "verdict" ELSE "spark"
    /\ UNCHANGED <<stop, stage, generator, told>>

\* Mutant of Conclude: run_all's exception ends the thread without a line.
ConcludeSilent ==
    /\ \/ thread = "verdict" /\ Put(Final("done"))
       \/ thread = "raised" /\ UNCHANGED queue
    /\ thread' = "finally"
    /\ UNCHANGED <<stop, stage, validated, generator, told>>

\* The result is put together and sent; an exception on the way is fatal.
Conclude ==
    /\ \/ thread = "verdict" /\ Put(Final("done"))
       \/ thread \in {"verdict", "raised"} /\ Put(Final("fatal"))
    /\ thread' = "finally"
    /\ UNCHANGED <<stop, stage, validated, generator, told>>

SetStop ==
    /\ thread = "finally"
    /\ stop' = TRUE
    /\ thread' = "exited"
    /\ UNCHANGED <<queue, stage, validated, generator, told>>

ThreadStep ==
    \/ StartSql \/ EndSql \/ LeaveSql \/ StartSpark \/ EndSpark \/ Conclude \/ SetStop

-----------------------------------------------------------------------------
(* The generator, as far as the client pulls it *)

\* Mutant of CheckLoop: the queue is looked at first, stop_event second.
CheckLoopSwapped ==
    /\ \/ generator = "check"
          /\ generator' = IF queue # <<>> THEN "get" ELSE "check again"
       \/ generator = "check again"
          /\ generator' = IF ~stop THEN "get" ELSE "returned"
    /\ UNCHANGED <<queue, stop, thread, stage, validated, told>>

\* while not stop_event.is_set() or not event_queue.empty()
CheckLoop ==
    /\ \/ generator = "check"
          /\ generator' = IF ~stop THEN "get" ELSE "check again"
       \/ generator = "check again"
          /\ generator' = IF queue # <<>> THEN "get" ELSE "returned"
    /\ UNCHANGED <<queue, stop, thread, stage, validated, told>>

\* The client reads a line.
Read(e) ==
    /\ IF IsFinal(e) THEN phase' = "closed" ELSE UNCHANGED phase
    /\ IF e.event = "stage" /\ e.status = "started"
       THEN running' = e.stage /\ last' = e.stage
       ELSE running' = 0 /\ UNCHANGED last

\* get(timeout=0.5) returns an event, and its line is yielded; a final one, or
\* the fatal line that replaces one json.dumps refuses, ends the generator.
GetEvent ==
    /\ generator = "get"
    /\ queue # <<>>
    /\ queue' = Tail(queue)
    /\ \/ Read(Head(queue))
       \/ ~DoneSerializes /\ Head(queue).event = "done" /\ Read(Final("fatal"))
    /\ generator' = IF IsFinal(Head(queue)) THEN "returned" ELSE "check"
    /\ UNCHANGED <<stop, thread, stage, validated>>

\* queue.Empty: a heartbeat.
Heartbeat ==
    /\ generator = "get"
    /\ queue = <<>>
    /\ generator' = "check"
    /\ UNCHANGED <<queue, stop, thread, stage, validated, told>>

GeneratorStep == CheckLoop \/ GetEvent \/ Heartbeat

\* The client goes away; nobody pulls the generator any more.
Disconnect ==
    /\ generator # "returned" /\ generator # "abandoned"
    /\ generator' = "abandoned"
    /\ phase' = "gone"
    /\ UNCHANGED <<queue, stop, thread, stage, validated, running, last>>

Next == ThreadStep \/ GeneratorStep \/ Disconnect

\* The interpreter schedules the thread, and every stage ends: execution has a
\* timeout, so has an LLM call.  Nothing is assumed of the client.
Spec == Init /\ [][Next]_vars /\ WF_vars(ThreadStep)

-----------------------------------------------------------------------------
TypeOK ==
    /\ queue \in Seq(Event) /\ Len(queue) <= MaxQueue
    /\ stop \in BOOLEAN
    /\ thread \in {"sql", "in sql", "spark", "in spark", "verdict", "raised",
                   "finally", "exited"}
    /\ stage \in 0..StageCount
    /\ validated \in BOOLEAN
    /\ generator \in {"check", "check again", "get", "returned", "abandoned"}
    /\ running \in 0..StageCount /\ last \in 0..StageCount
    /\ phase \in {"listening", "closed", "gone"}

\* The generator returns only after a final line: what the thread puts last is
\* never left on the queue, whenever stop_event is set (pipeline.py:3408,
\* 3417-3423).
EndsWithFinalLine == generator = "returned" => phase = "closed"

\* While the thread has something to put there is room for it, though nobody
\* may be reading: the bound counts the events of a run, not a client's pace
\* (pipeline.py:3059, 3066).
PutNeverWaits == thread \notin {"finally", "exited"} => Len(queue) < MaxQueue

\* The client is told a progress the pipelines could make: no stage twice or
\* out of order, none left open, nothing after the final line
\* (pipeline.py:3051-3058, streaming.py:74-103).
KeepsPromise == INSTANCE ProgressStream
ImplementsPromise == KeepsPromise!Promise

\* The thread ends, whether anybody listens or not (pipeline.py:3059).
ThreadEnds == <>(thread = "exited")

\* A client that stays, and pulls, is told how the run ended, whatever fails
\* in the thread or in json.dumps (pipeline.py:3400-3406, 3427-3435).
ClientIsTold == WF_vars(GeneratorStep) => <>(phase # "listening")
=============================================================================
