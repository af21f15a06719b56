------------------------ MODULE SqlProgramRun_proof ------------------------
(***************************************************************************)
(* SqlProgramRun for programs of any length and every timeout: types, the  *)
(* stop at the first failure, the end of the worker before the answer, the *)
(* cleanup, and that no half-run program becomes a package.                *)
(***************************************************************************)
EXTENDS SqlProgramRun, SequenceTheorems, TLAPS

AllOk == \A i \in Statements : ended[i] = "ok"
NoneRan == \A i \in Statements : ended[i] = "not run"

\* The statements before at ended well, those after it have not run, and the
\* program point says whether at itself has.
Progress ==
    /\ \A i \in Statements : i < at => ended[i] = "ok"
    /\ \A i \in Statements : i > at => ended[i] = "not run"
    /\ worker \in {"off", "boot", "arm", "execute"} => ended[at] = "not run"
    /\ worker = "record" => ended[at] # "not run"
    /\ worker \in {"off", "boot"} => at = 1 /\ results = <<>>
    /\ worker \in {"arm", "execute", "record"} => Len(results) = at - 1
    /\ query \in Statements => query = at /\ worker = "execute"

\* Results a caller would make a package of are those of a program that
\* passed, or that never began.
Fit(rs) == Verdict(rs, caller) = "package" => AllOk \/ NoneRan

\* How the caller's state depends on the worker's.
Call ==
    /\ parent = "start" => worker = "off"
    /\ parent \in {"decide", "done"} => ~Alive /\ query = 0
    /\ worker \in {"off", "boot", "answered", "dead"} => query = 0
    /\ worker \in {"drop", "answered"} => Fit(results)
    /\ parent = "decide" => Fit(report.results)
    /\ outcome = "package" => AllOk \/ NoneRan
    /\ parent # "done" => outcome = "none"

\* A temporary table is still to be dropped, or its DROP has failed.
Cleaning ==
    /\ tables \subseteq todo \cup undropped
    /\ worker \in {"off", "boot"} => tables = {}
    /\ worker \in {"off", "boot", "arm", "execute", "record"} => todo = Temps
    /\ worker = "answered" => tables \subseteq undropped

Inv == Progress /\ Call /\ Cleaning

\* What the provers need to know of the constants.
LEMMA Constants ==
    /\ N \in Nat /\ N > 0
    /\ Timeout \in Nat /\ Timeout > 0 /\ Grace \in Nat /\ HardLimit \in Nat
    /\ Temps \subseteq Statements /\ 1 \in Statements
    /\ \A i \in Statements : i \in Nat /\ 1 <= i /\ i <= N
    /\ \A i \in Nat : 1 <= i /\ i <= N => i \in Statements
BY ProgramAssumption DEF ProgramAssumption, HardLimit, Statements

LEMMA StatusFacts ==
    ASSUME NEW how \in Ending
    PROVE  /\ StatusOf(how) \in Status
           /\ StatusOf(how) = "PASS" <=> how = "ok"
BY DEF Ending, Status, StatusOf

LEMMA FailureFacts ==
    ASSUME NEW s \in {"FAIL", "TIMEOUT"}
    PROVE  /\ Failure(s) \in [by : {"nobody", "worker", "parent"},
                              results : Seq(Status), failedAt : 0..N]
           /\ \A c : Verdict(Failure(s).results, c) = "blocked"
<1>1. <<s>> \in Seq(Status) /\ Len(<<s>>) = 1 /\ <<s>>[1] = s /\ <<s>> # <<>>
  BY DEF Status
<1>2. 1 \in 0..N
  BY Constants
<1>3. Failure(s) = [by |-> "parent", results |-> <<s>>, failedAt |-> 1]
  BY DEF Failure
<1>4. Failure(s) \in [by : {"nobody", "worker", "parent"}, results : Seq(Status), failedAt : 0..N]
  BY <1>1, <1>2, <1>3
<1>5. Failure(s).results = <<s>>
  BY <1>3
<1>6. ASSUME NEW c PROVE Verdict(<<s>>, c) = "blocked"
  BY <1>1 DEF Verdict
<1> QED BY <1>4, <1>5, <1>6

LEMMA FailedAtType == ASSUME NEW rs \in Seq(Status), Len(rs) <= N PROVE FailedAt(rs) \in 0..N
BY Constants, LenProperties DEF FailedAt

LEMMA InitOK == Init => TypeOK /\ Inv
<1> SUFFICES ASSUME Init PROVE TypeOK /\ Inv
  OBVIOUS
<1>1. <<>> \in Seq(Status) /\ Len(<<>>) = 0
  OBVIOUS
<1>2. ControlTypes
  <2>1. at = 1 /\ query = 0 /\ age = 0 /\ total = 0 /\ todo = Temps /\ tables = {} /\ undropped = {}
    BY DEF Init
  <2>2. /\ at \in Statements /\ query \in 0..(2 * N) /\ age \in 0..Timeout /\ total \in 0..HardLimit
        /\ todo \subseteq Temps /\ tables \subseteq Statements /\ undropped \subseteq Statements
    BY Constants, <2>1
  <2> QED BY <2>2 DEF Init, ControlTypes
<1>3. ResultTypes
  <2>1. 0 \in 0..N /\ "nobody" \in {"nobody", "worker", "parent"}
    BY Constants
  <2>2. NoReport \in [by : {"nobody", "worker", "parent"}, results : Seq(Status), failedAt : 0..N]
    BY <1>1, <2>1 DEF NoReport
  <2>3. Len(<<>>) <= N
    BY <1>1, Constants
  <2>4. results = <<>> /\ report = NoReport
    BY DEF Init
  <2> QED BY <1>1, <2>2, <2>3, <2>4 DEF ResultTypes
<1>4. Progress
  <2>1. at = 1 /\ worker = "off" /\ query = 0 /\ results = <<>>
    BY DEF Init
  <2>2. \A i \in Statements : ended[i] = "not run"
    BY DEF Init
  <2>3. 0 \notin Statements /\ \A i \in Statements : ~(i < 1)
    BY Constants
  <2> QED BY Constants, <2>1, <2>2, <2>3 DEF Progress
<1>5. Call
  BY DEF Init, Call, Alive
<1>6. Cleaning
  BY DEF Init, Cleaning
<1> QED BY <1>2, <1>3, <1>4, <1>5, <1>6 DEF Inv, TypeOK

-----------------------------------------------------------------------------
(* Types *)

LEMMA ControlStep == ControlTypes /\ [Next]_vars => ControlTypes'
<1> SUFFICES ASSUME ControlTypes, [Next]_vars PROVE ControlTypes'
  OBVIOUS
<1>0. /\ at \in Statements /\ query \in 0..(2 * N) /\ age \in 0..Timeout /\ total \in 0..HardLimit
      /\ todo \subseteq Temps /\ tables \subseteq Statements /\ undropped \subseteq Statements
  BY DEF ControlTypes
<1>1. CASE StartWorker
  BY <1>1 DEF ControlTypes, StartWorker
<1>2. CASE StartFails
  BY <1>2 DEF ControlTypes, StartFails, Get
<1>3. CASE ReceiveAnswer
  BY <1>3 DEF ControlTypes, ReceiveAnswer, Get
<1>4. CASE ReceiveFailure
  BY <1>4 DEF ControlTypes, ReceiveFailure, Get
<1>5. CASE HardTimeout
  <2>1. Terminated(worker) \in {"answered", "dead"}
    BY DEF Terminated
  <2>2. 0 \in 0..(2 * N)
    BY Constants
  <2> QED BY <1>5, <2>1, <2>2 DEF ControlTypes, HardTimeout, Get
<1>6. CASE Decide
  <2>1. Verdict(report.results, caller) \in {"package", "error", "blocked"}
    BY DEF Verdict
  <2> QED BY <1>6, <2>1 DEF ControlTypes, Decide
<1>7. CASE ImportFails
  BY <1>7 DEF ControlTypes, ImportFails
<1>8. CASE Connect
  BY <1>8 DEF ControlTypes, Connect
<1>9. CASE ConnectFails
  BY <1>9 DEF ControlTypes, ConnectFails
<1>10. CASE ArmTimer
  <2>1. 0 \in 0..Timeout
    BY Constants
  <2> QED BY <1>10, <2>1 DEF ControlTypes, ArmTimer
<1>11. CASE BeginQuery
  <2>1. at \in 0..(2 * N)
    BY <1>0, Constants
  <2> QED BY <1>11, <2>1 DEF ControlTypes, BeginQuery
<1>12. ASSUME NEW how \in Ending, EndQuery(how) PROVE ControlTypes'
  <2>1. /\ ended' = [ended EXCEPT ![at] = how]
        /\ ended \in [Statements -> Ending \cup {"not run"}]
    BY <1>12 DEF EndQuery, ControlTypes
  <2>2. ended' \in [Statements -> Ending \cup {"not run"}]
    BY <2>1
  <2>3. 0 \in 0..(2 * N)
    BY Constants
  <2>4. tables' \subseteq Statements
    BY <1>0, <1>12 DEF EndQuery
  <2> QED BY <1>12, <2>2, <2>3, <2>4 DEF ControlTypes, EndQuery
<1>13. CASE Record
  <2>1. /\ worker' \in {"arm", "drop"} /\ (worker' = "arm" => at < N)
        /\ at' = IF worker' = "arm" THEN at + 1 ELSE at
    BY <1>13 DEF Record, AfterStatement
  <2>2. at' \in Statements
    BY <1>0, <2>1, Constants
  <2>3. timer' \in [Statements -> {"off", "armed", "awake", "cancelled", "spent"}]
    BY <1>13 DEF ControlTypes, Record, Cancelled
  <2> QED BY <1>13, <2>1, <2>2, <2>3 DEF ControlTypes, Record
<1>14. CASE BeginDrop
  <2>1. PICK t \in todo : query' = N + t
    BY <1>14 DEF BeginDrop
  <2>2. query' \in 0..(2 * N)
    BY <1>0, <2>1, Constants
  <2> QED BY <1>14, <2>2 DEF ControlTypes, BeginDrop
<1>15. CASE EndDrop
  <2>1. query > N
    BY <1>15 DEF EndDrop
  <2>2. query - N \in Statements /\ 0 \in 0..(2 * N)
    BY <1>0, <2>1, Constants
  <2>3. todo' \subseteq Temps /\ tables' \subseteq Statements /\ undropped' \subseteq Statements
    BY <1>0, <1>15, <2>2 DEF EndDrop
  <2> QED BY <1>15, <2>2, <2>3 DEF ControlTypes, EndDrop
<1>16. CASE Answer
  BY <1>16 DEF ControlTypes, Answer
<1>17. CASE Crash
  <2>1. 0 \in 0..(2 * N)
    BY Constants
  <2> QED BY <1>17, <2>1 DEF ControlTypes, Crash
<1>18. ASSUME NEW i \in Statements, TimerWakes(i) PROVE ControlTypes'
  BY <1>18 DEF ControlTypes, TimerWakes
<1>19. ASSUME NEW i \in Statements, Interrupt(i) PROVE ControlTypes'
  BY <1>19 DEF ControlTypes, Interrupt
<1>20. CASE Tick
  <2>1. total < HardLimit /\ total' = total + 1 /\ age' = IF age < Timeout THEN age + 1 ELSE age
    BY <1>20 DEF Tick
  <2>2. total' \in 0..HardLimit /\ age' \in 0..Timeout
    BY <1>0, <2>1, Constants
  <2> QED BY <1>20, <2>2 DEF ControlTypes, Tick
<1>21. CASE UNCHANGED vars
  BY <1>21 DEF ControlTypes, vars
<1> QED BY <1>1, <1>2, <1>3, <1>4, <1>5, <1>6, <1>7, <1>8, <1>9, <1>10, <1>11, <1>12, <1>13,
        <1>14, <1>15, <1>16, <1>17, <1>18, <1>19, <1>20, <1>21 DEF Next, Parent, Worker, Timers

\* Only the worker's start, its records and the caller's answer touch them.
LEMMA ResultStep == TypeOK /\ Inv /\ [Next]_vars => ResultTypes'
<1> SUFFICES ASSUME TypeOK, Inv, [Next]_vars PROVE ResultTypes'
  OBVIOUS
<1> DEFINE Reports == [by : {"nobody", "worker", "parent"}, results : Seq(Status), failedAt : 0..N]
<1>0. results \in Seq(Status) /\ Len(results) <= N /\ report \in Reports
  BY DEF TypeOK, ResultTypes
<1>1. CASE results' = results /\ report' \in Reports
  BY <1>0, <1>1 DEF ResultTypes
<1> HIDE DEF Reports
<1>2. CASE StartFails \/ ReceiveFailure \/ HardTimeout
  <2>1. results' = results /\ \E s \in {"FAIL", "TIMEOUT"} : report' = Failure(s)
    BY <1>2 DEF StartFails, ReceiveFailure, HardTimeout, Get
  <2>2. report' \in Reports
    BY <2>1, FailureFacts DEF Reports
  <2> QED BY <1>1, <2>1, <2>2
<1>3. CASE ReceiveAnswer
  <2>1. /\ report' = [by |-> "worker", results |-> results, failedAt |-> FailedAt(results)]
        /\ results' = results
    BY <1>3 DEF ReceiveAnswer, Get
  <2>2. report' \in Reports
    BY <1>0, <2>1, FailedAtType DEF Reports
  <2> QED BY <1>1, <2>1, <2>2
<1>4. CASE ImportFails
  <2>1. results' = [i \in 1..N |-> "NOT_EXECUTED"] /\ report' = report
    BY <1>4 DEF ImportFails, Statements
  <2>2. N \in Nat
    BY Constants
  <2>3. results' \in Seq(Status) /\ Len(results') = N
    BY <2>1, <2>2 DEF Status
  <2> QED BY <1>0, <2>1, <2>2, <2>3 DEF ResultTypes, Reports
<1>5. CASE Record
  <2>1. worker = "record" /\ results' = Append(results, StatusOf(ended[at])) /\ report' = report
    BY <1>5 DEF Record, Listed
  <2>2. Len(results) = at - 1
    BY <2>1 DEF Inv, Progress
  <2>3. at \in Statements /\ ended[at] \in Ending
    <3>1. at \in Statements /\ ended \in [Statements -> Ending \cup {"not run"}]
      BY DEF TypeOK, ControlTypes
    <3>2. ended[at] # "not run"
      BY <2>1 DEF Inv, Progress
    <3> QED BY <3>1, <3>2
  <2>4. StatusOf(ended[at]) \in Status
    BY <2>3, StatusFacts
  <2>5. results' \in Seq(Status) /\ Len(results') = Len(results) + 1
    BY <1>0, <2>1, <2>4, AppendProperties
  <2>6. Len(results') <= N
    BY <2>2, <2>3, <2>5, Constants
  <2> QED BY <1>0, <2>1, <2>5, <2>6 DEF ResultTypes, Reports
<1>6. CASE \/ StartWorker \/ Decide \/ Connect \/ ConnectFails \/ ArmTimer \/ BeginQuery
           \/ \E how \in Ending : EndQuery(how)
           \/ BeginDrop \/ EndDrop \/ Answer \/ Crash \/ Timers \/ Tick \/ UNCHANGED vars
  <2>1. results' = results /\ report' = report
    BY <1>6 DEF StartWorker, Decide, Connect, ConnectFails, ArmTimer, BeginQuery, EndQuery,
                BeginDrop, EndDrop, Answer, Crash, Timers, TimerWakes, Interrupt, Tick, vars
  <2> QED BY <1>0, <1>1, <2>1
<1> QED BY <1>2, <1>3, <1>4, <1>5, <1>6 DEF Next, Parent, Worker

LEMMA TypeStep == TypeOK /\ Inv /\ [Next]_vars => TypeOK'
BY ControlStep, ResultStep DEF TypeOK

-----------------------------------------------------------------------------
(* The worker's progress *)

LEMMA ProgressStep == TypeOK /\ Inv /\ [Next]_vars => Progress'
<1> SUFFICES ASSUME TypeOK, Inv, [Next]_vars PROVE Progress'
  OBVIOUS
<1>a. /\ at \in Statements /\ results \in Seq(Status)
      /\ ended \in [Statements -> Ending \cup {"not run"}]
  BY DEF TypeOK, ControlTypes, ResultTypes
<1>b. /\ 0 \notin Statements /\ N \in Nat /\ N > 0
      /\ \A i \in Statements : i \in Nat /\ i <= N /\ ~(i < 1)
  BY Constants
<1>0. /\ at \in Statements /\ at \in Nat /\ results \in Seq(Status)
      /\ ended \in [Statements -> Ending \cup {"not run"}]
      /\ 0 \notin Statements /\ N \in Nat /\ N > 0
      /\ \A i \in Statements : i \in Nat /\ i <= N /\ ~(i < 1)
  BY <1>a, <1>b
<1>n. /\ at \in Statements /\ at \in Nat /\ N \in Nat /\ at <= N /\ at >= 1
      /\ \A i \in Statements : i \in Nat
  BY <1>a, Constants
<1>i. Progress
  BY DEF Inv
<1>1. CASE UNCHANGED <<at, query, results, ended>> /\ worker' = worker
  BY <1>1, <1>i DEF Progress
<1>3. CASE StartWorker \/ Connect
  <2>1. Len(<<>>) = 1 - 1
    OBVIOUS
  <2>2. /\ worker \in {"off", "boot"} \/ parent = "start"
        /\ worker' \in {"boot", "arm"} /\ UNCHANGED <<at, query, results, ended>>
    BY <1>3 DEF StartWorker, Connect
  <2>3. worker \in {"off", "boot"}
    BY <2>2 DEF Inv, Call
  <2> QED BY <1>0, <1>i, <2>1, <2>2, <2>3 DEF Progress
<1>4. CASE ImportFails
  BY <1>0, <1>4, <1>i DEF Progress, ImportFails
<1>5. CASE ConnectFails
  BY <1>0, <1>5, <1>i DEF Progress, ConnectFails
<1>6. CASE StartFails \/ ReceiveAnswer \/ ReceiveFailure \/ Decide
  BY <1>1, <1>6 DEF StartFails, ReceiveAnswer, ReceiveFailure, Decide, Get
<1>7. CASE HardTimeout
  BY <1>0, <1>7, <1>i DEF Progress, HardTimeout, Get, Terminated
<1>8. CASE ArmTimer
  BY <1>0, <1>8, <1>i DEF Progress, ArmTimer
<1>9. CASE BeginQuery
  BY <1>0, <1>9, <1>i DEF Progress, BeginQuery
<1>10. ASSUME NEW how \in Ending, EndQuery(how) PROVE Progress'
  <2>1. /\ worker = "execute" /\ worker' = "record" /\ query' = 0 /\ at' = at /\ results' = results
        /\ ended' = [ended EXCEPT ![at] = how]
    BY <1>10 DEF EndQuery
  <2>2. /\ \A i \in Statements : i # at => ended'[i] = ended[i]
        /\ ended'[at] = how /\ how # "not run"
    BY <1>a, <2>1 DEF Ending
  <2>3. \A i \in Statements : i < at \/ i > at => i # at
    BY <1>n
  <2>4. Len(results) = at - 1 /\ 0 \notin Statements
    BY <1>b, <1>i, <2>1 DEF Progress
  <2>5. \A i \in Statements : i < at' => ended'[i] = "ok"
    BY <1>i, <2>1, <2>2, <2>3 DEF Progress
  <2>6. \A i \in Statements : i > at' => ended'[i] = "not run"
    BY <1>i, <2>1, <2>2, <2>3 DEF Progress
  <2> QED BY <2>1, <2>2, <2>4, <2>5, <2>6 DEF Progress
<1>11. CASE Record
  <2>1. /\ worker = "record" /\ ended' = ended /\ query' = query
        /\ results' = Append(results, StatusOf(ended[at]))
        /\ \/ worker' = "arm" /\ at' = at + 1 /\ ended[at] = "ok" /\ at < N
           \/ worker' = "drop" /\ at' = at
    BY <1>11 DEF Record, Listed, AfterStatement
  <2>2. Len(results) = at - 1 /\ query \notin Statements
    BY <1>i, <2>1 DEF Progress
  <2>3. ended[at] \in Ending
    BY <1>0, <1>i, <2>1 DEF Progress
  <2>a. StatusOf(ended[at]) \in Status
    BY <2>3, StatusFacts
  <2>b. Len(results') = Len(results) + 1
    BY <1>0, <2>1, <2>a, AppendProperties
  <2>4. Len(results') = at
    BY <1>n, <2>2, <2>b
  <2>5. CASE worker' = "arm"
    <3>1. /\ at' = at + 1 /\ at' \in Statements /\ ended[at] = "ok"
          /\ Len(results') = at' - 1
      BY <1>n, <2>1, <2>4, <2>5, Constants
    <3>0. /\ \A i \in Statements : i < at' => i < at \/ i = at
          /\ \A i \in Statements : i > at' => i > at
          /\ at' > at
      BY <1>n, <3>1
    <3>2. \A i \in Statements : i < at' => ended[i] = "ok"
      BY <1>i, <3>0, <3>1 DEF Progress
    <3>4. \A i \in Statements : i > at' => ended[i] = "not run"
      BY <1>i, <3>0 DEF Progress
    <3>5. ended[at'] = "not run"
      BY <1>i, <3>0, <3>1 DEF Progress
    <3> QED BY <2>1, <2>2, <2>5, <3>1, <3>2, <3>4, <3>5 DEF Progress
  <2>6. CASE worker' = "drop"
    BY <1>0, <1>i, <2>1, <2>2, <2>6 DEF Progress
  <2> QED BY <2>1, <2>5, <2>6
<1>12. CASE BeginDrop
  <2>1. PICK t \in Temps : query' = N + t
    BY <1>12 DEF BeginDrop, TypeOK, ControlTypes
  <2>a. t \in Nat /\ t >= 1
    BY <2>1, Constants
  <2>2. query' \notin Statements
    BY <2>1, <2>a, Constants
  <2> QED BY <1>12, <1>i, <2>2 DEF Progress, BeginDrop
<1>13. CASE EndDrop
  BY <1>0, <1>13, <1>i DEF Progress, EndDrop
<1>14. CASE Answer \/ Crash
  BY <1>0, <1>14, <1>i DEF Progress, Answer, Crash
<1>15. CASE Timers \/ Tick \/ UNCHANGED vars
  BY <1>1, <1>15 DEF Timers, TimerWakes, Interrupt, Tick, vars
<1> QED BY <1>3, <1>4, <1>5, <1>6, <1>7, <1>8, <1>9, <1>10, <1>11, <1>12, <1>13, <1>14, <1>15
     DEF Next, Parent, Worker

-----------------------------------------------------------------------------
(* The caller's answer and the cleanup *)

\* A statement that ended unlike "ok" gives a last result that is no PASS.
LEMMA RecordFits ==
    ASSUME TypeOK, Inv, Record, worker' = "drop"
    PROVE  Fit(results)'
<1>1. /\ worker = "record" /\ ended' = ended /\ caller' = caller
      /\ results' = Append(results, StatusOf(ended[at]))
      /\ ended[at] = "ok" => ~(at < N)
  BY DEF Record, Listed, AfterStatement
<1>2. /\ at \in Statements /\ results \in Seq(Status)
      /\ ended \in [Statements -> Ending \cup {"not run"}]
  BY DEF TypeOK, ControlTypes, ResultTypes
<1>3. Progress
  BY DEF Inv
<1>4. ended[at] \in Ending
  BY <1>1, <1>2, <1>3 DEF Progress
<1>5. StatusOf(ended[at]) \in Status /\ (StatusOf(ended[at]) = "PASS" <=> ended[at] = "ok")
  BY <1>4, StatusFacts
<1>6. /\ Len(results') = Len(results) + 1
      /\ results'[Len(results) + 1] = StatusOf(ended[at])
  <2>1. results' = Append(results, StatusOf(ended[at])) /\ results \in Seq(Status)
    BY <1>1, <1>2
  <2> QED BY <1>5, <2>1, AppendProperties
<1>7. results' # <<>>
  <2>1. results' = Append(results, StatusOf(ended[at])) /\ results \in Seq(Status)
    BY <1>1, <1>2
  <2> QED BY <1>5, <2>1, AppendProperties
<1>8. Verdict(results', caller) = "package" => StatusOf(ended[at]) = "PASS"
  BY <1>6, <1>7 DEF Verdict
<1>9. ASSUME ended[at] = "ok" PROVE AllOk
  <2>0. ~(at < N) /\ at \in Statements
    BY <1>1, <1>2, <1>9
  <2>1. at = N
    BY <2>0, Constants
  <2>2. \A i \in Statements : i < at \/ i = at
    BY <2>1, Constants
  <2> QED BY <1>3, <1>9, <2>2 DEF Progress, AllOk
<1>10. Verdict(results', caller) = "package" => AllOk
  BY <1>5, <1>8, <1>9
<1> QED BY <1>1, <1>10 DEF Fit, AllOk, NoneRan

LEMMA NoneRanAtBoot == TypeOK /\ Inv /\ worker = "boot" => NoneRan
<1> SUFFICES ASSUME TypeOK, Inv, worker = "boot" PROVE NoneRan
  OBVIOUS
<1>1. at = 1 /\ ended[at] = "not run" /\ \A i \in Statements : i > at => ended[i] = "not run"
  BY DEF Inv, Progress
<1>2. \A i \in Statements : i > 1 \/ i = 1
  BY Constants
<1> QED BY <1>1, <1>2 DEF NoneRan

\* Once the worker is gone, nothing changes how the statements ended.
LEMMA CallStep == TypeOK /\ Inv /\ [Next]_vars => Call'
<1> SUFFICES ASSUME TypeOK, Inv, [Next]_vars PROVE Call'
  OBVIOUS
<1>i. Call
  BY DEF Inv
<1>a. Alive => parent = "wait"
  BY DEF Call, Inv, Alive, TypeOK, ControlTypes
<1>1. CASE StartWorker
  BY <1>1, <1>i DEF Call, StartWorker, Alive, Fit, AllOk, NoneRan
<1>2. CASE StartFails
  <2>1. /\ parent = "start" /\ parent' = "decide" /\ worker' = worker /\ query' = query
        /\ report' = Failure("FAIL") /\ UNCHANGED <<caller, results, outcome, ended>>
    BY <1>2 DEF StartFails, Get
  <2>2. worker = "off" /\ query = 0
    BY <1>i, <2>1 DEF Call, Inv, Progress, TypeOK, ControlTypes
  <2>3. Fit(report.results)'
    BY <2>1, FailureFacts DEF Fit
  <2> QED BY <1>i, <2>1, <2>2, <2>3 DEF Call, Alive
<1>3. CASE ReceiveAnswer \/ ReceiveFailure
  <2>1. /\ parent = "wait" /\ parent' = "decide" /\ worker' = worker /\ query' = query
        /\ worker \in {"answered", "dead"}
        /\ UNCHANGED <<caller, results, outcome, ended>>
    BY <1>3 DEF ReceiveAnswer, ReceiveFailure, Get
  <2>2. \/ worker = "answered" /\ report'.results = results
        \/ report' = Failure("FAIL")
    BY <1>3 DEF ReceiveAnswer, ReceiveFailure, Get
  <2>3. Fit(report.results)'
    BY <1>i, <2>1, <2>2, FailureFacts DEF Call, Fit, AllOk, NoneRan
  <2>4. query = 0
    BY <2>1, <1>i DEF Call
  <2> QED BY <1>i, <2>1, <2>3, <2>4 DEF Call, Alive, Fit, AllOk, NoneRan
<1>5. CASE HardTimeout
  <2>1. /\ parent = "wait" /\ parent' = "decide" /\ worker' \in {"answered", "dead"} /\ query' = 0
        /\ worker' = "answered" => worker = "answered"
        /\ report' = Failure("TIMEOUT") /\ UNCHANGED <<caller, results, outcome, ended>>
    BY <1>5 DEF HardTimeout, Get, Terminated
  <2>2. Fit(report.results)'
    BY <2>1, FailureFacts DEF Fit
  <2> QED BY <1>i, <2>1, <2>2 DEF Call, Alive, Fit, AllOk, NoneRan
<1>6. CASE Decide
  BY <1>6, <1>i DEF Call, Decide, Alive, Fit, AllOk, NoneRan
<1>7. CASE ImportFails
  <2>1. /\ worker = "boot" /\ worker' = "answered"
        /\ UNCHANGED <<caller, parent, query, report, outcome, ended>>
    BY <1>7 DEF ImportFails
  <2>2. NoneRan' /\ parent = "wait"
    BY <1>a, <2>1, NoneRanAtBoot DEF NoneRan, Alive
  <2> QED BY <1>i, <2>1, <2>2 DEF Call, Fit
<1>8. CASE ConnectFails
  <2>1. /\ worker = "boot" /\ UNCHANGED <<caller, parent, query, report, outcome, ended, results>>
    BY <1>8 DEF ConnectFails
  <2>2. NoneRan' /\ parent = "wait"
    BY <1>a, <2>1, NoneRanAtBoot DEF NoneRan, Alive
  <2> QED BY <1>i, <2>1, <2>2 DEF Call, Fit
<1>9. CASE Connect \/ ArmTimer \/ BeginQuery
  <2>1. /\ Alive /\ worker' \in {"arm", "execute"}
        /\ UNCHANGED <<caller, parent, report, outcome, ended, results>>
    BY <1>9 DEF Connect, ArmTimer, BeginQuery, Alive
  <2> QED BY <1>a, <1>i, <2>1 DEF Call
<1>10. ASSUME NEW how \in Ending, EndQuery(how) PROVE Call'
  <2>1. /\ Alive /\ worker' = "record" /\ UNCHANGED <<caller, parent, report, outcome, results>>
    BY <1>10 DEF EndQuery, Alive
  <2> QED BY <1>a, <1>i, <2>1 DEF Call
<1>11. CASE Record
  <2>1. /\ Alive /\ worker' \in {"arm", "drop"} /\ UNCHANGED <<caller, parent, report, outcome, ended>>
    BY <1>11 DEF Record, AfterStatement, Alive
  <2>2. worker' = "drop" => Fit(results)'
    BY <1>11, RecordFits
  <2> QED BY <1>a, <1>i, <2>1, <2>2 DEF Call
<1>12. CASE BeginDrop \/ EndDrop \/ Answer
  <2>1. /\ worker = "drop" /\ Alive /\ worker' \in {"drop", "answered"}
        /\ worker' = "answered" => query' = 0
        /\ UNCHANGED <<caller, parent, report, outcome, ended, results>>
    BY <1>12 DEF BeginDrop, EndDrop, Answer, Alive
  <2> QED BY <1>a, <1>i, <2>1 DEF Call, Fit, AllOk, NoneRan
<1>13. CASE Crash
  BY <1>13, <1>a, <1>i DEF Call, Crash
<1>14. CASE Timers \/ Tick \/ UNCHANGED vars
  <2>1. UNCHANGED <<caller, parent, worker, query, report, outcome, ended, results>>
    BY <1>14 DEF Timers, TimerWakes, Interrupt, Tick, vars
  <2> QED BY <1>i, <2>1 DEF Call, Alive, Fit, AllOk, NoneRan
<1> QED BY <1>1, <1>2, <1>3, <1>5, <1>6, <1>7, <1>8, <1>9, <1>10, <1>11, <1>12, <1>13, <1>14
     DEF Next, Parent, Worker

LEMMA CleaningStep == TypeOK /\ Inv /\ [Next]_vars => Cleaning'
<1> SUFFICES ASSUME TypeOK, Inv, [Next]_vars PROVE Cleaning'
  OBVIOUS
<1>i. Cleaning
  BY DEF Inv
<1>1. CASE StartWorker \/ Connect \/ ImportFails \/ ConnectFails \/ ArmTimer \/ BeginQuery
  BY <1>1, <1>i DEF Cleaning, Call, Inv, StartWorker, Connect, ImportFails, ConnectFails, ArmTimer, BeginQuery
<1>2. CASE StartFails \/ ReceiveAnswer \/ ReceiveFailure \/ Decide
  BY <1>2, <1>i DEF Cleaning, StartFails, ReceiveAnswer, ReceiveFailure, Decide, Get
<1>3. CASE HardTimeout
  BY <1>3, <1>i DEF Cleaning, HardTimeout, Get, Terminated
<1>4. ASSUME NEW how \in Ending, EndQuery(how) PROVE Cleaning'
  BY <1>4, <1>i DEF Cleaning, EndQuery
<1>5. CASE Record
  BY <1>5, <1>i DEF Cleaning, Record, AfterStatement
<1>6. CASE BeginDrop \/ EndDrop \/ Answer \/ Crash
  BY <1>6, <1>i DEF Cleaning, BeginDrop, EndDrop, Answer, Crash
<1>7. CASE Timers \/ Tick \/ UNCHANGED vars
  BY <1>7, <1>i DEF Cleaning, Timers, TimerWakes, Interrupt, Tick, vars
<1> QED BY <1>1, <1>2, <1>3, <1>4, <1>5, <1>6, <1>7 DEF Next, Parent, Worker

LEMMA Invariant == Spec => [](TypeOK /\ Inv)
<1>1. TypeOK /\ Inv /\ [Next]_vars => (TypeOK /\ Inv)'
  BY TypeStep, ProgressStep, CallStep, CleaningStep DEF Inv
<1> QED BY InitOK, <1>1, PTL DEF Spec

-----------------------------------------------------------------------------
(* The report *)

\* A list of results that tells of every statement that ran, up to the one
\* the worker stopped at: it ends the list, and those before it passed.
Tells(rs) ==
    \/ NoneRan /\ \A i \in 1..Len(rs) : rs[i] = "NOT_EXECUTED"
    \/ /\ Len(rs) = at
       /\ ended[at] # "not run" /\ rs[at] = StatusOf(ended[at])
       /\ \A i \in 1..Len(rs) : i < at => rs[i] = "PASS"

\* The list as it grows; a worker's report is the list it ended with.
Listing ==
    /\ worker \in {"off", "boot", "arm", "execute", "record"} => \A i \in 1..Len(results) : results[i] = "PASS"
    /\ worker \in {"drop", "answered"} => Tells(results)
    /\ parent \in {"start", "wait"} => report.by = "nobody"
    /\ report.by = "worker" =>
          worker = "answered" /\ report.results = results /\ report.failedAt = FailedAt(results)

LEMMA ListingInit == Init => Listing
<1> SUFFICES ASSUME Init PROVE Listing
  OBVIOUS
<1>1. worker = "off" /\ results = <<>> /\ report.by = "nobody"
  BY DEF Init, NoReport
<1>2. \A i \in 1..Len(<<>>) : FALSE
  OBVIOUS
<1>3. \A i \in 1..Len(results) : results[i] = "PASS"
  BY <1>1, <1>2
<1> QED BY <1>1, <1>3 DEF Listing

\* The statement just recorded ends the list.
LEMMA RecordLists ==
    ASSUME TypeOK, Inv, Listing, Record
    PROVE  /\ worker' = "arm" => \A i \in 1..Len(results') : results'[i] = "PASS"
           /\ worker' = "drop" => Tells(results)'
<1>1. /\ worker = "record" /\ ended' = ended
      /\ results' = Append(results, StatusOf(ended[at]))
      /\ \/ worker' = "arm" /\ ended[at] = "ok"
         \/ worker' = "drop" /\ at' = at
  BY DEF Record, Listed, AfterStatement
<1>2. /\ at \in Statements /\ at \in Nat /\ results \in Seq(Status)
      /\ ended \in [Statements -> Ending \cup {"not run"}]
  BY Constants DEF TypeOK, ControlTypes, ResultTypes
<1>n. at \in Nat /\ Len(results) \in Nat
  BY <1>2, LenProperties
<1>3. Len(results) = at - 1 /\ ended[at] # "not run" /\ ended[at] \in Ending
  BY <1>1, <1>2 DEF Inv, Progress
<1>4. StatusOf(ended[at]) \in Status /\ (StatusOf(ended[at]) = "PASS" <=> ended[at] = "ok")
  BY <1>3, StatusFacts
<1>5. /\ Len(results') = Len(results) + 1
      /\ results'[Len(results) + 1] = StatusOf(ended[at])
      /\ \A i \in 1..Len(results) : results'[i] = results[i]
  <2>1. results' = Append(results, StatusOf(ended[at])) /\ results \in Seq(Status)
    BY <1>1, <1>2
  <2> QED BY <1>4, <2>1, AppendProperties
<1>6. /\ Len(results') = at /\ results'[at] = StatusOf(ended[at])
      /\ \A i \in 1..Len(results') : i \in 1..Len(results) \/ i = at
      /\ \A i \in 1..Len(results') : i < at => i \in 1..Len(results)
  <2>0. Len(results) = at - 1
    BY <1>3
  <2>1. Len(results) + 1 = at
    BY <1>n, <2>0
  <2>2. Len(results') = at /\ results'[at] = StatusOf(ended[at])
    BY <1>5, <2>1
  <2>3. \A i \in 1..at : i < at <=> i \in 1..(at - 1)
    BY <1>n
  <2>4. \A i \in 1..at : i \in 1..(at - 1) \/ i = at
    BY <1>n
  <2> QED BY <1>3, <2>2, <2>3, <2>4
<1>7. \A i \in 1..Len(results) : results'[i] = "PASS"
  BY <1>1, <1>5 DEF Listing
<1>8. ASSUME worker' = "arm" PROVE \A i \in 1..Len(results') : results'[i] = "PASS"
  BY <1>1, <1>4, <1>6, <1>7, <1>8
<1>9. ASSUME worker' = "drop" PROVE Tells(results)'
  BY <1>1, <1>3, <1>6, <1>7, <1>9 DEF Tells
<1> QED BY <1>8, <1>9

LEMMA ListingStep == TypeOK /\ Inv /\ Listing /\ [Next]_vars => Listing'
<1> SUFFICES ASSUME TypeOK, Inv, Listing, [Next]_vars PROVE Listing'
  OBVIOUS
<1>a. Alive => parent = "wait"
  BY DEF Call, Inv, Alive, TypeOK, ControlTypes
<1>b. worker = "boot" => results = <<>>
  BY DEF Inv, Progress
<1>1. CASE StartWorker
  <2>1. worker = "off" /\ parent = "start"
    BY <1>1 DEF StartWorker, Inv, Call
  <2> QED BY <1>1, <2>1 DEF StartWorker, Listing
<1>2. CASE StartFails \/ ReceiveFailure
  <2>1. report' = Failure("FAIL") /\ parent' = "decide" /\ UNCHANGED <<worker, results, at, ended>>
    BY <1>2 DEF StartFails, ReceiveFailure, Get
  <2>2. report'.by = "parent"
    BY <2>1 DEF Failure
  <2> QED BY <2>1, <2>2 DEF Listing, Tells, NoneRan
<1>3. CASE ReceiveAnswer
  <2>1. /\ report' = [by |-> "worker", results |-> results, failedAt |-> FailedAt(results)]
        /\ worker = "answered" /\ parent' = "decide" /\ UNCHANGED <<worker, results, at, ended>>
    BY <1>3 DEF ReceiveAnswer, Get
  <2> QED BY <2>1 DEF Listing, Tells, NoneRan
<1>4. CASE HardTimeout
  <2>1. /\ report' = Failure("TIMEOUT") /\ parent' = "decide" /\ UNCHANGED <<results, at, ended>>
        /\ worker' = "dead" \/ (worker' = "answered" /\ worker = "answered")
    BY <1>4 DEF HardTimeout, Get, Terminated
  <2>2. report'.by = "parent"
    BY <2>1 DEF Failure
  <2> QED BY <2>1, <2>2 DEF Listing, Tells, NoneRan
<1>5. CASE Decide
  BY <1>5 DEF Decide, Listing, Tells, NoneRan
<1>6. CASE ImportFails
  <2>1. /\ worker = "boot" /\ worker' = "answered" /\ results' = [i \in Statements |-> "NOT_EXECUTED"]
        /\ UNCHANGED <<parent, report, at, ended>>
    BY <1>6 DEF ImportFails
  <2>2. N \in Nat /\ results' = [i \in 1..N |-> "NOT_EXECUTED"]
    BY <2>1, Constants DEF Statements
  <2>3. Len(results') = N /\ \A i \in 1..Len(results') : results'[i] = "NOT_EXECUTED"
    BY <2>2
  <2>4. NoneRan' /\ parent = "wait"
    BY <1>a, <2>1, NoneRanAtBoot DEF NoneRan, Alive
  <2>5. Tells(results)'
    BY <2>3, <2>4 DEF Tells
  <2> QED BY <2>1, <2>4, <2>5 DEF Listing
<1>7. CASE ConnectFails
  <2>1. /\ worker = "boot" /\ worker' \in {"answered", "drop"} /\ UNCHANGED <<parent, results, report, at, ended>>
    BY <1>7 DEF ConnectFails
  <2>2. NoneRan' /\ parent = "wait"
    BY <1>a, <2>1, NoneRanAtBoot DEF NoneRan, Alive
  <2>3. results' = <<>> /\ \A i \in 1..Len(<<>>) : FALSE
    BY <1>b, <2>1
  <2>4. Tells(results)'
    BY <2>2, <2>3 DEF Tells
  <2> QED BY <2>1, <2>2, <2>4 DEF Listing
<1>8. CASE Connect \/ ArmTimer \/ BeginQuery
  <2>1. /\ worker \in {"boot", "arm", "execute"} /\ worker' \in {"arm", "execute"}
        /\ UNCHANGED <<parent, results, report>>
    BY <1>8 DEF Connect, ArmTimer, BeginQuery
  <2> QED BY <2>1 DEF Listing
<1>9. ASSUME NEW how \in Ending, EndQuery(how) PROVE Listing'
  BY <1>9 DEF EndQuery, Listing
<1>10. CASE Record
  <2>1. worker = "record" /\ worker' \in {"arm", "drop"} /\ UNCHANGED <<parent, report>>
    BY <1>10 DEF Record, AfterStatement
  <2> QED BY <1>10, <2>1, RecordLists DEF Listing
<1>11. CASE BeginDrop \/ EndDrop \/ Answer
  <2>1. /\ worker = "drop" /\ worker' \in {"drop", "answered"}
        /\ UNCHANGED <<parent, results, report, at, ended>>
    BY <1>11 DEF BeginDrop, EndDrop, Answer
  <2> QED BY <2>1 DEF Listing, Tells, NoneRan
<1>12. CASE Crash
  <2>1. Alive /\ worker' = "dead" /\ UNCHANGED <<parent, report>>
    BY <1>12 DEF Crash
  <2> QED BY <1>a, <2>1 DEF Listing
<1>13. CASE Timers \/ Tick \/ UNCHANGED vars
  <2>1. UNCHANGED <<parent, worker, results, report, at, ended>>
    BY <1>13 DEF Timers, TimerWakes, Interrupt, Tick, vars
  <2> QED BY <2>1 DEF Listing, Tells, NoneRan
<1> QED BY <1>1, <1>2, <1>3, <1>4, <1>5, <1>6, <1>7, <1>8, <1>9, <1>10, <1>11, <1>12, <1>13
     DEF Next, Parent, Worker

LEMMA ListingFaithful == TypeOK /\ Inv /\ Listing => ReportIsFaithful
<1> SUFFICES ASSUME TypeOK, Inv, Listing, report.by = "worker", NEW i \in Statements
             PROVE  IF i \in DOMAIN report.results /\ report.results[i] # "NOT_EXECUTED"
                    THEN /\ report.results[i] = StatusOf(ended[i])
                         /\ report.failedAt = i <=> ended[i] # "ok"
                    ELSE ended[i] = "not run" /\ report.failedAt # i
  BY DEF ReportIsFaithful
<1>1. Tells(results) /\ report.results = results /\ report.failedAt = FailedAt(results)
  BY DEF Listing
<1>2. /\ results \in Seq(Status) /\ DOMAIN results = 1..Len(results) /\ Len(results) \in Nat
      /\ at \in Statements /\ at \in Nat /\ i \in Nat /\ i >= 1
      /\ ended \in [Statements -> Ending \cup {"not run"}]
  BY Constants, LenProperties DEF TypeOK, ControlTypes, ResultTypes
<1>n. /\ at \in Nat /\ at >= 1 /\ at # 0 /\ i \in Nat /\ i >= 1 /\ i # 0 /\ Len(results) \in Nat
      /\ DOMAIN results = 1..Len(results)
  <2>1. at \in Statements /\ Len(results) \in Nat /\ DOMAIN results = 1..Len(results)
    BY <1>2
  <2>2. at \in Nat /\ at >= 1 /\ i \in Nat /\ i >= 1
    BY <2>1, Constants
  <2> QED BY <2>1, <2>2
<1>e. results = <<>> \/ Len(results) > 0
  <2>1. results \in Seq(Status)
    BY <1>2
  <2>2. results # <<>> => Len(results) \in Nat \ {0}
    BY <2>1, EmptySeq
  <2> QED BY <2>2
<1>l. Len(<<>>) = 0
  OBVIOUS
<1>3. CASE NoneRan /\ \A j \in 1..Len(results) : results[j] = "NOT_EXECUTED"
  <2>2. results = <<>> \/ Len(results) \in 1..Len(results)
    BY <1>e, <1>n
  <2>3. FailedAt(results) = 0
    BY <1>3, <2>2 DEF FailedAt
  <2>4. i \in DOMAIN results => results[i] = "NOT_EXECUTED"
    BY <1>n, <1>3
  <2>5. ended[i] = "not run" /\ i # 0
    BY <1>n, <1>3 DEF NoneRan
  <2> QED BY <1>1, <2>3, <2>4, <2>5
<1>4. CASE /\ Len(results) = at
           /\ ended[at] # "not run" /\ results[at] = StatusOf(ended[at])
           /\ \A j \in 1..Len(results) : j < at => results[j] = "PASS"
  <2>1. ended[at] \in Ending
    BY <1>2, <1>4
  <2>2. StatusOf(ended[at]) # "NOT_EXECUTED" /\ (StatusOf(ended[at]) = "PASS" <=> ended[at] = "ok")
    BY <2>1, StatusFacts DEF StatusOf
  <2>0. DOMAIN results = 1..at
    BY <1>n, <1>4
  <2>3. results # <<>>
    BY <1>n, <1>l, <1>4
  <2>4. FailedAt(results) = IF ended[at] = "ok" THEN 0 ELSE at
    BY <1>4, <2>2, <2>3 DEF FailedAt
  <2>5. CASE i = at
    <3>1. i \in DOMAIN results /\ at # 0
      BY <1>n, <2>0, <2>5
    <3> QED BY <1>1, <1>4, <2>2, <2>4, <2>5, <3>1
  <2>6. CASE i < at
    <3>1. i \in DOMAIN results /\ FailedAt(results) # i
      BY <1>n, <2>0, <2>4, <2>6
    <3>3. results[i] = "PASS"
      BY <1>n, <1>4, <2>6, <3>1
    <3>2. ended[i] = "ok"
      BY <2>6 DEF Inv, Progress
    <3> QED BY <1>1, <3>1, <3>2, <3>3 DEF StatusOf
  <2>7. CASE i > at
    <3>1. i \notin DOMAIN results /\ FailedAt(results) # i
      BY <1>n, <2>0, <2>4, <2>7
    <3>2. ended[i] = "not run"
      BY <2>7 DEF Inv, Progress
    <3> QED BY <1>1, <3>1, <3>2
  <2>8. i = at \/ i < at \/ i > at
    BY <1>n
  <2> QED BY <2>5, <2>6, <2>7, <2>8
<1> QED BY <1>1, <1>3, <1>4 DEF Tells

-----------------------------------------------------------------------------
\* Type correctness of the program run, for programs of any length.
THEOREM TypeCorrect == Spec => []TypeOK
BY Invariant, PTL

\* The program stops at its first failure: no statement runs unless all
\* statements before it ended well.
THEOREM StopsAtFailure == Spec => []FailureBlocks
<1>1. TypeOK /\ Inv => FailureBlocks
  <2> SUFFICES ASSUME TypeOK, Inv PROVE FailureBlocks
    OBVIOUS
  <2>1. /\ \A i \in Statements : i < at => ended[i] = "ok"
        /\ \A i \in Statements : i > at => ended[i] = "not run"
        /\ query \in Statements => query = at
        /\ at \in Statements
    BY DEF Inv, Progress, TypeOK, ControlTypes
  <2>2. \A i \in Statements : ended[i] # "not run" \/ query = i => ~(i > at)
    BY <2>1, Constants
  <2>3. \A i \in Statements : ~(i > at) => \A j \in 1..(i - 1) : j \in Statements /\ j < at
    <3>1. \A i, j \in Nat : \A a \in Nat : ~(i > a) /\ j <= i - 1 => j < a /\ j <= i
      OBVIOUS
    <3> SUFFICES ASSUME NEW i \in Statements, ~(i > at), NEW j \in 1..(i - 1)
                 PROVE  j \in Statements /\ j < at
      OBVIOUS
    <3>2. i \in Nat /\ i <= N /\ N \in Nat /\ at \in Nat
      BY <2>1, Constants
    <3>3. j \in Nat /\ 1 <= j /\ j <= i - 1
      BY <3>2
    <3>4. j < at /\ j <= i
      BY <3>1, <3>2, <3>3
    <3>5. j <= N
      BY <3>2, <3>3, <3>4
    <3> QED BY <3>3, <3>4, <3>5, Constants
  <2> QED BY <2>1, <2>2, <2>3 DEF FailureBlocks
<1> QED BY Invariant, <1>1, PTL

\* The caller's answer ends the worker, its query and its timers.
THEOREM WorkerEndsFirst == Spec => []AnswerEndsTheWorker
<1>1. Inv => AnswerEndsTheWorker
  BY DEF Inv, Call, AnswerEndsTheWorker
<1> QED BY Invariant, <1>1, PTL

\* The cleanup is reached from every failure of a statement.
THEOREM CleanupIsTried == Spec => []LeftoversWereTried
<1>1. Inv => LeftoversWereTried
  BY DEF Inv, Cleaning, LeftoversWereTried
<1> QED BY Invariant, <1>1, PTL

\* No program that ran in part is made into a package.
THEOREM HalfRunsAreBlocked == Spec => []NeverPackagesAHalfRun
<1>1. Inv => NeverPackagesAHalfRun
  BY DEF Inv, Call, NeverPackagesAHalfRun, AllOk, NoneRan
<1> QED BY Invariant, <1>1, PTL

\* The report of a worker tells of the statements that ran and of no other,
\* each as it ended, and names the one the program stopped at.
THEOREM ReportsAreFaithful == Spec => []ReportIsFaithful
<1>1. TypeOK /\ Inv /\ Listing /\ [Next]_vars => Listing'
  BY ListingStep
<1>2. Spec => []Listing
  BY ListingInit, Invariant, <1>1, PTL DEF Spec
<1> QED BY <1>2, ListingFaithful, Invariant, PTL
=============================================================================
