------------------------- MODULE SparkStages_proof -------------------------
(***************************************************************************)
(* Proofs about SparkStages: types for any clients, and, with one client   *)
(* at a time (Exclusive), that a full run's verdict is about itself.       *)
(*                                                                         *)
(* IInv follows a full run through its stages.  Nobody else acts while it  *)
(* is busy (Alone), but the caches may expire at any time: then there is   *)
(* no result any more and every later stage is refused.  As long as there  *)
(* is one, the context in use (Live) holds the plan, and then the code, of *)
(* this run's SQL (Reached).                                               *)
(***************************************************************************)
EXTENDS SparkStages, TLAPS

PV == "PHYSICAL_VERIFIER"

Passed(t, s) == run[t].did[s] = [status |-> "ok", of |-> {run[t].ver}]

\* The context the next step of t works on.
Live(t, g) == IF call[t] = NoCall THEN result # None /\ g = current ELSE g = call[t].g

Alone == \A t, u \in Threads : Busy(t) /\ Busy(u) => t = u

ContextOK ==
    \A g \in Contexts : /\ ctx[g].code = ctx[g].compiled.plan
                        /\ ctx[g].stage[PV] = "SKIPPED" => ctx[g].report = "none"

CallOK ==
    \A t \in Threads : call[t] # NoCall =>
        /\ call[t].g = current \/ (current = 0 /\ result = None)
        /\ At(t, PV, "gate") => Mine(t).report = "none"
        /\ t \in Streams => /\ run[t].at = "spark"
                            /\ call[t].stage = Order[run[t].next]
                            /\ call[t].art.ver = run[t].ver

Reached(t) ==
    /\ run[t].next > 1 => /\ Passed(t, "MAPPER")
                          /\ result # None => current # 0
                          /\ \A g \in Contexts : Live(t, g) => ctx[g].plan = run[t].ver
    /\ run[t].next > 3 => /\ Passed(t, "COMPILER")
                          /\ \A g \in Contexts : Live(t, g) => ctx[g].code = run[t].ver
    /\ run[t].next > 4 => Passed(t, "VALIDATOR") /\ run[t].ver \in vetted
    /\ run[t].compared # "NONE" => run[t].next > 5 /\ Passed(t, "COMPARATOR")
    /\ run[t].did[PV].status = "none"

\* What a call that is about to return has made of the stage.
Outcome(t) ==
    LET s == call[t].stage
    IN  /\ s \in Stopping => Mine(t).stage[s] \in {"SUCCESS", "FAILURE"}
        /\ Mine(t).stage[s] = "SUCCESS" =>
              /\ s # "DEVELOPER" => call[t].of = {run[t].ver}
              /\ s = "MAPPER" => Mine(t).plan = run[t].ver
              /\ s = "COMPILER" => Mine(t).code = run[t].ver
              /\ s = "VALIDATOR" => run[t].ver \in vetted

Working(t) ==
    call[t] # NoCall =>
        /\ At(t, "COMPILER", "store") => call[t].plan = run[t].ver
        /\ At(t, PV, "verify") => call[t].of = {run[t].ver}
        /\ call[t].at = "return" => Outcome(t)

Concluded(t) ==
    /\ run[t].compared = "LOGIC_EQUIVALENT" => \A s \in Critical : Passed(t, s)
    /\ run[t].did[PV].status = "ok" => Passed(t, "VALIDATOR") /\ Passed(t, PV)

RunOK(t) ==
    /\ run[t].at = "start" => run[t] = NewRun
    /\ run[t].at \in {"spark", "verdict"} /\ result # None => result.ver = run[t].ver
    /\ run[t].at = "spark" => Reached(t) /\ Working(t)
    /\ run[t].at = "verdict" => Concluded(t)
    /\ run[t].at # "done" => ~run[t].ready /\ ~run[t].ok

VerdictOK(t) == /\ run[t].ready => \A s \in Critical : Passed(t, s)
                /\ run[t].ok => Passed(t, "VALIDATOR") /\ Passed(t, PV)

RunsOK == \A t \in Streams : RunOK(t) /\ VerdictOK(t)

IInv == TypeOK /\ Alone /\ ContextOK /\ CallOK /\ RunsOK /\ RunsExecuteVetted
-----------------------------------------------------------------------------
(* Stages and records *)

LEMMA OrderFacts ==
    /\ Len(Order) = 6 /\ DOMAIN Order = 1..6
    /\ Order[1] = "MAPPER" /\ Order[2] = "DEVELOPER" /\ Order[3] = "COMPILER"
    /\ Order[4] = "VALIDATOR" /\ Order[5] = "COMPARATOR" /\ Order[6] = "PHYSICAL_VERIFIER"
BY DEF Order

LEMMA StageFacts ==
    /\ Stages = {"MAPPER", "DEVELOPER", "COMPILER", "VALIDATOR", "COMPARATOR", "PHYSICAL_VERIFIER"}
    /\ PV = "PHYSICAL_VERIFIER" /\ PV \in Stages
    /\ Stopping \subseteq Critical /\ Critical \subseteq Stages
    /\ \A n \in 1..6 : Order[n] \in Stages
<1>1. DOMAIN Order = 1..6 /\ 1..6 = {1, 2, 3, 4, 5, 6}
    BY OrderFacts
<1>2. Stages = {Order[1], Order[2], Order[3], Order[4], Order[5], Order[6]}
    BY <1>1 DEF Stages
<1> QED
    BY <1>1, <1>2, OrderFacts DEF PV, Stopping, Critical

LEMMA Kinds == StagesAssumption => /\ 0 \notin Contexts /\ Loop \cap Streams = {}
                                   /\ Version \subseteq AnyVersion /\ NoVersion \in AnyVersion
                                   /\ NoVersion = 0 /\ NoVersion \notin Version
BY DEF StagesAssumption, AnyVersion, Version, NoVersion

LEMMA StreamThreads ==
    /\ Streams \subseteq Threads /\ Loop \subseteq Threads
    /\ StagesAssumption => \A t \in Streams : t \notin Loop
BY DEF Threads, StagesAssumption

\* A call that is in progress is a record of Call, and no other value is.
LEMMA CallFacts ==
    /\ \A k \in Call : k # NoCall /\ k.at # "idle"
    /\ TypeOK => \A t \in Threads : call[t] # NoCall =>
                     call[t] \in Call /\ call[t].g \in Contexts /\ ctx[call[t].g] \in Context
BY DEF Call, NoCall, TypeOK

LEMMA SetStageFacts ==
    ASSUME NEW c \in Context, NEW s \in Stages, NEW status \in Status
    PROVE  LET d == SetStage(c, s, status)
           IN  /\ d \in Context
               /\ d.plan = c.plan /\ d.annotation = c.annotation /\ d.compiled = c.compiled
               /\ d.code = c.code /\ d.compared = c.compared /\ d.report = c.report
               /\ d.stage[s] = status
               /\ \A x \in Stages \ {s} : d.stage[x] = c.stage[x]
               /\ s # PV => d.stage[PV] = c.stage[PV]
BY StageFacts DEF SetStage, Context

LEMMA NewContextType == NewContext \in Context
BY Kinds, StagesAssumption DEF NewContext, Context, Status, Comparison, AnyVersion

LEMMA WriteFacts ==
    ASSUME TypeOK, NEW t \in Threads, call[t] # NoCall, NEW c \in Context, Write(t, c)
    PROVE  /\ ctx' \in [Contexts -> Context]
           /\ ctx'[call[t].g] = c
           /\ \A g \in Contexts \ {call[t].g} : ctx'[g] = ctx[g]
BY CallFacts DEF TypeOK, Write

LEMMA FinishFacts ==
    ASSUME TypeOK, NEW t \in Threads, call[t] # NoCall, NEW of \in SUBSET AnyVersion, Finish(t, of)
    PROVE  /\ call' \in [Threads -> Call \cup {NoCall}]
           /\ call'[t] \in Call /\ call'[t].at = "return" /\ call'[t].of = of
           /\ call'[t].stage = call[t].stage /\ call'[t].g = call[t].g /\ call'[t].art = call[t].art
           /\ \A u \in Threads \ {t} : call'[u] = call[u]
<1>1. call[t] \in Call
    BY CallFacts
<1>2. [call[t] EXCEPT !.at = "return", !.of = of] \in Call
    BY <1>1 DEF Call
<1>3. call' = [call EXCEPT ![t] = [call[t] EXCEPT !.at = "return", !.of = of]]
    BY DEF Finish, TypeOK
<1> QED
    BY <1>1, <1>2, <1>3 DEF TypeOK, Call

-----------------------------------------------------------------------------
(* What the steps of a stage call do *)

\* The call of t writes c to its context; the call of t becomes k.
Wrote(t, c) ==
    /\ ctx' \in [Contexts -> Context]
    /\ ctx'[call[t].g] = c
    /\ \A g \in Contexts \ {call[t].g} : ctx'[g] = ctx[g]
Became(t, k) ==
    /\ call' \in [Threads -> Call \cup {NoCall}]
    /\ call'[t] = k
    /\ k.stage = call[t].stage /\ k.g = call[t].g /\ k.art = call[t].art
    /\ \A u \in Threads \ {t} : call'[u] = call[u]
Ended(t, of) == \E k \in Call : Became(t, k) /\ k.at = "return" /\ k.of = of
Frame == UNCHANGED <<runs, result, current, run>>

\* A stage that ends writes its own fields; if it says SUCCESS, they are of
\* the versions it reports.
Result1(t, d, of) ==
    LET s == call[t].stage
        c == Mine(t)
        v == call[t].art.ver
    IN  /\ d.plan = c.plan \/ (s = "MAPPER" /\ d.plan = v)
        /\ \/ d.code = c.code /\ d.compiled = c.compiled
           \/ s = "COMPILER" /\ call[t].at = "store" /\ d.code = call[t].plan /\ d.compiled.plan = d.code
        /\ s # PV => d.report = c.report /\ d.stage[PV] = c.stage[PV]
        /\ s = PV /\ d.stage[PV] = "SKIPPED" =>
              d.report = "none" \/ (call[t].at = "gate" /\ d.report = c.report)
        /\ s \in Stopping => d.stage[s] \in {"SUCCESS", "FAILURE"}
        /\ d.stage[s] = "SUCCESS" =>
              /\ s = "MAPPER" => of = {v} /\ d.plan = v
              /\ s = "COMPILER" => call[t].at = "store" /\ of = {call[t].plan} /\ d.code = call[t].plan
              /\ s = "VALIDATOR" => of = {c.compiled.plan} /\ c.compiled.plan \in vetted'
              /\ s = "COMPARATOR" => of = {v, c.plan}
              /\ s = PV => call[t].at = "verify" /\ of = call[t].of
Ends(t) == /\ call[t] # NoCall
           /\ \E d \in Context, of \in SUBSET AnyVersion :
                  Wrote(t, d) /\ Ended(t, of) /\ Result1(t, d, of)

LEMMA Ending ==
    ASSUME TypeOK, NEW t \in Threads, call[t] # NoCall, NEW of \in SUBSET AnyVersion, Finish(t, of)
    PROVE  Ended(t, of)
BY FinishFacts DEF Ended, Became

LEMMA Writing ==
    ASSUME TypeOK, NEW t \in Threads, call[t] # NoCall, NEW c \in Context, Write(t, c)
    PROVE  Wrote(t, c)
BY WriteFacts DEF Wrote

LEMMA InHand ==
    ASSUME TypeOK, NEW t \in Threads, call[t] # NoCall
    PROVE  /\ call[t] \in Call /\ call[t].stage \in Stages /\ call[t].art \in Result
           /\ call[t].art.ver \in Version /\ call[t].plan \in AnyVersion
           /\ call[t].annotation \in AnyVersion /\ call[t].of \in SUBSET AnyVersion
           /\ Mine(t) \in Context /\ Mine(t).compiled.plan \in AnyVersion
BY CallFacts DEF Call, Mine, Context, Result

\* The handler of an exception.
LEMMA FailEnds ==
    ASSUME TypeOK, NEW t \in Threads, call[t] # NoCall, Fails(t, call[t].stage)
    PROVE  Ends(t)
<1> DEFINE d == SetStage(Mine(t), call[t].stage, "FAILURE")
<1>1. /\ d \in Context
      /\ d.plan = Mine(t).plan /\ d.code = Mine(t).code /\ d.compiled = Mine(t).compiled
      /\ d.report = Mine(t).report /\ d.stage[call[t].stage] = "FAILURE"
      /\ \A x \in Stages \ {call[t].stage} : d.stage[x] = Mine(t).stage[x]
    <2>1. Mine(t) \in Context /\ call[t].stage \in Stages /\ "FAILURE" \in Status
        BY InHand DEF Status
    <2> QED BY <2>1, SetStageFacts
<1>2. Wrote(t, d) /\ Ended(t, {})
    BY <1>1, Writing, Ending DEF Fails
<1>3. Result1(t, d, {})
    <2> HIDE DEF d
    <2> QED BY <1>1, InHand, StageFacts DEF Result1
<1> QED
    BY <1>1, <1>2, <1>3 DEF Ends

LEMMA MapEnds ==
    ASSUME TypeOK, NEW t \in Threads, Map(t)
    PROVE  Ends(t) /\ call[t].stage = "MAPPER"
<1>1. call[t] # NoCall /\ call[t].stage = "MAPPER"
    BY DEF Map, At
<1>2. CASE Fails(t, "MAPPER")
    BY <1>1, <1>2, FailEnds
<1>3. CASE /\ Write(t, [SetStage(Mine(t), "MAPPER", "SUCCESS") EXCEPT !.plan = call[t].art.ver])
           /\ Finish(t, {call[t].art.ver})
    <2> DEFINE e == SetStage(Mine(t), "MAPPER", "SUCCESS")
               d == [e EXCEPT !.plan = call[t].art.ver]
    <2>1. e \in Context /\ e.code = Mine(t).code /\ e.compiled = Mine(t).compiled
          /\ e.report = Mine(t).report /\ e.stage["MAPPER"] = "SUCCESS"
          /\ e.stage[PV] = Mine(t).stage[PV]
        BY <1>1, InHand, SetStageFacts, StageFacts DEF Status
    <2> HIDE DEF e
    <2>2. /\ d \in Context /\ d.plan = call[t].art.ver /\ d.code = e.code /\ d.compiled = e.compiled
          /\ d.report = e.report /\ d.stage = e.stage
        BY <2>1, <1>1, InHand, Kinds DEF Context, AnyVersion
    <2>3. Wrote(t, d) /\ Ended(t, {call[t].art.ver})
        BY <1>1, <1>3, <2>2, InHand, Writing, Ending DEF AnyVersion, e
    <2> HIDE DEF d
    <2>4. Result1(t, d, {call[t].art.ver})
        BY <1>1, <2>1, <2>2, StageFacts DEF Result1
    <2> QED
        BY <1>1, <2>2, <2>3, <2>4, InHand DEF Ends, AnyVersion
<1> QED
    BY <1>1, <1>2, <1>3 DEF Map

LEMMA DevelopEnds ==
    ASSUME TypeOK, NEW t \in Threads, Develop(t)
    PROVE  Ends(t) /\ call[t].stage = "DEVELOPER"
<1>1. call[t] # NoCall /\ call[t].stage = "DEVELOPER"
    BY DEF Develop, At
<1>2. CASE Fails(t, "DEVELOPER")
    BY <1>1, <1>2, FailEnds
<1>3. CASE /\ Write(t, [SetStage(Mine(t), "DEVELOPER", "SUCCESS") EXCEPT !.annotation = call[t].plan])
           /\ Finish(t, {call[t].plan})
    <2> DEFINE e == SetStage(Mine(t), "DEVELOPER", "SUCCESS")
               d == [e EXCEPT !.annotation = call[t].plan]
    <2>0. Mine(t) \in Context /\ "DEVELOPER" \in Stages /\ "DEVELOPER" # PV /\ "SUCCESS" \in Status
        BY <1>1, InHand, StageFacts DEF Status
    <2>1. e \in Context /\ e.plan = Mine(t).plan /\ e.code = Mine(t).code /\ e.compiled = Mine(t).compiled
          /\ e.report = Mine(t).report /\ e.stage[PV] = Mine(t).stage[PV]
        BY <2>0, SetStageFacts
    <2> HIDE DEF e
    <2>2. /\ d \in Context /\ d.plan = e.plan /\ d.code = e.code /\ d.compiled = e.compiled
          /\ d.report = e.report /\ d.stage = e.stage
        BY <2>1, <1>1, InHand DEF Context
    <2>3. Wrote(t, d) /\ Ended(t, {call[t].plan})
        BY <1>1, <1>3, <2>2, InHand, Writing, Ending DEF e
    <2> HIDE DEF d
    <2>4. Result1(t, d, {call[t].plan})
        BY <1>1, <2>1, <2>2, StageFacts DEF Result1, Stopping
    <2> QED
        BY <1>1, <2>2, <2>3, <2>4, InHand DEF Ends
<1>4. CASE Write(t, SetStage(Mine(t), "DEVELOPER", "SKIPPED")) /\ Finish(t, {})
    <2> DEFINE e == SetStage(Mine(t), "DEVELOPER", "SKIPPED")
    <2>0. Mine(t) \in Context /\ "DEVELOPER" \in Stages /\ "DEVELOPER" # PV /\ "SKIPPED" \in Status
        BY <1>1, InHand, StageFacts DEF Status
    <2>1. e \in Context /\ e.plan = Mine(t).plan /\ e.code = Mine(t).code /\ e.compiled = Mine(t).compiled
          /\ e.report = Mine(t).report /\ e.stage[PV] = Mine(t).stage[PV]
        BY <2>0, SetStageFacts
    <2>2. Wrote(t, e) /\ Ended(t, {})
        BY <1>1, <1>4, <2>1, Writing, Ending
    <2> HIDE DEF e
    <2>3. Result1(t, e, {})
        BY <1>1, <2>1, StageFacts DEF Result1, Stopping
    <2> QED
        BY <1>1, <2>1, <2>2, <2>3 DEF Ends
<1> QED
    BY <1>1, <1>2, <1>3, <1>4 DEF Develop

LEMMA CompileEnds ==
    ASSUME TypeOK, NEW t \in Threads, Compile(t)
    PROVE  Ends(t) /\ call[t].stage = "COMPILER" /\ call[t].at = "store"
<1>1. call[t] # NoCall /\ call[t].stage = "COMPILER" /\ call[t].at = "store"
    BY DEF Compile, At
<1>2. CASE Fails(t, "COMPILER")
    BY <1>1, <1>2, FailEnds
<1>3. CASE /\ Write(t, Compiled(Mine(t), call[t].plan, call[t].annotation))
           /\ Finish(t, {call[t].plan})
    <2> DEFINE e == SetStage(Mine(t), "COMPILER", "SUCCESS")
               k == [plan |-> call[t].plan, annotation |-> call[t].annotation]
               d == [e EXCEPT !.compiled = k, !.code = call[t].plan]
    <2>0. Mine(t) \in Context /\ "COMPILER" \in Stages /\ "COMPILER" # PV /\ "SUCCESS" \in Status
        BY <1>1, InHand, StageFacts DEF Status
    <2>1. e \in Context /\ e.plan = Mine(t).plan /\ e.stage["COMPILER"] = "SUCCESS"
          /\ e.report = Mine(t).report /\ e.stage[PV] = Mine(t).stage[PV]
        BY <2>0, SetStageFacts
    <2> HIDE DEF e
    <2>2. /\ d \in Context /\ d.plan = e.plan /\ d.code = call[t].plan /\ d.compiled.plan = d.code
          /\ d.report = e.report /\ d.stage = e.stage
        BY <2>1, <1>1, InHand DEF Context
    <2>3. Wrote(t, d) /\ Ended(t, {call[t].plan})
        BY <1>1, <1>3, <2>2, InHand, Writing, Ending DEF e, Compiled
    <2> HIDE DEF d
    <2>4. Result1(t, d, {call[t].plan})
        BY <1>1, <2>1, <2>2, StageFacts DEF Result1
    <2> QED
        BY <1>1, <2>2, <2>3, <2>4, InHand DEF Ends
<1> QED
    BY <1>1, <1>2, <1>3 DEF Compile

LEMMA ValidateEnds ==
    ASSUME TypeOK, NEW t \in Threads, Validate(t)
    PROVE  Ends(t) /\ call[t].stage = "VALIDATOR" /\ vetted \subseteq vetted'
           /\ \A v \in vetted' \ vetted : v = Mine(t).compiled.plan
<1> DEFINE v == Mine(t).compiled.plan
           w == IF v \notin Unsafe THEN "SUCCESS" ELSE "FAILURE"
           e == SetStage(Mine(t), "VALIDATOR", w)
<1>1. call[t] # NoCall /\ call[t].stage = "VALIDATOR"
    BY DEF Validate, At
<1>0. Mine(t) \in Context /\ "VALIDATOR" \in Stages /\ "VALIDATOR" # PV /\ w \in Status /\ v \in AnyVersion
    BY <1>1, InHand, StageFacts DEF Status
<1>2. e \in Context /\ e.plan = Mine(t).plan /\ e.code = Mine(t).code /\ e.compiled = Mine(t).compiled
      /\ e.report = Mine(t).report /\ e.stage["VALIDATOR"] = w /\ e.stage[PV] = Mine(t).stage[PV]
    BY <1>0, SetStageFacts
<1>3. /\ Write(t, e) /\ Finish(t, {v})
      /\ vetted' = IF v \notin Unsafe THEN vetted \cup {v} ELSE vetted
    BY DEF Validate
<1>4. Wrote(t, e) /\ Ended(t, {v})
    BY <1>0, <1>1, <1>2, <1>3, Writing, Ending
<1>5. w = "SUCCESS" => v \in vetted'
    BY <1>3
<1>6. w \in {"SUCCESS", "FAILURE"}
    OBVIOUS
<1> HIDE DEF e, w
<1>7. Result1(t, e, {v})
    BY <1>1, <1>2, <1>5, <1>6, StageFacts DEF Result1
<1>8. Ends(t)
    BY <1>0, <1>1, <1>2, <1>4, <1>7 DEF Ends
<1> QED
    BY <1>1, <1>3, <1>8

LEMMA CompareEnds ==
    ASSUME TypeOK, NEW t \in Threads, Compare(t)
    PROVE  Ends(t) /\ call[t].stage = "COMPARATOR"
<1>1. call[t] # NoCall /\ call[t].stage = "COMPARATOR"
    BY DEF Compare, At
<1>2. CASE Fails(t, "COMPARATOR")
    BY <1>1, <1>2, FailEnds
<1>3. ASSUME NEW status \in Comparison \ {"NONE"},
             Write(t, [SetStage(Mine(t), "COMPARATOR", "SUCCESS") EXCEPT !.compared = status]),
             Finish(t, {call[t].art.ver, Mine(t).plan})
      PROVE  Ends(t)
    <2> DEFINE e == SetStage(Mine(t), "COMPARATOR", "SUCCESS")
               d == [e EXCEPT !.compared = status]
               of == {call[t].art.ver, Mine(t).plan}
    <2>0. Mine(t) \in Context /\ "COMPARATOR" \in Stages /\ "COMPARATOR" # PV /\ "SUCCESS" \in Status
          /\ of \in SUBSET AnyVersion
        BY <1>1, InHand, StageFacts DEF Status, AnyVersion, Context
    <2>1. e \in Context /\ e.plan = Mine(t).plan /\ e.code = Mine(t).code /\ e.compiled = Mine(t).compiled
          /\ e.report = Mine(t).report /\ e.stage[PV] = Mine(t).stage[PV]
        BY <2>0, SetStageFacts
    <2> HIDE DEF e
    <2>2. /\ d \in Context /\ d.plan = e.plan /\ d.code = e.code /\ d.compiled = e.compiled
          /\ d.report = e.report /\ d.stage = e.stage
        BY <2>1 DEF Context
    <2>3. Wrote(t, d) /\ Ended(t, of)
        BY <1>1, <1>3, <2>0, <2>2, Writing, Ending DEF e
    <2> HIDE DEF d
    <2>4. Result1(t, d, of)
        BY <1>1, <2>1, <2>2, StageFacts DEF Result1, Stopping
    <2> HIDE DEF of
    <2> QED
        BY <1>1, <2>0, <2>2, <2>3, <2>4 DEF Ends
<1> QED
    BY <1>1, <1>2, <1>3 DEF Compare

\* The physical stage ends at its gate, before it executes, or after.
LEMMA PhysicalEnds ==
    ASSUME TypeOK, NEW t \in Threads, call[t] # NoCall, call[t].stage = PV,
           NEW c \in Context, NEW status \in Status, NEW of \in SUBSET AnyVersion,
           c.plan = Mine(t).plan, c.code = Mine(t).code, c.compiled = Mine(t).compiled,
           status = "SKIPPED" => c.report = "none" \/ (call[t].at = "gate" /\ c.report = Mine(t).report),
           status = "SUCCESS" => call[t].at = "verify" /\ of = call[t].of,
           Write(t, SetStage(c, PV, status)), Finish(t, of)
    PROVE  Ends(t)
<1> DEFINE e == SetStage(c, PV, status)
<1>1. PV \in Stages /\ PV # "MAPPER" /\ PV # "COMPILER" /\ PV # "VALIDATOR" /\ PV # "COMPARATOR"
    BY StageFacts
<1>2. /\ e \in Context /\ e.plan = c.plan /\ e.code = c.code /\ e.compiled = c.compiled
      /\ e.report = c.report /\ e.stage[PV] = status
    BY <1>1, SetStageFacts
<1>3. Wrote(t, e) /\ Ended(t, of)
    BY <1>2, Writing, Ending
<1> HIDE DEF e
<1>4. Result1(t, e, of)
    BY <1>1, <1>2 DEF Result1, Stopping
<1> QED
    BY <1>2, <1>3, <1>4 DEF Ends

LEMMA NotReadyEnds ==
    ASSUME TypeOK, NEW t \in Threads, PhysicalNotReady(t)
    PROVE  Ends(t) /\ call[t].stage = PV
<1>1. call[t] # NoCall /\ call[t].stage = PV /\ call[t].at = "gate" /\ Mine(t) \in Context
    BY InHand, StageFacts DEF PhysicalNotReady, At
<1>2. PICK status \in {"SKIPPED", "SNAPSHOT_NOT_READY", "FAILURE"} :
          Write(t, SetStage(Mine(t), PV, status)) /\ Finish(t, {})
    BY StageFacts DEF PhysicalNotReady
<1>3. status \in Status /\ status # "SUCCESS"
    BY DEF Status
<1> QED
    BY <1>1, <1>2, <1>3, PhysicalEnds

LEMMA StoreEnds ==
    ASSUME TypeOK, NEW t \in Threads, PhysicalStore(t)
    PROVE  Ends(t) /\ call[t].stage = PV
<1> DEFINE R == {"none", "consistent", "inconsistent"}
<1>1. call[t] # NoCall /\ call[t].stage = PV /\ call[t].at = "verify" /\ Mine(t) \in Context
      /\ call[t].of \in SUBSET AnyVersion /\ PV \in Stages /\ Finish(t, call[t].of)
    BY InHand, StageFacts DEF PhysicalStore, At
<1>2. \E status \in {"SUCCESS", "FAILURE"}, r \in R :
          Write(t, SetStage([Mine(t) EXCEPT !.report = r], PV, status))
    <2>1. \A status \in {"SUCCESS", "FAILURE"}, r \in R :
              SetStage([Mine(t) EXCEPT !.report = r], PV, status) = [SetStage(Mine(t), PV, status) EXCEPT !.report = r]
        BY <1>1 DEF SetStage, Context
    <2>2. Mine(t).report \in R /\ [Mine(t) EXCEPT !.report = Mine(t).report] = Mine(t)
        BY <1>1 DEF Context
    <2>3. CASE Write(t, [SetStage(Mine(t), "PHYSICAL_VERIFIER", "SUCCESS") EXCEPT !.report = "consistent"])
        BY <2>1, <2>3, StageFacts
    <2>4. CASE Write(t, [SetStage(Mine(t), "PHYSICAL_VERIFIER", "FAILURE") EXCEPT !.report = "inconsistent"])
        BY <2>1, <2>4, StageFacts
    <2>5. CASE Write(t, SetStage(Mine(t), "PHYSICAL_VERIFIER", "FAILURE"))
        BY <2>2, <2>5, StageFacts
    <2> QED
        BY <2>3, <2>4, <2>5 DEF PhysicalStore
<1>3. PICK status \in {"SUCCESS", "FAILURE"}, r \in R :
          Write(t, SetStage([Mine(t) EXCEPT !.report = r], PV, status))
    BY <1>2
<1> DEFINE c == [Mine(t) EXCEPT !.report = r]
<1>4. c \in Context /\ c.plan = Mine(t).plan /\ c.code = Mine(t).code /\ c.compiled = Mine(t).compiled
    BY <1>1 DEF Context
<1>5. Write(t, SetStage(c, PV, status)) /\ status \in Status /\ status # "SKIPPED"
    BY <1>3 DEF Status
<1> HIDE DEF c
<1> QED
    BY <1>1, <1>4, <1>5, PhysicalEnds

LEMMA GateStep ==
    ASSUME TypeOK, NEW t \in Threads, PhysicalGate(t)
    PROVE  /\ call[t] # NoCall /\ call[t].stage = PV
           /\ \/ Ends(t)
              \/ \E d \in Context, k \in Call :
                    /\ Wrote(t, d) /\ Became(t, k) /\ k.at = "gate"
                    /\ d.plan = Mine(t).plan /\ d.code = Mine(t).code /\ d.compiled = Mine(t).compiled
                    /\ d.report = "none" /\ d.stage = Mine(t).stage
<1> DEFINE c == [Mine(t) EXCEPT !.report = "none"]
<1>1. call[t] # NoCall /\ call[t].stage = PV /\ Mine(t) \in Context
    BY InHand, StageFacts DEF PhysicalGate, At
<1>2. /\ c \in Context /\ c.plan = Mine(t).plan /\ c.code = Mine(t).code /\ c.compiled = Mine(t).compiled
      /\ c.report = "none" /\ c.stage = Mine(t).stage
    BY <1>1 DEF Context
<1>3. \/ GateOpen(c) /\ Write(t, c) /\ call' = [call EXCEPT ![t].at = "gate"]
      \/ Write(t, SetStage(c, PV, "SKIPPED")) /\ Finish(t, {})
    BY StageFacts DEF PhysicalGate
<1>4. CASE Write(t, SetStage(c, PV, "SKIPPED")) /\ Finish(t, {})
    <2>1. "SKIPPED" \in Status /\ {} \in SUBSET AnyVersion
        BY DEF Status
    <2> HIDE DEF c
    <2> QED
        BY <1>1, <1>2, <1>4, <2>1, PhysicalEnds
<1>5. CASE Write(t, c) /\ call' = [call EXCEPT ![t].at = "gate"]
    <2> DEFINE k == [call[t] EXCEPT !.at = "gate"]
    <2>1. k \in Call /\ k.at = "gate" /\ k.stage = call[t].stage /\ k.g = call[t].g /\ k.art = call[t].art
        BY <1>1, InHand DEF Call
    <2>2. Became(t, k)
        BY <1>5, <2>1 DEF Became, TypeOK
    <2>3. Wrote(t, c)
        BY <1>1, <1>2, <1>5, Writing
    <2> HIDE DEF c, k
    <2> QED
        BY <1>1, <1>2, <2>1, <2>2, <2>3
<1> QED
    BY <1>1, <1>3, <1>4, <1>5

LEMMA ReadStep ==
    ASSUME TypeOK, NEW t \in Threads, ReadPlan(t)
    PROVE  /\ call[t] # NoCall /\ call[t].stage \in {"DEVELOPER", "COMPILER"} /\ call[t].at = "work"
           /\ \E k \in Call : Became(t, k) /\ k.at = "store" /\ k.plan = Mine(t).plan
<1>1. call[t] # NoCall /\ call[t].stage \in {"DEVELOPER", "COMPILER"} /\ call[t].at = "work"
    BY DEF ReadPlan, At
<1> DEFINE k == [call[t] EXCEPT !.at = "store", !.plan = Mine(t).plan, !.annotation = Mine(t).annotation]
<1>2. /\ k \in Call /\ k.at = "store" /\ k.stage = call[t].stage /\ k.g = call[t].g
      /\ k.art = call[t].art /\ k.plan = Mine(t).plan
    BY <1>1, InHand DEF Call, Context
<1>3. call' = [call EXCEPT ![t] = k]
    BY DEF ReadPlan, TypeOK
<1>4. Became(t, k)
    <2> HIDE DEF k
    <2> QED BY <1>2, <1>3 DEF Became, TypeOK
<1> QED
    BY <1>1, <1>2, <1>4

LEMMA ExecuteStep ==
    ASSUME TypeOK, NEW t \in Threads, PhysicalExecute(t)
    PROVE  /\ call[t] # NoCall /\ call[t].stage = PV
           /\ \E k \in Call : Became(t, k) /\ k.at = "verify" /\ k.of = {call[t].art.ver, Mine(t).code}
<1>1. call[t] # NoCall /\ call[t].stage = PV
    BY StageFacts DEF PhysicalExecute, At
<1> DEFINE o == {call[t].art.ver, Mine(t).code}
           k == [call[t] EXCEPT !.at = "verify", !.of = o]
<1>2. o \in SUBSET AnyVersion
    BY <1>1, InHand DEF AnyVersion, Context
<1>3. call' = [call EXCEPT ![t] = k]
    BY DEF PhysicalExecute, TypeOK
<1> HIDE DEF o
<1>4. /\ k \in Call /\ k.at = "verify" /\ k.stage = call[t].stage /\ k.g = call[t].g
      /\ k.art = call[t].art /\ k.of = o
    BY <1>1, <1>2, InHand DEF Call
<1>5. Became(t, k)
    <2> HIDE DEF k
    <2> QED BY <1>3, <1>4 DEF Became, TypeOK
<1> QED
    BY <1>1, <1>4, <1>5 DEF o

-----------------------------------------------------------------------------
(* What is recorded of a stage, and types *)

LEMMA RecordFacts ==
    ASSUME NEW r \in FullRun, NEW s \in Stages, NEW status \in {"ok", "failed", "skipped"},
           NEW of \in SUBSET AnyVersion
    PROVE  LET q == Record(r, s, status, of)
               stops == r.next = 6 \/ (s \in Stopping /\ status = "failed")
           IN  /\ q \in FullRun
               /\ q.ver = r.ver /\ q.compared = r.compared /\ q.ready = r.ready /\ q.ok = r.ok
               /\ q.did[s] = [status |-> status, of |-> of]
               /\ \A x \in Stages \ {s} : q.did[x] = r.did[x]
               /\ stops => q.at = "verdict" /\ q.next = r.next
               /\ ~stops => q.at = r.at /\ q.next = r.next + 1
<1> DEFINE p == [r EXCEPT !.did[s] = [status |-> status, of |-> of]]
<1>1. /\ p \in FullRun
      /\ p.ver = r.ver /\ p.compared = r.compared /\ p.ready = r.ready /\ p.ok = r.ok
      /\ p.at = r.at /\ p.next = r.next
      /\ p.did[s] = [status |-> status, of |-> of]
      /\ \A x \in Stages \ {s} : p.did[x] = r.did[x]
    BY DEF FullRun, Done
<1>2. Record(r, s, status, of) = AfterStage(p, s, status)
    BY DEF Record
<1> HIDE DEF p
<1>3. p.next \in 1..6 /\ Len(Order) = 6
    BY <1>1, OrderFacts DEF FullRun
<1>4. CASE p.next = 6 \/ (s \in Stopping /\ status = "failed")
    <2>1. AfterStage(p, s, status) = [p EXCEPT !.at = "verdict"]
        BY <1>3, <1>4 DEF AfterStage
    <2> QED
        BY <1>1, <1>2, <1>4, <2>1 DEF FullRun
<1>5. CASE ~(p.next = 6 \/ (s \in Stopping /\ status = "failed"))
    <2>1. AfterStage(p, s, status) = [p EXCEPT !.next = p.next + 1]
        BY <1>3, <1>5 DEF AfterStage
    <2>2. p.next + 1 \in 1..Len(Order)
        BY <1>3, <1>5
    <2>3. [p EXCEPT !.next = p.next + 1] \in FullRun
        BY <1>1, <2>2 DEF FullRun
    <2> QED
        BY <1>1, <1>2, <1>5, <2>1, <2>3 DEF FullRun
<1> QED
    BY <1>4, <1>5

\* What Return records of the stage in a full run.
LEMMA ReturnRecords ==
    ASSUME TypeOK, NEW t \in Streams, call[t] # NoCall, Return(t)
    PROVE  \E q \in FullRun, status \in {"ok", "failed", "skipped"} :
              /\ run' = [run EXCEPT ![t] = q]
              /\ q.ver = run[t].ver /\ q.ready = run[t].ready /\ q.ok = run[t].ok
              /\ q.did[call[t].stage] = [status |-> status, of |-> call[t].of]
              /\ \A x \in Stages \ {call[t].stage} : q.did[x] = run[t].did[x]
              /\ LET stops == run[t].next = 6 \/ (call[t].stage \in Stopping /\ status = "failed")
                 IN  /\ stops => q.at = "verdict" /\ q.next = run[t].next
                     /\ ~stops => q.at = run[t].at /\ q.next = run[t].next + 1
              /\ status = "ok" => Mine(t).stage[call[t].stage] = "SUCCESS"
              /\ Mine(t).stage[call[t].stage] = "SUCCESS" /\ call[t].stage # PV => status = "ok"
              /\ Mine(t).stage[call[t].stage] = "FAILURE" /\ call[t].stage # PV /\ call[t].stage # "DEVELOPER"
                    => status = "failed"
              /\ q.compared # run[t].compared => call[t].stage = "COMPARATOR" /\ status = "ok"
<1> DEFINE s == call[t].stage
           c == Mine(t)
           status == RecordedStatus(run[t], c, s)
           p == Record(run[t], s, status, call[t].of)
           compared == IF s = "COMPARATOR" /\ StatusOf(c, s) = "ok" THEN c.compared ELSE run[t].compared
           q == [p EXCEPT !.compared = compared]
<1>1. s \in Stages /\ c \in Context /\ call[t].of \in SUBSET AnyVersion /\ run[t] \in FullRun
    BY InHand DEF Threads, TypeOK
<1>2. t \notin Loop
    BY StagesAssumption, StreamThreads
<1>3. status \in {"ok", "failed", "skipped"}
    BY DEF RecordedStatus, StatusOf
<1>4. /\ status = "ok" => c.stage[s] = "SUCCESS"
      /\ c.stage[s] = "SUCCESS" /\ s # PV => status = "ok"
      /\ c.stage[s] = "FAILURE" /\ s # PV /\ s # "DEVELOPER" => status = "failed"
      /\ s = "COMPARATOR" /\ StatusOf(c, s) = "ok" => status = "ok"
    BY StageFacts DEF RecordedStatus, StatusOf
<1>5. run' = [run EXCEPT ![t] = q]
    BY <1>2, Zenon DEF Return
<1> HIDE DEF status, s, c
<1>6. /\ p \in FullRun
      /\ p.ver = run[t].ver /\ p.compared = run[t].compared /\ p.ready = run[t].ready /\ p.ok = run[t].ok
      /\ p.did[s] = [status |-> status, of |-> call[t].of]
      /\ \A x \in Stages \ {s} : p.did[x] = run[t].did[x]
      /\ LET stops == run[t].next = 6 \/ (s \in Stopping /\ status = "failed")
         IN  /\ stops => p.at = "verdict" /\ p.next = run[t].next
             /\ ~stops => p.at = run[t].at /\ p.next = run[t].next + 1
    BY <1>1, <1>3, RecordFacts
<1> HIDE DEF p
<1>7. compared \in Comparison /\ (compared # run[t].compared => s = "COMPARATOR" /\ status = "ok")
    BY <1>1, <1>4, <1>6 DEF Context, FullRun, c
<1> HIDE DEF compared
<1>8. /\ q \in FullRun /\ q.compared = compared /\ q.ver = p.ver /\ q.ready = p.ready /\ q.ok = p.ok
      /\ q.did = p.did /\ q.at = p.at /\ q.next = p.next
    BY <1>6, <1>7 DEF FullRun
<1> HIDE DEF q
<1> QED
    BY <1>1, <1>3, <1>4, <1>5, <1>6, <1>7, <1>8 DEF s, c

LEMMA ReturnStep ==
    ASSUME TypeOK, NEW t \in Threads, Return(t)
    PROVE  /\ call[t] # NoCall /\ call[t].at = "return"
           /\ call' \in [Threads -> Call \cup {NoCall}] /\ call'[t] = NoCall
           /\ \A u \in Threads \ {t} : call'[u] = call[u]
           /\ ctx' \in [Contexts -> Context]
           /\ \A g \in Contexts : ctx'[g] = ctx[g] \/ (g = call[t].g /\ g # current /\ ctx'[g] = NewContext)
           /\ t \notin Streams => run' = run
<1>1. call[t] # NoCall /\ call[t].at = "return" /\ call' = [call EXCEPT ![t] = NoCall]
      /\ ctx' = IF call[t].g \in HeldBy(Threads \ {t}) \cup {current}
                THEN ctx ELSE [ctx EXCEPT ![call[t].g] = NewContext]
    BY DEF Return
<1>2. t \notin Streams => run' = run
    BY DEF Return, Threads
<1> QED
    BY <1>1, <1>2, CallFacts, NewContextType DEF TypeOK

LEMMA ReturnType ==
    ASSUME TypeOK, NEW t \in Threads, Return(t)
    PROVE  TypeOK'
<1>1. ctx' \in [Contexts -> Context] /\ call' \in [Threads -> Call \cup {NoCall}] /\ call[t] # NoCall
    BY ReturnStep
<1>2. run' \in [Streams -> FullRun]
    <2>1. CASE t \in Streams
        <3>1. PICK q \in FullRun : run' = [run EXCEPT ![t] = q]
            BY <1>1, <2>1, ReturnRecords
        <3> QED
            BY <2>1, <3>1 DEF TypeOK
    <2>2. CASE t \notin Streams
        BY <2>2, ReturnStep DEF TypeOK
    <2> QED
        BY <2>1, <2>2
<1>3. UNCHANGED <<runs, result, current, vetted, rogue>>
    BY DEF Return
<1> QED
    BY <1>1, <1>2, <1>3 DEF TypeOK

LEMMA EndsType ==
    ASSUME NEW t \in Threads, Ends(t)
    PROVE  ctx' \in [Contexts -> Context] /\ call' \in [Threads -> Call \cup {NoCall}]
BY DEF Ends, Wrote, Ended, Became

\* Every step of a stage but its return: what it leaves alone.
LEMMA WorkFrame ==
    ASSUME TypeOK, NEW t \in Threads, StageStep(t), ~Return(t)
    PROVE  /\ Frame
           /\ ctx' \in [Contexts -> Context] /\ call' \in [Threads -> Call \cup {NoCall}]
           /\ call[t] # NoCall
           /\ vetted \subseteq vetted'
           /\ \/ vetted' = vetted
              \/ Validate(t) /\ vetted' \subseteq vetted \cup {Mine(t).compiled.plan}
           /\ rogue' \subseteq rogue \cup {t}
           /\ PhysicalExecute(t) \/ rogue' = rogue
<1>1. CASE Map(t)
    BY <1>1, MapEnds, EndsType DEF Map, Frame, TypeOK, Ends
<1>2. CASE ReadPlan(t)
    BY <1>2, ReadStep DEF ReadPlan, Frame, TypeOK, Became
<1>3. CASE Develop(t)
    BY <1>3, DevelopEnds, EndsType DEF Develop, Frame, TypeOK, Ends
<1>4. CASE Compile(t)
    BY <1>4, CompileEnds, EndsType DEF Compile, Frame, TypeOK, Ends
<1>5. CASE Validate(t)
    <2>1. /\ Frame /\ rogue' = rogue
          /\ vetted' \subseteq vetted \cup {Mine(t).compiled.plan}
        BY <1>5 DEF Validate, Frame
    <2> QED
        BY <1>5, <2>1, ValidateEnds, EndsType DEF Ends
<1>6. CASE Compare(t)
    BY <1>6, CompareEnds, EndsType DEF Compare, Frame, TypeOK, Ends
<1>7. CASE PhysicalGate(t)
    BY <1>7, GateStep, EndsType DEF PhysicalGate, Frame, TypeOK, Wrote, Became
<1>8. CASE PhysicalNotReady(t)
    BY <1>8, NotReadyEnds, EndsType DEF PhysicalNotReady, Frame, TypeOK, Ends
<1>9. CASE PhysicalExecute(t)
    BY <1>9, ExecuteStep DEF PhysicalExecute, Frame, TypeOK, Became
<1>10. CASE PhysicalStore(t)
    BY <1>10, StoreEnds, EndsType DEF PhysicalStore, Frame, TypeOK, Ends
<1> QED
    BY <1>1, <1>2, <1>3, <1>4, <1>5, <1>6, <1>7, <1>8, <1>9, <1>10 DEF StageStep

\* A step within a call leaves the context as it is, but for a report that is
\* cleared.
Goes(t) ==
    \E d \in Context, k \in Call :
        /\ Wrote(t, d) /\ Became(t, k)
        /\ d.plan = Mine(t).plan /\ d.code = Mine(t).code /\ d.compiled = Mine(t).compiled
        /\ d.stage = Mine(t).stage /\ d.report \in {Mine(t).report, "none"}
        /\ \/ /\ k.at = "store" /\ k.plan = Mine(t).plan
              /\ call[t].stage \in {"DEVELOPER", "COMPILER"} /\ call[t].at = "work"
           \/ k.at = "gate" /\ call[t].stage = PV /\ d.report = "none"
           \/ /\ k.at = "verify" /\ call[t].stage = PV /\ PhysicalExecute(t)
              /\ k.of = {call[t].art.ver, Mine(t).code}

LEMMA Unwritten ==
    ASSUME TypeOK, NEW t \in Threads, call[t] # NoCall, ctx' = ctx
    PROVE  Wrote(t, Mine(t)) /\ Mine(t) \in Context
BY CallFacts DEF Wrote, Mine, TypeOK

LEMMA WorkSteps ==
    ASSUME TypeOK, NEW t \in Threads, StageStep(t), ~Return(t)
    PROVE  Ends(t) \/ Goes(t)
<1>1. CASE ReadPlan(t)
    <2>1. ctx' = ctx
        BY <1>1 DEF ReadPlan
    <2> QED
        BY <1>1, <2>1, ReadStep, Unwritten DEF Goes
<1>2. CASE PhysicalExecute(t)
    <2>1. ctx' = ctx
        BY <1>2 DEF PhysicalExecute
    <2> QED
        BY <1>2, <2>1, ExecuteStep, Unwritten DEF Goes
<1>3. CASE PhysicalGate(t)
    BY <1>3, GateStep DEF Goes
<1> QED
    BY <1>1, <1>2, <1>3, MapEnds, DevelopEnds, CompileEnds, ValidateEnds, CompareEnds, NotReadyEnds, StoreEnds
    DEF StageStep

\* What a stage was admitted for stays there as long as it runs, whatever the
\* others do.
Present ==
    \A t \in Threads : call[t] # NoCall =>
        /\ call[t].stage \in {"DEVELOPER", "COMPILER"} /\ call[t].at = "work" => Mine(t).plan # NoVersion
        /\ At(t, "COMPILER", "store") => call[t].plan # NoVersion
        /\ call[t].stage = "VALIDATOR" => Mine(t).compiled.plan # NoVersion

\* No step takes away a plan or a compiled code that is there.
Grows(g) == /\ ctx[g].plan # NoVersion => ctx'[g].plan # NoVersion
            /\ ctx[g].compiled.plan # NoVersion => ctx'[g].compiled.plan # NoVersion

LEMMA WorkGrows ==
    ASSUME TypeOK, Present, NEW t \in Threads, StageStep(t), ~Return(t), NEW g \in Contexts
    PROVE  Grows(g)
<1>1. call[t] # NoCall /\ call[t].art.ver # NoVersion
    BY WorkFrame, InHand, StagesAssumption, Kinds
<1>2. CASE Goes(t)
    BY <1>2 DEF Goes, Wrote, Grows, Mine
<1>3. CASE Ends(t)
    <2>1. PICK d \in Context, of \in SUBSET AnyVersion : Wrote(t, d) /\ Result1(t, d, of)
        BY <1>3 DEF Ends
    <2>2. CASE g # call[t].g
        BY <2>1, <2>2 DEF Wrote, Grows
    <2>3. CASE g = call[t].g
        <3>1. ctx'[g] = d /\ ctx[g] = Mine(t)
            BY <2>1, <2>3 DEF Wrote, Mine
        <3>2. d.plan = Mine(t).plan \/ d.plan = call[t].art.ver
            BY <2>1 DEF Result1
        <3>3. d.compiled = Mine(t).compiled \/ (At(t, "COMPILER", "store") /\ d.compiled.plan = call[t].plan)
            BY <2>1, <1>1 DEF Result1, At
        <3> QED
            BY <1>1, <3>1, <3>2, <3>3 DEF Grows, Present
    <2> QED
        BY <2>2, <2>3
<1> QED
    BY <1>2, <1>3, WorkSteps

LEMMA PresentKept ==
    ASSUME TypeOK, Present, NEW t \in Threads,
           \A u \in Threads : u # t /\ call[u] # NoCall => call'[u] = call[u] /\ Grows(call[u].g),
           \A u \in Threads : u # t /\ call[u] = NoCall => call'[u] = call[u],
           call'[t] # NoCall =>
               /\ call'[t].stage \in {"DEVELOPER", "COMPILER"} /\ call'[t].at = "work" => ctx'[call'[t].g].plan # NoVersion
               /\ call'[t].stage = "COMPILER" /\ call'[t].at = "store" => call'[t].plan # NoVersion
               /\ call'[t].stage = "VALIDATOR" => ctx'[call'[t].g].compiled.plan # NoVersion
    PROVE  Present'
BY DEF Present, Grows, Mine, At

-----------------------------------------------------------------------------
(* Types *)

LEMMA InitType == Init => TypeOK /\ Present
<1> SUFFICES ASSUME Init PROVE TypeOK /\ Present
    OBVIOUS
<1>1. NewRun \in FullRun
    BY OrderFacts, Kinds, StagesAssumption DEF NewRun, FullRun, Done, Comparison
<1>2. TypeOK
    BY <1>1, NewContextType, StagesAssumption DEF Init, TypeOK
<1>3. Present
    BY DEF Init, Present
<1> QED
    BY <1>2, <1>3

LEMMA StoreType ==
    ASSUME TypeOK, NEW has \in {"spec", "plan", "all"}, Store(has)
    PROVE  /\ runs' \in 0..MaxRuns /\ runs + 1 \in Version
           /\ result' \in Result /\ result' = [ver |-> runs + 1, has |-> has]
BY StagesAssumption DEF TypeOK, Store, Version, Result

LEMMA ContextTaken ==
    ASSUME TypeOK, NEW g \in Contexts, GetContext(g)
    PROVE  current' \in Contexts /\ current' = g /\ (current # 0 => g = current)
BY DEF GetContext

LEMMA BeginCall ==
    ASSUME TypeOK, NEW t \in Threads, NEW s \in Stages, Begin(t, s)
    PROVE  /\ call[t] = NoCall /\ MayAct(t) /\ result \in Result
           /\ t \in Streams => run[t].at = "spark" /\ s = Order[run[t].next]
           /\ UNCHANGED <<runs, result, ctx, run, vetted, rogue>>
           /\ \E g \in Contexts, k \in Call :
                 /\ GetContext(g) /\ ~Missing(s, ctx[g], result)
                 /\ call' = [call EXCEPT ![t] = k]
                 /\ k.at = "work" /\ k.stage = s /\ k.g = g /\ k.art = result
<1>1. /\ call[t] = NoCall /\ MayAct(t) /\ result # None
      /\ t \in Streams => run[t].at = "spark" /\ s = Order[run[t].next]
      /\ UNCHANGED <<runs, result, ctx, run, vetted, rogue>>
    BY DEF Begin, MayCall
<1>2. result \in Result
    BY <1>1 DEF TypeOK
<1>3. PICK g \in Contexts :
         /\ GetContext(g) /\ ~Missing(s, ctx[g], result)
         /\ call' = [call EXCEPT ![t] =
                       [at |-> "work", stage |-> s, g |-> g, art |-> result, of |-> {},
                        plan |-> NoVersion, annotation |-> NoVersion]]
    BY DEF Begin
<1> DEFINE k == [at |-> "work", stage |-> s, g |-> g, art |-> result, of |-> {},
                 plan |-> NoVersion, annotation |-> NoVersion]
<1>4. k \in Call
    BY <1>2, Kinds, StagesAssumption DEF Call
<1> QED
    BY <1>1, <1>2, <1>3, <1>4

LEMMA BeginType ==
    ASSUME TypeOK, Present, NEW t \in Threads, NEW s \in Stages, Begin(t, s)
    PROVE  TypeOK' /\ Present'
<1>1. PICK g \in Contexts, k \in Call :
         /\ GetContext(g) /\ ~Missing(s, ctx[g], result)
         /\ call' = [call EXCEPT ![t] = k]
         /\ k.at = "work" /\ k.stage = s /\ k.g = g /\ k.art = result
    BY BeginCall
<1>2. UNCHANGED <<runs, result, ctx, run, vetted, rogue>>
    BY BeginCall
<1>3. TypeOK'
    BY <1>1, <1>2, ContextTaken DEF TypeOK
<1>4. /\ s \in {"DEVELOPER", "COMPILER"} => ctx[g].plan # NoVersion
      /\ s = "VALIDATOR" => ctx[g].compiled.plan # NoVersion
    BY <1>1 DEF Missing
<1>5. call'[t] = k /\ \A u \in Threads \ {t} : call'[u] = call[u]
    BY <1>1 DEF TypeOK
<1>6. Present'
    BY <1>1, <1>2, <1>4, <1>5 DEF Present, Mine, At
<1> QED
    BY <1>3, <1>6

LEMMA RefuseType ==
    ASSUME TypeOK, Present, NEW t \in Threads, NEW s \in Stages, Refuse(t, s)
    PROVE  TypeOK' /\ Present'
<1>1. UNCHANGED <<runs, result, ctx, call, vetted, rogue>>
    BY DEF Refuse
<1>2. current' \in Contexts \cup {0}
    BY ContextTaken DEF Refuse, TypeOK
<1>3. run' \in [Streams -> FullRun]
    <2>1. CASE t \in Loop
        BY <2>1 DEF Refuse, TypeOK
    <2>2. CASE t \notin Loop
        <3>1. t \in Streams /\ run[t] \in FullRun /\ {} \in SUBSET AnyVersion
            BY <2>2 DEF Threads, TypeOK
        <3>2. Record(run[t], s, "failed", {}) \in FullRun
            BY <3>1, RecordFacts
        <3>3. run' = [run EXCEPT ![t] = Record(run[t], s, "failed", {})]
            BY <2>2 DEF Refuse
        <3> QED
            BY <3>1, <3>2, <3>3 DEF TypeOK
    <2> QED
        BY <2>1, <2>2
<1>4. TypeOK'
    BY <1>1, <1>2, <1>3 DEF TypeOK
<1>5. Present'
    BY <1>1 DEF Present, Mine, At
<1> QED
    BY <1>4, <1>5

LEMMA VerdictType ==
    ASSUME TypeOK, Present, NEW t \in Threads, Verdict(t)
    PROVE  TypeOK' /\ Present'
<1>1. t \in Streams /\ UNCHANGED <<runs, result, ctx, call, vetted, rogue>>
    BY DEF Verdict
<1>2. PICK g \in Contexts :
        /\ GetContext(g)
        /\ run' = [run EXCEPT ![t].at = "done",
                      ![t].ready = Ready(run[t], ctx[g]),
                      ![t].ok = /\ run[t].did["PHYSICAL_VERIFIER"].status = "ok"
                                /\ run[t].compared = "LOGIC_EQUIVALENT"]
    BY DEF Verdict
<1> DEFINE b == Ready(run[t], ctx[g])
           e == run[t].did["PHYSICAL_VERIFIER"].status = "ok" /\ run[t].compared = "LOGIC_EQUIVALENT"
           q == [run[t] EXCEPT !.at = "done", !.ready = b, !.ok = e]
<1>3. b \in BOOLEAN /\ e \in BOOLEAN
    BY DEF Ready, CriticalOk
<1>4. run' = [run EXCEPT ![t] = q]
    BY <1>1, <1>2 DEF TypeOK
<1> HIDE DEF b, e
<1>5. q \in FullRun
    BY <1>1, <1>3 DEF TypeOK, FullRun
<1> HIDE DEF q
<1>6. run' \in [Streams -> FullRun] /\ current' \in Contexts
    BY <1>1, <1>2, <1>4, <1>5, ContextTaken DEF TypeOK
<1>7. TypeOK'
    BY <1>1, <1>6 DEF TypeOK
<1>8. Present'
    BY <1>1 DEF Present, Mine, At
<1> QED
    BY <1>7, <1>8

LEMMA ReturnPresent ==
    ASSUME TypeOK, Present, NEW t \in Threads, Return(t)
    PROVE  Present'
<1>1. ctx' = IF call[t].g \in HeldBy(Threads \ {t}) \cup {current}
             THEN ctx ELSE [ctx EXCEPT ![call[t].g] = NewContext]
    BY DEF Return
<1>2. call'[t] = NoCall /\ \A u \in Threads \ {t} : call'[u] = call[u]
    BY ReturnStep
<1>3. \A u \in Threads \ {t} : call[u] # NoCall =>
          ctx'[call[u].g] = ctx[call[u].g]
    <2> SUFFICES ASSUME NEW u \in Threads \ {t}, call[u] # NoCall
                 PROVE  ctx'[call[u].g] = ctx[call[u].g]
        OBVIOUS
    <2>1. call[u].g \in HeldBy(Threads \ {t}) /\ call[u].g \in Contexts
        BY CallFacts DEF HeldBy
    <2>2. CASE call[t].g \in HeldBy(Threads \ {t}) \cup {current}
        BY <1>1, <2>2
    <2>3. CASE call[t].g \notin HeldBy(Threads \ {t}) \cup {current}
        BY <1>1, <2>1, <2>3 DEF TypeOK
    <2> QED
        BY <2>2, <2>3
<1> QED
    BY <1>2, <1>3 DEF Present, Mine, At

LEMMA WorkPresent ==
    ASSUME TypeOK, Present, NEW t \in Threads, StageStep(t), ~Return(t)
    PROVE  TypeOK' /\ Present'
<1>1. /\ Frame /\ call[t] # NoCall
      /\ ctx' \in [Contexts -> Context] /\ call' \in [Threads -> Call \cup {NoCall}]
      /\ rogue' \subseteq rogue \cup {t}
      /\ vetted' = vetted \/ (Validate(t) /\ vetted' \subseteq vetted \cup {Mine(t).compiled.plan})
    BY WorkFrame
<1>2. vetted' \subseteq Version
    <2>1. CASE vetted' = vetted
        BY <2>1 DEF TypeOK
    <2>2. CASE Validate(t) /\ vetted' \subseteq vetted \cup {Mine(t).compiled.plan}
        <3>1. Mine(t).compiled.plan # NoVersion /\ Mine(t).compiled.plan \in AnyVersion
            BY <1>1, <2>2, ValidateEnds, InHand DEF Present
        <3> QED
            BY <2>2, <3>1 DEF TypeOK, AnyVersion
    <2> QED
        BY <1>1, <2>1, <2>2
<1>3. TypeOK'
    BY <1>1, <1>2 DEF TypeOK, Frame
<1>4. \A g \in Contexts : Grows(g)
    BY WorkGrows
<1>5. \A u \in Threads : call[u] # NoCall => call[u].g \in Contexts
    BY CallFacts
<1>6. PICK k \in Call : /\ Became(t, k)
                         /\ \/ k.at = "return"
                            \/ k.at = "store" /\ k.plan = Mine(t).plan /\ call[t].at = "work"
                               /\ call[t].stage \in {"DEVELOPER", "COMPILER"}
                            \/ k.at \in {"gate", "verify"} /\ k.stage = PV
    BY WorkSteps DEF Ends, Ended, Goes, Became
<1>7. k.stage = call[t].stage /\ k.g = call[t].g /\ call'[t] = k
      /\ \A u \in Threads \ {t} : call'[u] = call[u]
    BY <1>6 DEF Became
<1>8. /\ k.stage \in {"DEVELOPER", "COMPILER"} /\ k.at = "work" => ctx'[k.g].plan # NoVersion
      /\ k.stage = "COMPILER" /\ k.at = "store" => k.plan # NoVersion
      /\ k.stage = "VALIDATOR" => ctx'[k.g].compiled.plan # NoVersion
    <2>1. k.at # "work" \/ k.stage = PV
        BY <1>6
    <2>2. k.stage = "COMPILER" /\ k.at = "store" => k.plan # NoVersion
        BY <1>1, <1>6, StageFacts DEF Present
    <2>3. k.stage = "VALIDATOR" => ctx'[k.g].compiled.plan # NoVersion
        BY <1>1, <1>4, <1>5, <1>7 DEF Present, Grows, Mine
    <2> QED
        BY <2>1, <2>2, <2>3, StageFacts
<1>9. Present'
    BY <1>4, <1>5, <1>7, <1>8, PresentKept
<1> QED
    BY <1>3, <1>9

LEMMA NextType == TypeOK /\ Present /\ [Next]_vars => TypeOK' /\ Present'
<1> SUFFICES ASSUME TypeOK, Present, [Next]_vars PROVE TypeOK' /\ Present'
    OBVIOUS
<1>1. CASE Expire
    <2>1. ctx' = [g \in Contexts |-> IF g \in Held THEN ctx[g] ELSE NewContext]
          /\ UNCHANGED <<runs, call, run, vetted, rogue>> /\ current' = 0 /\ result' = None
        BY <1>1 DEF Expire
    <2>2. TypeOK'
        BY <2>1, NewContextType DEF TypeOK
    <2>3. \A u \in Threads : call[u] # NoCall => ctx'[call[u].g] = ctx[call[u].g]
        BY <2>1, CallFacts DEF Held, HeldBy
    <2> QED
        BY <2>1, <2>2, <2>3 DEF Present, Mine, At
<1>2. ASSUME NEW t \in Threads, HttpRun(t) PROVE TypeOK' /\ Present'
    <2>1. UNCHANGED <<current, ctx, call, run, vetted, rogue>> /\ runs' \in 0..MaxRuns /\ result' \in Result
        BY <1>2, StoreType DEF HttpRun
    <2> QED
        BY <2>1 DEF TypeOK, Present, Mine, At
<1>3. ASSUME NEW t \in Threads, RunSql(t) PROVE TypeOK' /\ Present'
    <2>1. /\ UNCHANGED <<current, ctx, call, vetted, rogue>> /\ t \in Streams
          /\ runs' \in 0..MaxRuns /\ result' \in Result /\ runs + 1 \in Version
        BY <1>3, StoreType DEF RunSql
    <2>2. PICK at \in {"spark", "verdict"} : run' = [run EXCEPT ![t] = [run[t] EXCEPT !.at = at, !.ver = runs + 1]]
        BY <1>3 DEF RunSql, TypeOK
    <2>4. [run[t] EXCEPT !.at = at, !.ver = runs + 1] \in FullRun
        BY <2>1, Kinds, StagesAssumption DEF TypeOK, FullRun
    <2>3. run' \in [Streams -> FullRun]
        BY <2>1, <2>2, <2>4 DEF TypeOK
    <2> QED
        BY <2>1, <2>3 DEF TypeOK, Present, Mine, At
<1>4. ASSUME NEW t \in Threads, StageStep(t) PROVE TypeOK' /\ Present'
    BY <1>4, WorkPresent, ReturnType, ReturnPresent
<1>5. ASSUME NEW t \in Threads, Verdict(t) PROVE TypeOK' /\ Present'
    BY <1>5, VerdictType
<1>6. ASSUME NEW t \in Threads, NEW s \in Stages, Begin(t, s) \/ Refuse(t, s) PROVE TypeOK' /\ Present'
    BY <1>6, BeginType, RefuseType
<1>7. CASE UNCHANGED vars
    BY <1>7 DEF vars, TypeOK, Present, Mine, At
<1> QED
    BY <1>1, <1>2, <1>3, <1>4, <1>5, <1>6, <1>7 DEF Next

\* Type correctness, for any clients that interleave.
THEOREM TypeCorrect == Spec => []TypeOK
<1>1. Spec => [](TypeOK /\ Present)
    BY InitType, NextType, PTL DEF Spec
<1> QED
    BY <1>1, PTL

-----------------------------------------------------------------------------
(* One client at a time *)

LEMMA StageNumbers ==
    ASSUME NEW n \in 1..6
    PROVE  /\ Order[n] = "MAPPER" <=> n = 1
           /\ Order[n] = "DEVELOPER" <=> n = 2
           /\ Order[n] = "COMPILER" <=> n = 3
           /\ Order[n] = "VALIDATOR" <=> n = 4
           /\ Order[n] = "COMPARATOR" <=> n = 5
           /\ Order[n] = PV <=> n = 6
           /\ Order[n] \in Stopping <=> n \in {1, 3, 4}
<1>1. n \in {1, 2, 3, 4, 5, 6}
    OBVIOUS
<1> QED
    BY <1>1, OrderFacts DEF PV, Stopping

\* While t is busy, or may act, nobody else is busy.
LEMMA Others ==
    ASSUME IInv, NEW t \in Threads, Busy(t) \/ (Exclusive /\ MayAct(t))
    PROVE  \A u \in Threads \ {t} : /\ call[u] = NoCall
                                    /\ u \in Streams => run[u].at \in {"start", "done"}
<1> SUFFICES ASSUME NEW u \in Threads \ {t}
             PROVE  /\ call[u] = NoCall
                    /\ u \in Streams => run[u].at \in {"start", "done"}
    OBVIOUS
<1>1. ~Busy(u)
    BY DEF IInv, Alone, MayAct
<1>2. u \in Streams => run[u].at \in {"start", "spark", "verdict", "done"}
    BY DEF IInv, TypeOK, FullRun
<1> QED
    BY <1>1, <1>2 DEF Busy

\* A run that has not begun or is over is not disturbed.
LEMMA Resting ==
    ASSUME NEW u \in Streams, RunOK(u), VerdictOK(u), run[u].at \in {"start", "done"}, run'[u] = run[u]
    PROVE  RunOK(u)' /\ VerdictOK(u)'
BY DEF RunOK, VerdictOK, Passed

\* So a step of t preserves what is said of runs and calls if it preserves
\* what is said of its own.
LEMMA OwnStep ==
    ASSUME IInv, NEW t \in Threads, Busy(t) \/ (Exclusive /\ MayAct(t)),
           \A u \in Threads \ {t} : call'[u] = call[u],
           \A u \in Streams \ {t} : run'[u] = run[u],
           TypeOK', ContextOK', RunsExecuteVetted',
           t \in Streams => RunOK(t)' /\ VerdictOK(t)',
           call'[t] # NoCall =>
               /\ call'[t].g = current' \/ (current' = 0 /\ result' = None)
               /\ At(t, PV, "gate")' => Mine(t)'.report = "none"
               /\ t \in Streams => /\ run'[t].at = "spark"
                                   /\ call'[t].stage = Order[run'[t].next]
                                   /\ call'[t].art.ver = run'[t].ver
    PROVE  IInv'
<1>1. \A u \in Threads \ {t} : call[u] = NoCall /\ (u \in Streams => run[u].at \in {"start", "done"})
    BY Others
<1>2. \A u \in Streams \ {t} : RunOK(u)' /\ VerdictOK(u)'
    BY <1>1, Resting, StreamThreads DEF IInv, RunsOK
<1>3. RunsOK'
    BY <1>2 DEF RunsOK
<1>4. CallOK'
    BY <1>1 DEF CallOK
<1>5. \A u \in Threads \ {t} : ~Busy(u)'
    BY <1>1 DEF Busy
<1>6. Alone'
    BY <1>5 DEF Alone
<1> QED
    BY <1>3, <1>4, <1>6 DEF IInv

LEMMA IInvParts == IInv => TypeOK /\ Alone /\ ContextOK /\ CallOK /\ RunsOK /\ RunsExecuteVetted
BY DEF IInv

LEMMA FreshContext == /\ NewContext.code = NewContext.compiled.plan
                      /\ NewContext.stage[PV] = "NOT_EXECUTED"
BY StageFacts DEF NewContext

\* The caches expire: what a call in progress works on is kept.
LEMMA ExpireStep ==
    ASSUME IInv, Present, Expire
    PROVE  IInv'
<1>1. /\ result' = None /\ current' = 0 /\ UNCHANGED <<runs, call, run, vetted, rogue>>
      /\ ctx' = [g \in Contexts |-> IF g \in Held THEN ctx[g] ELSE NewContext]
    BY DEF Expire
<1>2. TypeOK'
    BY NextType DEF IInv, Next
<1>3. \A t \in Threads : call[t] # NoCall => call[t].g \in Contexts /\ ctx'[call[t].g] = ctx[call[t].g]
    BY <1>1, CallFacts DEF IInv, Held, HeldBy
<1>4. ContextOK'
    BY <1>1, FreshContext DEF IInv, ContextOK
<1>5. CallOK'
    BY <1>1, <1>3 DEF IInv, CallOK, At, Mine
<1>6. Alone' /\ RunsExecuteVetted'
    BY <1>1 DEF IInv, Alone, Busy, RunsExecuteVetted
<1>7. ASSUME NEW t \in Streams PROVE RunOK(t)' /\ VerdictOK(t)'
    <2>1. RunOK(t) /\ VerdictOK(t) /\ t \in Threads
        BY StreamThreads DEF IInv, RunsOK
    <2>2. ASSUME NEW g \in Contexts, Live(t, g)' PROVE Live(t, g) /\ ctx'[g] = ctx[g]
        BY <1>1, <1>3, <2>1, <2>2 DEF Live
    <2>3. Reached(t) => Reached(t)'
        BY <1>1, <2>2 DEF Reached, Passed
    <2>4. Working(t) => Working(t)'
        <3>1. call[t] # NoCall => Mine(t)' = Mine(t)
            BY <1>1, <1>3, <2>1 DEF Mine
        <3>2. call[t] # NoCall /\ Outcome(t) => Outcome(t)'
            BY <1>1, <3>1 DEF Outcome
        <3> QED
            BY <1>1, <3>2 DEF Working, At
    <2>5. Concluded(t) => Concluded(t)'
        BY <1>1 DEF Concluded, Passed
    <2>6. VerdictOK(t)'
        BY <1>1, <2>1 DEF VerdictOK, Passed
    <2> QED
        BY <1>1, <2>1, <2>3, <2>4, <2>5, <2>6 DEF RunOK
<1> QED
    BY <1>2, <1>4, <1>5, <1>6, <1>7 DEF IInv, RunsOK

LEMMA HttpStep ==
    ASSUME IInv, Present, Exclusive, NEW t \in Threads, HttpRun(t)
    PROVE  IInv'
<1>1. /\ t \in Loop /\ call[t] = NoCall /\ MayAct(t)
      /\ UNCHANGED <<current, ctx, call, run, vetted, rogue>>
    BY DEF HttpRun, Busy
<1>2. TypeOK'
    BY NextType DEF IInv, Next
<1>3. ContextOK' /\ RunsExecuteVetted'
    BY <1>1 DEF IInv, ContextOK, RunsExecuteVetted
<1>4. t \notin Streams
    BY <1>1, StreamThreads, StagesAssumption
<1> QED
    BY <1>1, <1>2, <1>3, <1>4, OwnStep

LEMMA RunSqlStep ==
    ASSUME IInv, Present, Exclusive, NEW t \in Threads, RunSql(t)
    PROVE  IInv'
<1>1. /\ t \in Streams /\ run[t].at = "start" /\ MayAct(t)
      /\ UNCHANGED <<current, ctx, call, vetted, rogue>>
    BY DEF RunSql
<1>2. run[t] = NewRun /\ call[t] = NoCall /\ run[t] \in FullRun
    BY <1>1 DEF IInv, RunsOK, RunOK, CallOK, TypeOK
<1>3. PICK at \in {"spark", "verdict"} : run' = [run EXCEPT ![t] = [run[t] EXCEPT !.at = at, !.ver = runs + 1]]
    BY DEF RunSql, IInv, TypeOK
<1>4. result'.ver = runs + 1
    BY DEF RunSql, Store
<1>5. TypeOK'
    BY NextType DEF IInv, Next
<1>6. ContextOK' /\ RunsExecuteVetted'
    BY <1>1 DEF IInv, ContextOK, RunsExecuteVetted
<1>7. /\ run'[t].at = at /\ run'[t].ver = runs + 1 /\ run'[t].next = 1
      /\ run'[t].compared = "NONE" /\ run'[t].did[PV].status = "none"
      /\ ~run'[t].ready /\ ~run'[t].ok
      /\ \A u \in Streams \ {t} : run'[u] = run[u]
    BY <1>1, <1>2, <1>3, StageFacts DEF NewRun, IInv, TypeOK
<1>8. Reached(t)' /\ Working(t)' /\ Concluded(t)'
    BY <1>1, <1>2, <1>7 DEF Reached, Working, Concluded
<1>9. RunOK(t)' /\ VerdictOK(t)'
    BY <1>4, <1>7, <1>8 DEF RunOK, VerdictOK
<1> QED
    BY <1>1, <1>2, <1>5, <1>6, <1>7, <1>9, OwnStep

LEMMA BeginStep ==
    ASSUME IInv, Present, Exclusive, NEW t \in Threads, NEW s \in Stages, Begin(t, s)
    PROVE  IInv'
<1>1. /\ call[t] = NoCall /\ MayAct(t) /\ result \in Result
      /\ t \in Streams => run[t].at = "spark" /\ s = Order[run[t].next]
      /\ UNCHANGED <<runs, result, ctx, run, vetted, rogue>>
    BY BeginCall DEF IInv
<1>2. PICK g \in Contexts, k \in Call :
         /\ GetContext(g)
         /\ call' = [call EXCEPT ![t] = k]
         /\ k.at = "work" /\ k.stage = s /\ k.g = g /\ k.art = result
    BY BeginCall DEF IInv
<1>3. /\ call'[t] = k /\ \A u \in Threads \ {t} : call'[u] = call[u]
      /\ current' = g /\ (current # 0 => g = current) /\ result # None
    <2>1. result # None
        BY DEF Begin
    <2> QED
        BY <1>2, <2>1, ContextTaken DEF IInv, TypeOK
<1>4. TypeOK'
    BY NextType DEF IInv, Next
<1>5. ContextOK' /\ RunsExecuteVetted'
    BY <1>1 DEF IInv, ContextOK, RunsExecuteVetted
<1>6. ASSUME t \in Streams PROVE RunOK(t)' /\ VerdictOK(t)'
    <2>1. RunOK(t) /\ VerdictOK(t) /\ Reached(t) /\ result.ver = run[t].ver
        BY <1>1, <1>3, <1>6 DEF IInv, RunsOK, RunOK
    <2>2. g # 0 /\ k # NoCall
        BY Kinds, StagesAssumption, CallFacts
    <2>3. Reached(t)'
        <3>1. run[t].next > 3 => run[t].next > 1
            BY <1>6 DEF IInv, TypeOK, FullRun
        <3>2. \A x \in Contexts : Live(t, x)' => x = g
            BY <1>2, <1>3, <2>2 DEF Live
        <3>3. run[t].next > 1 => Live(t, g)
            BY <1>1, <1>3, <2>1 DEF Reached, Live
        <3> QED
            BY <1>1, <1>3, <2>1, <2>2, <3>1, <3>2, <3>3 DEF Reached, Passed
    <2>4. Working(t)'
        BY <1>2, <1>3 DEF Working, At
    <2>5. run' = run /\ result' = result /\ run[t].at = "spark"
        BY <1>1, <1>6
    <2>6. RunOK(t)'
        BY <2>1, <2>3, <2>4, <2>5 DEF RunOK
    <2>7. VerdictOK(t)'
        BY <2>1, <2>5 DEF VerdictOK, Passed
    <2> QED
        BY <2>6, <2>7
<1>7. call'[t] # NoCall =>
        /\ call'[t].g = current'
        /\ ~At(t, PV, "gate")'
        /\ t \in Streams => /\ run'[t].at = "spark" /\ call'[t].stage = Order[run'[t].next]
                            /\ call'[t].art.ver = run'[t].ver
    BY <1>1, <1>2, <1>3 DEF IInv, RunsOK, RunOK, At
<1> QED
    BY <1>1, <1>3, <1>4, <1>5, <1>6, <1>7, OwnStep

\* The run of t becomes q, which records the status of stage s, of versions "of".
Records(t, s, status, of, q) ==
    /\ run[t].at = "spark" /\ s = Order[run[t].next]
    /\ run'[t] = q /\ q.ver = run[t].ver /\ q.ready = run[t].ready /\ q.ok = run[t].ok
    /\ q.did[s] = [status |-> status, of |-> of]
    /\ \A x \in Stages \ {s} : q.did[x] = run[t].did[x]
    /\ LET stops == run[t].next = 6 \/ (s \in Stopping /\ status = "failed")
       IN  /\ stops => q.at = "verdict" /\ q.next = run[t].next
           /\ ~stops => q.at = "spark" /\ q.next = run[t].next + 1
    /\ q.compared # run[t].compared => s = "COMPARATOR" /\ status = "ok"
    /\ s \in Stopping => status # "skipped"
    /\ status = "ok" /\ s # "DEVELOPER" => of = {run[t].ver}
    /\ status = "ok" /\ s = "VALIDATOR" => run[t].ver \in vetted
    /\ vetted' = vetted /\ result' = result /\ call'[t] = NoCall
    /\ q.at = "spark" /\ result # None =>
          /\ current' \in Contexts /\ ctx'[current'].plan = run[t].ver
          /\ run[t].next \in 3..6 => ctx'[current'].code = run[t].ver

\* A full run records a stage: it is one stage further, or at its verdict.
LEMMA Recorded ==
    ASSUME IInv, NEW t \in Streams, NEW s \in Stages, NEW status \in {"ok", "failed", "skipped"},
           NEW of, NEW q \in FullRun, Records(t, s, status, of, q)
    PROVE  RunOK(t)' /\ VerdictOK(t)'
<1> USE DEF Records
<1>1. RunOK(t) /\ VerdictOK(t) /\ Reached(t) /\ ~run[t].ready /\ ~run[t].ok
    BY DEF IInv, RunsOK, RunOK
<1>2. /\ run[t].next \in 1..6 /\ q.at \in {"spark", "verdict"}
      /\ s = "MAPPER" <=> run[t].next = 1
      /\ s = "COMPILER" <=> run[t].next = 3
      /\ s = "VALIDATOR" <=> run[t].next = 4
      /\ s = "COMPARATOR" <=> run[t].next = 5
      /\ s = PV <=> run[t].next = 6
      /\ s \in Stopping <=> run[t].next \in {1, 3, 4}
    <2>1. run[t].next \in 1..6
        BY OrderFacts DEF IInv, TypeOK, FullRun
    <2> QED
        BY <2>1, StageNumbers
<1>3. /\ \A x \in Stages : Passed(t, x)' <=> q.did[x] = [status |-> "ok", of |-> {run[t].ver}]
      /\ \A x \in Stages \ {s} : Passed(t, x) => Passed(t, x)'
      /\ status = "ok" /\ s # "DEVELOPER" => Passed(t, s)'
    BY DEF Passed
<1>4. /\ "MAPPER" \in Stages /\ "COMPILER" \in Stages /\ "VALIDATOR" \in Stages
      /\ "COMPARATOR" \in Stages /\ PV \in Stages
    BY StageFacts
<1>5. CASE run[t].next = 6 \/ (s \in Stopping /\ status = "failed")
    <2>1. q.at = "verdict"
        BY <1>5
    <2>2. q.compared = run[t].compared
        BY <1>2, <1>5
    <2>3. q.compared = "LOGIC_EQUIVALENT" => \A x \in Critical : Passed(t, x)'
        <3> SUFFICES ASSUME q.compared = "LOGIC_EQUIVALENT" PROVE \A x \in Critical : Passed(t, x)'
            OBVIOUS
        <3>1. run[t].next = 6 /\ Passed(t, "COMPARATOR")
            BY <1>1, <1>2, <2>2 DEF Reached
        <3>2. Passed(t, "MAPPER") /\ Passed(t, "COMPILER") /\ Passed(t, "VALIDATOR")
            BY <1>1, <3>1 DEF Reached
        <3> QED
            BY <1>2, <1>3, <1>4, <3>1, <3>2 DEF Critical
    <2>4. q.did[PV].status = "ok" => Passed(t, "VALIDATOR")' /\ Passed(t, PV)'
        <3> SUFFICES ASSUME q.did[PV].status = "ok" PROVE Passed(t, "VALIDATOR")' /\ Passed(t, PV)'
            OBVIOUS
        <3>1. s = PV
            BY <1>1, <1>4 DEF Reached
        <3>2. status = "ok"
            BY <3>1
        <3>3. Passed(t, "VALIDATOR") /\ s # "VALIDATOR" /\ s # "DEVELOPER"
            BY <1>1, <1>2, <3>1, StageFacts DEF Reached
        <3> QED
            BY <1>3, <1>4, <3>1, <3>2, <3>3
    <2>5. Concluded(t)'
        BY <2>3, <2>4 DEF Concluded
    <2>6. RunOK(t)'
        BY <1>1, <2>1, <2>5 DEF RunOK
    <2> QED
        BY <1>1, <2>6 DEF VerdictOK
<1>6. CASE ~(run[t].next = 6 \/ (s \in Stopping /\ status = "failed"))
    <2>1. q.at = "spark" /\ q.next = run[t].next + 1 /\ run[t].next \in 1..5
        BY <1>2, <1>6
    <2>2. s \in Stopping => status = "ok"
        BY <1>6
    <2>3. Passed(t, "MAPPER")'
        BY <1>1, <1>2, <1>3, <1>4, <2>1, <2>2, StageFacts DEF Reached
    <2>4. q.next > 3 => Passed(t, "COMPILER")'
        BY <1>1, <1>2, <1>3, <1>4, <2>1, <2>2, StageFacts DEF Reached
    <2>5. q.next > 4 => Passed(t, "VALIDATOR")' /\ run[t].ver \in vetted
        BY <1>1, <1>2, <1>3, <1>4, <2>1, <2>2, StageFacts DEF Reached
    <2>6. q.compared # "NONE" => q.next > 5 /\ Passed(t, "COMPARATOR")'
        <3>1. CASE q.compared # run[t].compared
            BY <1>2, <1>3, <2>1, <3>1
        <3>2. CASE q.compared = run[t].compared
            BY <1>1, <1>2, <2>1, <3>2 DEF Reached
        <3> QED
            BY <3>1, <3>2
    <2>7. q.did[PV].status = "none"
        BY <1>1, <1>2, <1>4, <2>1 DEF Reached
    <2>8. /\ result' # None => current' # 0
          /\ \A g \in Contexts : Live(t, g)' => ctx'[g].plan = run[t].ver
          /\ q.next > 3 => \A g \in Contexts : Live(t, g)' => ctx'[g].code = run[t].ver
        BY <2>1, Kinds, StagesAssumption DEF Live
    <2>9. Reached(t)'
        BY <2>3, <2>4, <2>5, <2>6, <2>7, <2>8 DEF Reached
    <2>10. Working(t)'
        BY DEF Working
    <2>11. RunOK(t)'
        BY <1>1, <2>1, <2>9, <2>10 DEF RunOK
    <2> QED
        BY <1>1, <2>11 DEF VerdictOK
<1> QED
    BY <1>5, <1>6

LEMMA RefuseStep ==
    ASSUME IInv, Present, Exclusive, NEW t \in Threads, NEW s \in Stages, Refuse(t, s)
    PROVE  IInv'
<1>1. /\ call[t] = NoCall /\ MayAct(t)
      /\ t \in Streams => run[t].at = "spark" /\ s = Order[run[t].next]
      /\ UNCHANGED <<runs, result, ctx, call, vetted, rogue>>
    BY DEF Refuse, MayCall
<1>2. TypeOK'
    BY NextType DEF IInv, Next
<1>3. ContextOK' /\ RunsExecuteVetted'
    BY <1>1 DEF IInv, ContextOK, RunsExecuteVetted
<1>4. result # None => current' \in Contexts /\ (current # 0 => current' = current)
    BY ContextTaken DEF Refuse, IInv
<1>5. CASE t \notin Streams
    <2>1. run' = run
        BY <1>5 DEF Refuse, Threads
    <2> QED
        BY <1>1, <1>2, <1>3, <1>5, <2>1, OwnStep
<1>6. CASE t \in Streams
    <2> DEFINE q == Record(run[t], s, "failed", {})
    <2>1. run[t] \in FullRun /\ {} \in SUBSET AnyVersion /\ t \notin Loop
        BY <1>6, StreamThreads, StagesAssumption DEF IInv, TypeOK
    <2>2. run' = [run EXCEPT ![t] = q]
        BY <2>1 DEF Refuse
    <2>3. /\ q \in FullRun
          /\ q.ver = run[t].ver /\ q.compared = run[t].compared /\ q.ready = run[t].ready /\ q.ok = run[t].ok
          /\ q.did[s] = [status |-> "failed", of |-> {}]
          /\ \A x \in Stages \ {s} : q.did[x] = run[t].did[x]
          /\ LET stops == run[t].next = 6 \/ s \in Stopping
             IN  /\ stops => q.at = "verdict" /\ q.next = run[t].next
                 /\ ~stops => q.at = "spark" /\ q.next = run[t].next + 1
        <3> DEFINE r == run[t]
                   f == "failed"
                   of == {}
        <3>1. r \in FullRun /\ f \in {"ok", "failed", "skipped"} /\ of \in SUBSET AnyVersion /\ r.at = "spark"
            BY <1>1, <1>6, <2>1
        <3>2. f = "failed"
            OBVIOUS
        <3>3. q = Record(r, s, f, of)
            OBVIOUS
        <3> HIDE DEF r, f, of, q
        <3>4. /\ q \in FullRun
              /\ q.ver = r.ver /\ q.compared = r.compared /\ q.ready = r.ready /\ q.ok = r.ok
              /\ q.did[s] = [status |-> f, of |-> of]
              /\ \A x \in Stages \ {s} : q.did[x] = r.did[x]
              /\ LET stops == r.next = 6 \/ (s \in Stopping /\ f = "failed")
                 IN  /\ stops => q.at = "verdict" /\ q.next = r.next
                     /\ ~stops => q.at = r.at /\ q.next = r.next + 1
            BY <3>1, <3>3, RecordFacts
        <3> QED
            BY <3>1, <3>2, <3>4 DEF r, of
    <2> HIDE DEF q
    <2>4. run'[t] = q /\ \A u \in Streams \ {t} : run'[u] = run[u]
        BY <1>6, <2>2 DEF IInv, TypeOK
    <2>5. q.at = "spark" /\ result # None =>
             /\ current' \in Contexts /\ ctx'[current'].plan = run[t].ver
             /\ run[t].next \in 3..6 => ctx'[current'].code = run[t].ver
        <3> SUFFICES ASSUME q.at = "spark", result # None
                     PROVE  /\ current' \in Contexts /\ ctx'[current'].plan = run[t].ver
                            /\ run[t].next \in 3..6 => ctx'[current'].code = run[t].ver
            OBVIOUS
        <3>1. run[t].next \in 1..6 /\ run[t].next \notin {1, 3, 4, 6}
            BY <1>1, <1>6, <2>1, <2>3, StageNumbers, OrderFacts DEF FullRun
        <3>2. Reached(t)
            BY <1>1, <1>6 DEF IInv, RunsOK, RunOK
        <3>3. current # 0
            BY <3>1, <3>2 DEF Reached
        <3>4. current' = current /\ current \in Contexts /\ Live(t, current)
            BY <1>1, <1>4, <3>3 DEF Live
        <3> QED
            BY <1>1, <3>1, <3>2, <3>4 DEF Reached
    <2>6. Records(t, s, "failed", {}, q)
        BY <1>1, <1>6, <2>3, <2>4, <2>5 DEF Records
    <2>7. RunOK(t)' /\ VerdictOK(t)'
        BY <1>6, <2>3, <2>6, Recorded
    <2> QED
        BY <1>1, <1>2, <1>3, <2>4, <2>7, OwnStep
<1> QED
    BY <1>5, <1>6

LEMMA VerdictStep ==
    ASSUME IInv, Present, Exclusive, NEW t \in Threads, Verdict(t)
    PROVE  IInv'
<1>1. t \in Streams /\ run[t].at = "verdict" /\ UNCHANGED <<runs, result, ctx, call, vetted, rogue>>
    BY DEF Verdict
<1>2. PICK g \in Contexts :
        /\ GetContext(g)
        /\ run' = [run EXCEPT ![t].at = "done",
                      ![t].ready = Ready(run[t], ctx[g]),
                      ![t].ok = /\ run[t].did["PHYSICAL_VERIFIER"].status = "ok"
                                /\ run[t].compared = "LOGIC_EQUIVALENT"]
    BY DEF Verdict
<1>3. call[t] = NoCall /\ Busy(t) /\ Concluded(t)
    BY <1>1 DEF IInv, CallOK, Busy, RunsOK, RunOK
<1>4. /\ run'[t].at = "done" /\ run'[t].ver = run[t].ver /\ run'[t].did = run[t].did
      /\ run'[t].ready => run[t].compared = "LOGIC_EQUIVALENT"
      /\ run'[t].ok => run[t].did[PV].status = "ok"
      /\ \A u \in Streams \ {t} : run'[u] = run[u]
    BY <1>1, <1>2, StageFacts DEF IInv, TypeOK, FullRun, Ready
<1>5. VerdictOK(t)'
    BY <1>3, <1>4 DEF Concluded, VerdictOK, Passed
<1>6. RunOK(t)'
    BY <1>4 DEF RunOK
<1>7. TypeOK'
    BY NextType DEF IInv, Next
<1>8. ContextOK' /\ RunsExecuteVetted'
    BY <1>1 DEF IInv, ContextOK, RunsExecuteVetted
<1> QED
    BY <1>1, <1>3, <1>4, <1>5, <1>6, <1>7, <1>8, OwnStep

\* What a stage makes of its context and its call.
LEMMA WorkMakes ==
    ASSUME IInv, NEW t \in Threads, StageStep(t), ~Return(t)
    PROVE  \E d \in Context, k \in Call :
              /\ Wrote(t, d) /\ Became(t, k) /\ d.code = d.compiled.plan
              /\ d.stage[PV] = "SKIPPED" => d.report = "none"
              /\ k.at = "gate" /\ k.stage = PV => d.report = "none"
<1>1. call[t] # NoCall /\ call[t].g \in Contexts /\ Mine(t) = ctx[call[t].g]
    BY WorkFrame, CallFacts DEF IInv, Mine
<1>2. /\ Mine(t).code = Mine(t).compiled.plan
      /\ Mine(t).stage[PV] = "SKIPPED" => Mine(t).report = "none"
      /\ call[t].stage = PV /\ call[t].at = "gate" => Mine(t).report = "none"
    BY <1>1 DEF IInv, ContextOK, CallOK, At
<1>3. CASE Goes(t)
    BY <1>2, <1>3, StageFacts DEF Goes
<1>4. CASE Ends(t)
    <2>1. PICK d \in Context, of \in SUBSET AnyVersion : Wrote(t, d) /\ Ended(t, of) /\ Result1(t, d, of)
        BY <1>4 DEF Ends
    <2>2. PICK k \in Call : Became(t, k) /\ k.at = "return"
        BY <2>1 DEF Ended
    <2>3. d.code = d.compiled.plan
        BY <1>2, <2>1 DEF Result1
    <2>4. d.stage[PV] = "SKIPPED" => d.report = "none"
        BY <1>2, <2>1 DEF Result1
    <2> QED
        BY <2>1, <2>2, <2>3, <2>4
<1> QED
    BY <1>3, <1>4, IInvParts, WorkSteps

\* A stage of a full run reads and writes this run's versions.
LEMMA WorkOfRun ==
    ASSUME IInv, NEW t \in Streams, StageStep(t), ~Return(t)
    PROVE  Reached(t)' /\ Working(t)' /\ (PhysicalExecute(t) => Mine(t).code \in vetted)
<1> DEFINE n == run[t].next
           v == run[t].ver
<1>1. /\ t \in Threads /\ call[t] # NoCall /\ call[t].g \in Contexts /\ Mine(t) = ctx[call[t].g]
      /\ Frame /\ vetted \subseteq vetted'
    BY StreamThreads, WorkFrame, CallFacts DEF IInv, Mine
<1>2. run' = run /\ result' = result /\ current' = current
    BY <1>1 DEF Frame
<1>3. /\ run[t].at = "spark" /\ call[t].stage = Order[n] /\ call[t].art.ver = v
      /\ Reached(t) /\ Working(t) /\ n \in 1..6
    BY <1>1, OrderFacts DEF IInv, CallOK, RunsOK, RunOK, TypeOK, FullRun
<1>4. /\ call[t].stage = "MAPPER" <=> n = 1
      /\ call[t].stage = "DEVELOPER" <=> n = 2
      /\ call[t].stage = "COMPILER" <=> n = 3
      /\ call[t].stage = "VALIDATOR" <=> n = 4
      /\ call[t].stage = "COMPARATOR" <=> n = 5
      /\ call[t].stage = PV <=> n = 6
    BY <1>3, StageNumbers
<1>5. /\ n > 1 => Mine(t).plan = v
      /\ n > 3 => Mine(t).code = v
      /\ n > 4 => v \in vetted
    <2>1. Live(t, call[t].g)
        BY <1>1 DEF Live
    <2> QED
        BY <1>1, <1>3, <2>1 DEF Reached
<1>6. Mine(t).code = Mine(t).compiled.plan
    BY <1>1 DEF IInv, ContextOK
<1>7. PhysicalExecute(t) => n = 6 /\ Mine(t).code \in vetted
    BY <1>1, <1>4, <1>5, ExecuteStep DEF IInv
<1>8. ASSUME NEW d \in Context, NEW k \in Call, Wrote(t, d), Became(t, k),
             n > 1 => d.plan = v,
             n > 3 => d.code = v
      PROVE  Reached(t)'
    <2>1. call'[t] = k /\ k # NoCall /\ k.g = call[t].g /\ ctx'[call[t].g] = d
        BY <1>8, CallFacts DEF Became, Wrote
    <2>2. \A g \in Contexts : Live(t, g)' => ctx'[g] = d
        BY <2>1 DEF Live
    <2> QED
        BY <1>1, <1>2, <1>3, <1>8, <2>2 DEF Reached, Passed
<1>9. CASE Goes(t)
    <2>1. PICK d \in Context, k \in Call :
            /\ Wrote(t, d) /\ Became(t, k)
            /\ d.plan = Mine(t).plan /\ d.code = Mine(t).code
            /\ \/ k.at = "store" /\ k.plan = Mine(t).plan
               \/ k.at = "gate"
               \/ /\ k.at = "verify" /\ PhysicalExecute(t)
                  /\ k.of = {call[t].art.ver, Mine(t).code}
        BY <1>9 DEF Goes
    <2>2. call'[t] = k /\ k.stage = call[t].stage
        BY <2>1 DEF Became
    <2>3. k.stage = "COMPILER" /\ k.at = "store" => k.plan = v
        BY <1>4, <1>5, <2>1, <2>2
    <2>4. k.at = "verify" => k.of = {v}
        BY <1>3, <1>5, <1>7, <2>1
    <2>5. k.at # "return"
        BY <2>1
    <2>6. Working(t)'
        BY <1>2, <2>2, <2>3, <2>4, <2>5 DEF Working, At
    <2> QED
        BY <1>5, <1>7, <1>8, <2>1, <2>6
<1>10. CASE Ends(t)
    <2>1. PICK d \in Context, of \in SUBSET AnyVersion : Wrote(t, d) /\ Ended(t, of) /\ Result1(t, d, of)
        BY <1>10 DEF Ends
    <2>2. PICK k \in Call : Became(t, k) /\ k.at = "return" /\ k.of = of
        BY <2>1 DEF Ended
    <2>3. call'[t] = k /\ k.stage = call[t].stage /\ k.g = call[t].g /\ ctx'[call[t].g] = d
        BY <2>1, <2>2 DEF Became, Wrote
    <2>4. n > 1 => d.plan = v
        BY <1>3, <1>4, <1>5, <2>1 DEF Result1
    <2>5. n > 3 => d.code = v
        BY <1>3, <1>4, <1>5, <2>1, StageFacts DEF Result1
    <2>6. /\ call[t].stage = "COMPILER" /\ call[t].at = "store" => call[t].plan = v
          /\ call[t].stage = PV /\ call[t].at = "verify" => call[t].of = {v}
        BY <1>1, <1>3 DEF Working, At
    <2>7. Mine(t)' = d
        BY <2>3 DEF Mine
    <2>8. call[t].stage \in Stopping => d.stage[call[t].stage] \in {"SUCCESS", "FAILURE"}
        BY <2>1 DEF Result1
    <2>9. ASSUME d.stage[call[t].stage] = "SUCCESS"
          PROVE  /\ call[t].stage # "DEVELOPER" => of = {v}
                 /\ call[t].stage = "MAPPER" => d.plan = v
                 /\ call[t].stage = "COMPILER" => d.code = v
                 /\ call[t].stage = "VALIDATOR" => v \in vetted'
        <3>1. call[t].stage = "MAPPER" => of = {v} /\ d.plan = v
            BY <1>3, <2>1, <2>9 DEF Result1
        <3>2. call[t].stage = "COMPILER" => of = {v} /\ d.code = v
            BY <1>3, <2>1, <2>6, <2>9 DEF Result1
        <3>3. call[t].stage = "VALIDATOR" => of = {v} /\ v \in vetted'
            BY <1>3, <1>4, <1>5, <1>6, <2>1, <2>9 DEF Result1
        <3>4. call[t].stage = "COMPARATOR" => of = {v}
            BY <1>3, <1>4, <1>5, <2>1, <2>9 DEF Result1
        <3>5. call[t].stage = PV => of = {v}
            BY <1>3, <2>1, <2>6, <2>9 DEF Result1
        <3>6. call[t].stage \in Stages
            BY <1>1, InHand DEF IInv
        <3> QED
            BY <3>1, <3>2, <3>3, <3>4, <3>5, <3>6, StageFacts
    <2>10. Outcome(t)'
        BY <1>2, <2>2, <2>3, <2>7, <2>8, <2>9 DEF Outcome
    <2>11. Working(t)'
        BY <2>2, <2>3, <2>10 DEF Working, At
    <2> QED
        BY <1>7, <1>8, <2>1, <2>2, <2>4, <2>5, <2>11
<1> QED
    BY <1>1, <1>9, <1>10, IInvParts, WorkSteps

LEMMA WorkStep ==
    ASSUME IInv, Present, Exclusive, NEW t \in Threads, StageStep(t), ~Return(t)
    PROVE  IInv'
<1>1. PICK d \in Context, k \in Call :
              /\ Wrote(t, d) /\ Became(t, k) /\ d.code = d.compiled.plan
              /\ d.stage[PV] = "SKIPPED" => d.report = "none"
              /\ k.at = "gate" /\ k.stage = PV => d.report = "none"
    BY WorkMakes
<1>2. /\ call[t] # NoCall /\ Frame
      /\ PhysicalExecute(t) \/ rogue' = rogue
    BY WorkFrame, IInvParts
<1>3. /\ run' = run /\ result' = result /\ current' = current
      /\ call'[t] = k /\ k.stage = call[t].stage /\ k.g = call[t].g /\ k.art = call[t].art
      /\ \A u \in Threads \ {t} : call'[u] = call[u]
      /\ ctx'[call[t].g] = d /\ \A g \in Contexts \ {call[t].g} : ctx'[g] = ctx[g]
    BY <1>1, <1>2 DEF Frame, Wrote, Became
<1>4. TypeOK'
    BY WorkPresent, IInvParts
<1>5. ContextOK'
    BY <1>1, <1>3 DEF IInv, ContextOK
<1>6. t \in Streams => RunOK(t)' /\ VerdictOK(t)'
    <2> SUFFICES ASSUME t \in Streams PROVE RunOK(t)' /\ VerdictOK(t)'
        OBVIOUS
    <2>1. RunOK(t) /\ VerdictOK(t) /\ run[t].at = "spark"
        BY <1>2 DEF IInv, RunsOK, CallOK
    <2>2. Reached(t)' /\ Working(t)'
        BY WorkOfRun
    <2>3. RunOK(t)'
        BY <1>3, <2>1, <2>2 DEF RunOK
    <2>4. VerdictOK(t)'
        BY <1>3, <2>1 DEF VerdictOK, Passed
    <2> QED
        BY <2>3, <2>4
<1>7. RunsExecuteVetted'
    <2>1. CASE t \in Streams /\ PhysicalExecute(t)
        <3>1. rogue' = rogue
            BY <2>1, WorkOfRun DEF PhysicalExecute
        <3> QED
            BY <3>1 DEF IInv, RunsExecuteVetted
    <2>2. CASE t \notin Streams
        BY <2>2, WorkFrame, IInvParts DEF IInv, RunsExecuteVetted
    <2>3. CASE rogue' = rogue
        BY <2>3 DEF IInv, RunsExecuteVetted
    <2> QED
        BY <1>2, <2>1, <2>2, <2>3
<1>8. /\ k.g = current' \/ (current' = 0 /\ result' = None)
      /\ At(t, PV, "gate")' => Mine(t)'.report = "none"
      /\ t \in Streams => /\ run'[t].at = "spark"
                          /\ k.stage = Order[run'[t].next]
                          /\ k.art.ver = run'[t].ver
    BY <1>1, <1>2, <1>3 DEF IInv, CallOK, At, Mine
<1> QED
    BY <1>2, <1>3, <1>4, <1>5, <1>6, <1>7, <1>8, OwnStep DEF Busy

LEMMA ReturnOfRun ==
    ASSUME IInv, NEW t \in Streams, Return(t)
    PROVE  /\ RunOK(t)' /\ VerdictOK(t)'
           /\ \A u \in Streams \ {t} : run'[u] = run[u]
<1>0. t \in Threads /\ call[t].stage \in Stages
    BY StreamThreads, ReturnStep, InHand DEF IInv
<1>s. PICK s \in Stages : s = call[t].stage
    BY <1>0
<1>v. PICK v : v = run[t].ver
    OBVIOUS
<1>o. PICK of : of = call[t].of
    OBVIOUS
<1> USE <1>s, <1>v, <1>o
<1>1. /\ t \in Threads /\ call[t] # NoCall /\ call[t].at = "return"
      /\ call'[t] = NoCall
      /\ \A g \in Contexts : ctx'[g] = ctx[g] \/ (g = call[t].g /\ g # current)
    BY StreamThreads, ReturnStep, InHand DEF IInv
<1>2. result' = result /\ current' = current /\ vetted' = vetted
    BY DEF Return
<1>3. /\ run[t].at = "spark" /\ s = Order[run[t].next] /\ run[t].next \in 1..6
      /\ Reached(t) /\ Outcome(t) /\ call[t].g \in Contexts
      /\ result # None => call[t].g = current
    BY <1>1, OrderFacts, CallFacts DEF IInv, CallOK, RunsOK, RunOK, TypeOK, FullRun, Working
<1>4. PICK q \in FullRun, status \in {"ok", "failed", "skipped"} :
              /\ run' = [run EXCEPT ![t] = q]
              /\ q.ver = run[t].ver /\ q.ready = run[t].ready /\ q.ok = run[t].ok
              /\ q.did[s] = [status |-> status, of |-> of]
              /\ \A x \in Stages \ {s} : q.did[x] = run[t].did[x]
              /\ LET stops == run[t].next = 6 \/ (s \in Stopping /\ status = "failed")
                 IN  /\ stops => q.at = "verdict" /\ q.next = run[t].next
                     /\ ~stops => q.at = run[t].at /\ q.next = run[t].next + 1
              /\ status = "ok" => Mine(t).stage[s] = "SUCCESS"
              /\ Mine(t).stage[s] = "SUCCESS" /\ s # PV => status = "ok"
              /\ Mine(t).stage[s] = "FAILURE" /\ s # PV /\ s # "DEVELOPER" => status = "failed"
              /\ q.compared # run[t].compared => s = "COMPARATOR" /\ status = "ok"
    BY <1>1, ReturnRecords DEF IInv
<1>5. run'[t] = q /\ \A u \in Streams \ {t} : run'[u] = run[u]
    BY <1>4 DEF IInv, TypeOK
<1>6. /\ s = "MAPPER" <=> run[t].next = 1
      /\ s = "DEVELOPER" <=> run[t].next = 2
      /\ s = "COMPILER" <=> run[t].next = 3
      /\ s = "VALIDATOR" <=> run[t].next = 4
      /\ s = "COMPARATOR" <=> run[t].next = 5
      /\ s = PV <=> run[t].next = 6
      /\ s \in Stopping <=> run[t].next \in {1, 3, 4}
    BY <1>3, StageNumbers
<1>7. /\ s \in Stopping => Mine(t).stage[s] \in {"SUCCESS", "FAILURE"}
      /\ Mine(t).stage[s] = "SUCCESS" =>
            /\ s # "DEVELOPER" => of = {v}
            /\ s = "MAPPER" => Mine(t).plan = v
            /\ s = "COMPILER" => Mine(t).code = v
            /\ s = "VALIDATOR" => v \in vetted
    BY <1>3 DEF Outcome
<1>8. s \in Stopping => status # "skipped" /\ (status = "ok" <=> Mine(t).stage[s] = "SUCCESS")
    BY <1>4, <1>6, <1>7
<1>9. /\ status = "ok" /\ s # "DEVELOPER" => of = {v}
      /\ status = "ok" /\ s = "VALIDATOR" => v \in vetted
    BY <1>4, <1>7
<1>10. q.at = "spark" /\ result # None =>
           /\ current' \in Contexts /\ ctx'[current'].plan = v
           /\ run[t].next \in 3..6 => ctx'[current'].code = v
    <2> SUFFICES ASSUME q.at = "spark", result # None
                 PROVE  /\ current' \in Contexts /\ ctx'[current'].plan = v
                        /\ run[t].next \in 3..6 => ctx'[current'].code = v
        OBVIOUS
    <2>1. run[t].next # 6 /\ (s \in Stopping => status = "ok")
        BY <1>4, <1>8
    <2>2. current' = call[t].g /\ ctx'[current'] = Mine(t) /\ Live(t, call[t].g)
        BY <1>1, <1>2, <1>3 DEF Mine, Live
    <2>3. Mine(t).plan = v
        BY <1>1, <1>3, <1>6, <1>7, <1>8, <2>1, <2>2 DEF Reached, Mine
    <2>4. run[t].next \in 3..6 => Mine(t).code = v
        BY <1>1, <1>3, <1>6, <1>7, <1>8, <2>1, <2>2 DEF Reached, Mine
    <2> QED
        BY <1>3, <2>2, <2>3, <2>4
<1>11. LET stops == run[t].next = 6 \/ (s \in Stopping /\ status = "failed")
       IN  /\ stops => q.at = "verdict" /\ q.next = run[t].next
           /\ ~stops => q.at = "spark" /\ q.next = run[t].next + 1
    BY <1>3, <1>4
<1>12. RunOK(t)' /\ VerdictOK(t)'
    <2>1. /\ q.ver = run[t].ver /\ q.ready = run[t].ready /\ q.ok = run[t].ok
          /\ \A x \in Stages \ {s} : q.did[x] = run[t].did[x]
          /\ q.compared # run[t].compared => s = "COMPARATOR" /\ status = "ok"
        BY <1>4
    <2>2. q.did[s] = [status |-> status, of |-> of]
        BY <1>4
    <2>3. /\ status = "ok" /\ s # "DEVELOPER" => of = {run[t].ver}
          /\ status = "ok" /\ s = "VALIDATOR" => run[t].ver \in vetted
          /\ q.at = "spark" /\ result # None =>
               /\ current' \in Contexts /\ ctx'[current'].plan = run[t].ver
               /\ run[t].next \in 3..6 => ctx'[current'].code = run[t].ver
        BY <1>9, <1>10, <2>1
    <2>4. /\ call'[t] = NoCall /\ run[t].at = "spark" /\ s = Order[run[t].next]
          /\ s \in Stopping => status # "skipped"
        BY <1>1, <1>3, <1>8
    <2>5. Records(t, s, status, of, q)
        BY <1>2, <1>5, <1>11, <2>1, <2>2, <2>3, <2>4 DEF Records
    <2> QED
        BY <2>5, Recorded
<1> QED
    BY <1>5, <1>12

LEMMA ReturnsStep ==
    ASSUME IInv, Present, Exclusive, NEW t \in Threads, Return(t)
    PROVE  IInv'
<1>1. /\ call[t] # NoCall /\ call'[t] = NoCall /\ \A u \in Threads \ {t} : call'[u] = call[u]
      /\ \A g \in Contexts : ctx'[g] = ctx[g] \/ ctx'[g] = NewContext
      /\ t \notin Streams => run' = run
    BY ReturnStep, IInvParts
<1>2. TypeOK'
    BY ReturnType, IInvParts
<1>3. ContextOK'
    BY <1>1, FreshContext DEF IInv, ContextOK
<1>4. RunsExecuteVetted'
    BY DEF IInv, RunsExecuteVetted, Return
<1>5. /\ t \in Streams => RunOK(t)' /\ VerdictOK(t)'
      /\ \A u \in Streams \ {t} : run'[u] = run[u]
    BY <1>1, ReturnOfRun
<1> QED
    BY <1>1, <1>2, <1>3, <1>4, <1>5, OwnStep DEF Busy

LEMMA InitInv == Init => IInv
<1> SUFFICES ASSUME Init PROVE IInv
    OBVIOUS
<1>1. TypeOK
    BY InitType
<1>2. /\ \A t \in Threads : call[t] = NoCall /\ ~Busy(t)
      /\ \A t \in Streams : run[t] = NewRun
      /\ \A g \in Contexts : ctx[g] = NewContext
    BY StreamThreads DEF Init, Busy, NewRun
<1>3. RunsOK
    <2>1. NewRun.at = "start" /\ ~NewRun.ready /\ ~NewRun.ok
        BY DEF NewRun
    <2> QED
        BY <1>2, <2>1 DEF RunsOK, RunOK, VerdictOK
<1>4. Alone /\ ContextOK /\ CallOK
    BY <1>2, FreshContext DEF Alone, ContextOK, CallOK
<1>5. RunsExecuteVetted
    BY DEF Init, RunsExecuteVetted
<1> QED
    BY <1>1, <1>3, <1>4, <1>5 DEF IInv

LEMMA NextInv == Exclusive /\ Present /\ IInv /\ [Next]_vars => IInv'
<1> SUFFICES ASSUME Exclusive, Present, IInv, [Next]_vars PROVE IInv'
    OBVIOUS
<1>1. ASSUME NEW t \in Threads, StageStep(t) PROVE IInv'
    BY <1>1, WorkStep, ReturnsStep
<1>2. CASE UNCHANGED vars
    <2>1. TypeOK'
        BY <1>2, NextType, IInvParts
    <2>2. Alone' /\ ContextOK' /\ CallOK' /\ RunsExecuteVetted'
        BY <1>2 DEF vars, IInv, Alone, Busy, ContextOK, CallOK, At, Mine, RunsExecuteVetted
    <2>3. RunsOK'
        BY <1>2 DEF vars, IInv, RunsOK, RunOK, VerdictOK, Reached, Live, Working, Outcome, Concluded,
            Passed, At, Mine
    <2> QED
        BY <2>1, <2>2, <2>3 DEF IInv
<1> QED
    BY <1>1, <1>2, ExpireStep, HttpStep, RunSqlStep, BeginStep, RefuseStep, VerdictStep DEF Next

LEMMA Invariance == ASSUME Exclusive PROVE Spec => []IInv
<1>1. TypeOK /\ Present /\ IInv /\ [Next]_vars => (TypeOK /\ Present /\ IInv)'
    BY NextType, NextInv
<1>2. Init => TypeOK /\ Present /\ IInv
    BY InitType, InitInv
<1> QED
    BY <1>1, <1>2, PTL DEF Spec

\* With one client at a time: a full run that calls its material ready, or
\* itself spark_ok, passed every stage it relies on over its own versions.
THEOREM VerdictCorrect == ASSUME Exclusive PROVE Spec => []VerdictIsOfThisRun
<1>1. IInv => VerdictIsOfThisRun
    BY DEF IInv, RunsOK, VerdictOK, VerdictIsOfThisRun, Passed, PV
<1> QED
    BY <1>1, Invariance, PTL

\* With one client at a time: a full run executes only code that the
\* validator has passed, though each stage takes the context anew.
THEOREM ExecutionVetted == ASSUME Exclusive PROVE Spec => []RunsExecuteVetted
<1>1. IInv => RunsExecuteVetted
    BY DEF IInv
<1> QED
    BY <1>1, Invariance, PTL

\* With one client at a time: between two calls the code of every context is
\* the compiled one, and a skipped physical verification left no report.
THEOREM ContextConsistent == ASSUME Exclusive PROVE Spec => []QuietContext
<1>1. IInv => QuietContext
    BY DEF IInv, ContextOK, QuietContext, PV
<1> QED
    BY <1>1, Invariance, PTL
=============================================================================
