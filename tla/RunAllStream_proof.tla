------------------------- MODULE RunAllStream_proof -------------------------
(***************************************************************************)
(* Proofs about RunAllStream, for any number of SQL stages.                *)
(*                                                                         *)
(* IInv ties the queue to both of its ends: what the thread put last is    *)
(* where the thread is (QueueEnd), and every event follows from the one    *)
(* before it, the first from what the client was told (Legal).             *)
(***************************************************************************)
EXTENDS RunAllStream, TLAPS, SequenceTheorems

Ended == thread \in {"finally", "exited"}
InStage == thread \in {"in sql", "in spark"}

\* The stage that is open, and the last one opened, just before event i of
\* q, when they are r and l before the first.
Open(q, r, i) ==
    IF i = 1 THEN r ELSE IF q[i - 1].status = "started" THEN q[i - 1].stage ELSE 0
Before(q, l, i) == IF i = 1 THEN l ELSE q[i - 1].stage

Follows(e, open, before) ==
    \/ IsFinal(e) /\ open = 0
    \/ e.status = "started" /\ open = 0 /\ e.stage > before
    \/ ~IsFinal(e) /\ e.status # "started" /\ open = e.stage

NoFinal(q) == \A i \in 1..Len(q) : ~IsFinal(q[i])

Legal(q, r, l) ==
    /\ \A i \in 1..Len(q) : Follows(q[i], Open(q, r, i), Before(q, l, i))
    /\ \A i \in 1..Len(q) : IsFinal(q[i]) => i = Len(q)

QueueEnd ==
    LET n == Len(queue) + 1
    IN  /\ ~Ended => /\ NoFinal(queue)
                     /\ Open(queue, running, n) = (IF InStage THEN stage ELSE 0)
                     /\ Before(queue, last, n) <= stage
        /\ Ended => n > 1 /\ IsFinal(queue[n - 1])

ThreadOK ==
    /\ stop => thread = "exited"
    /\ thread \in {"sql", "in sql"} => stage <= SqlStages
    /\ thread = "in sql" => stage > 0
    /\ thread = "spark" => stage >= SqlStages /\ stage < StageCount
    /\ thread = "in spark" => stage > SqlStages

GeneratorOK ==
    /\ generator = "check again" => stop
    /\ generator = "returned" => phase = "closed"
    /\ generator = "abandoned" => phase = "gone"
    /\ generator \in {"check", "check again", "get"} => phase = "listening"

ToldOK == running # 0 => running = last

QueueOK == phase = "listening" => Legal(queue, running, last) /\ QueueEnd

IInv == TypeOK /\ ThreadOK /\ GeneratorOK /\ ToldOK /\ QueueOK

-----------------------------------------------------------------------------
(* Events and sequences of them *)

LEMMA ConstantFacts ==
    /\ SqlStages \in Nat \ {0} /\ MaxQueue \in Nat \ {0}
    /\ StageCount = SqlStages + 6 /\ StageCount \in Nat \ {0}
BY StreamAssumption DEF StreamAssumption, StageCount

LEMMA EventFacts ==
    ASSUME NEW e \in Event
    PROVE  /\ e.stage \in 0..StageCount
           /\ IsFinal(e) => e.stage = 0 /\ e.status # "started"
           /\ ~IsFinal(e) => e.stage \in 1..StageCount /\ e.event = "stage"
           /\ e.status = "started" => e.event = "stage"
BY ConstantFacts DEF Event, IsFinal, StageCount

\* An event that follows from the last one may be put on a legal queue.
LEMMA PutLegal ==
    ASSUME NEW q \in Seq(Event), NEW e \in Event, NEW r, NEW l,
           Legal(q, r, l), NoFinal(q),
           Follows(e, Open(q, r, Len(q) + 1), Before(q, l, Len(q) + 1))
    PROVE  LET p == Append(q, e)
           IN  /\ Legal(p, r, l)
               /\ ~IsFinal(e) => NoFinal(p)
               /\ Open(p, r, Len(p) + 1) = (IF e.status = "started" THEN e.stage ELSE 0)
               /\ Before(p, l, Len(p) + 1) = e.stage
               /\ p[Len(p)] = e
<1> DEFINE p == Append(q, e)
<1>1. /\ p \in Seq(Event) /\ Len(p) = Len(q) + 1 /\ Len(q) \in Nat
      /\ \A i \in 1..Len(q) : p[i] = q[i]
      /\ p[Len(q) + 1] = e
  BY AppendProperties, LenProperties
<1> HIDE DEF p
<1>2. \A i \in 1..(Len(q) + 1) : /\ Open(p, r, i) = Open(q, r, i)
                                /\ Before(p, l, i) = Before(q, l, i)
  <2> TAKE i \in 1..(Len(q) + 1)
  <2>1. CASE i = 1
    BY <2>1 DEF Open, Before
  <2>2. CASE i # 1
    <3>1. i - 1 \in 1..Len(q)
      BY <1>1, <2>2
    <3>2. p[i - 1] = q[i - 1]
      BY <1>1, <3>1
    <3> QED BY <2>2, <3>2 DEF Open, Before
  <2> QED BY <2>1, <2>2
<1>3. \A i \in 1..Len(p) : Follows(p[i], Open(p, r, i), Before(p, l, i))
  <2> SUFFICES ASSUME NEW i \in 1..Len(p)
               PROVE  Follows(p[i], Open(p, r, i), Before(p, l, i))
    OBVIOUS
  <2>0. i \in 1..(Len(q) + 1)
    BY <1>1
  <2>1. CASE i = Len(q) + 1
    BY <1>1, <1>2, <2>0, <2>1
  <2>2. CASE i # Len(q) + 1
    <3>1. i \in 1..Len(q)
      BY <1>1, <2>0, <2>2
    <3> QED BY <1>1, <1>2, <2>0, <3>1 DEF Legal
  <2> QED BY <2>1, <2>2
<1>4. \A i \in 1..Len(p) : IsFinal(p[i]) => i = Len(p)
  BY <1>1 DEF NoFinal
<1>5. ~IsFinal(e) => NoFinal(p)
  BY <1>1 DEF NoFinal
<1>6. /\ Open(p, r, Len(p) + 1) = (IF e.status = "started" THEN e.stage ELSE 0)
      /\ Before(p, l, Len(p) + 1) = e.stage
  <2>1. Len(p) + 1 # 1 /\ (Len(p) + 1) - 1 = Len(q) + 1
    BY <1>1
  <2> QED BY <1>1, <2>1 DEF Open, Before
<1>7. p[Len(p)] = e
  BY <1>1
<1> QED BY <1>3, <1>4, <1>5, <1>6, <1>7 DEF p, Legal

\* What is left of a legal queue when its first event was told is legal.
LEMMA TakeLegal ==
    ASSUME NEW q \in Seq(Event), q # <<>>,
           NEW r \in 0..StageCount, NEW l \in 0..StageCount, r # 0 => r = l,
           Legal(q, r, l), ~IsFinal(q[1]),
           NEW r2, r2 = (IF q[1].status = "started" THEN q[1].stage ELSE 0),
           NEW l2, l2 = (IF q[1].status = "started" THEN q[1].stage ELSE l)
    PROVE  /\ Legal(Tail(q), r2, l2)
           /\ Open(Tail(q), r2, Len(Tail(q)) + 1) = Open(q, r, Len(q) + 1)
           /\ Before(Tail(q), l2, Len(Tail(q)) + 1) = Before(q, l, Len(q) + 1)
<1> DEFINE p == Tail(q)
<1>1. /\ p \in Seq(Event) /\ Len(p) = Len(q) - 1 /\ Len(q) \in Nat \ {0}
      /\ \A i \in 1..Len(p) : p[i] = q[i + 1]
      /\ q[1] \in Event
  BY HeadTailProperties, LenProperties, EmptySeq, ElementOfSeq
<1> HIDE DEF p
<1>2. l2 = q[1].stage
  <2>1. CASE q[1].status = "started"
    BY <2>1
  <2>2. CASE q[1].status # "started"
    <3>1. Follows(q[1], Open(q, r, 1), Before(q, l, 1))
      BY <1>1 DEF Legal
    <3>2. r = q[1].stage
      BY <2>2, <3>1 DEF Follows, Open
    <3>3. q[1].stage # 0
      BY <1>1, EventFacts, ConstantFacts DEF StageCount
    <3> QED BY <2>2, <3>2, <3>3
  <2> QED BY <2>1, <2>2
<1>3. \A i \in 1..(Len(p) + 1) : /\ Open(p, r2, i) = Open(q, r, i + 1)
                                /\ Before(p, l2, i) = Before(q, l, i + 1)
  <2> SUFFICES ASSUME NEW i \in 1..(Len(p) + 1)
               PROVE  /\ Open(p, r2, i) = Open(q, r, i + 1)
                      /\ Before(p, l2, i) = Before(q, l, i + 1)
    OBVIOUS
  <2>0. i + 1 # 1 /\ (i + 1) - 1 = i
    BY <1>1
  <2>1. CASE i = 1
    BY <1>2, <2>0, <2>1 DEF Open, Before
  <2>2. CASE i # 1
    <3>1. i - 1 \in 1..Len(p) /\ (i - 1) + 1 = i
      BY <1>1, <2>2
    <3>2. p[i - 1] = q[i]
      BY <1>1, <3>1
    <3> QED BY <2>0, <2>2, <3>2 DEF Open, Before
  <2> QED BY <2>1, <2>2
<1>4. \A i \in 1..Len(p) : Follows(p[i], Open(p, r2, i), Before(p, l2, i))
  <2> SUFFICES ASSUME NEW i \in 1..Len(p)
               PROVE  Follows(p[i], Open(p, r2, i), Before(p, l2, i))
    OBVIOUS
  <2>1. i \in 1..(Len(p) + 1) /\ i + 1 \in 1..Len(q)
    BY <1>1
  <2>2. Follows(q[i + 1], Open(q, r, i + 1), Before(q, l, i + 1))
    BY <2>1 DEF Legal
  <2> QED BY <1>1, <1>3, <2>1, <2>2
<1>5. \A i \in 1..Len(p) : IsFinal(p[i]) => i = Len(p)
  <2> SUFFICES ASSUME NEW i \in 1..Len(p), IsFinal(p[i]) PROVE i = Len(p)
    OBVIOUS
  <2>1. i + 1 \in 1..Len(q) /\ IsFinal(q[i + 1])
    BY <1>1
  <2>2. i + 1 = Len(q)
    BY <2>1 DEF Legal
  <2> QED BY <1>1, <2>2
<1>6. Len(p) + 1 \in 1..(Len(p) + 1) /\ (Len(p) + 1) + 1 = Len(q) + 1
  BY <1>1
<1>7. /\ Open(p, r2, Len(p) + 1) = Open(q, r, Len(q) + 1)
      /\ Before(p, l2, Len(p) + 1) = Before(q, l, Len(q) + 1)
  BY <1>3, <1>6
<1> QED BY <1>4, <1>5, <1>7 DEF p, Legal

-----------------------------------------------------------------------------
(* The invariant *)

\* TypeOK for the provers: they lose their way in its conjuncts.
LEMMA Types ==
    ASSUME TypeOK
    PROVE  /\ queue \in Seq(Event) /\ Len(queue) \in Nat /\ Len(queue) <= MaxQueue
           /\ stop \in BOOLEAN /\ validated \in BOOLEAN
           /\ stage \in 0..StageCount /\ stage \in Nat /\ stage <= StageCount
           /\ running \in 0..StageCount /\ last \in 0..StageCount
           /\ running \in Nat /\ last \in Nat
<1>1. /\ queue \in Seq(Event) /\ Len(queue) <= MaxQueue
      /\ stop \in BOOLEAN /\ validated \in BOOLEAN
      /\ stage \in 0..StageCount
      /\ running \in 0..StageCount /\ last \in 0..StageCount
  BY DEF TypeOK
<1>2. Len(queue) \in Nat
  BY <1>1, LenProperties
<1> QED BY <1>1, <1>2, ConstantFacts

LEMMA InitOK == Init => IInv
<1> SUFFICES ASSUME Init PROVE IInv
  OBVIOUS
<1>1. TypeOK
  <2>1. queue \in Seq(Event) /\ Len(queue) <= MaxQueue
    BY ConstantFacts DEF Init
  <2>2. 0 \in 0..StageCount
    BY ConstantFacts
  <2> QED BY <2>1, <2>2 DEF Init, TypeOK
<1>2. QueueOK
  <2>1. Len(queue) = 0
    BY DEF Init
  <2>2. Legal(queue, running, last)
    BY <2>1 DEF Legal
  <2>3. QueueEnd
    BY <2>1 DEF Init, QueueEnd, Ended, InStage, NoFinal, Open, Before
  <2> QED BY <2>2, <2>3 DEF QueueOK
<1>3. ThreadOK
  BY ConstantFacts DEF Init, ThreadOK
<1> QED BY <1>1, <1>2, <1>3 DEF Init, IInv, GeneratorOK, ToldOK

LEMMA BeforeIsNumber ==
    ASSUME TypeOK PROVE Before(queue, last, Len(queue) + 1) \in Int
<1>1. CASE Len(queue) + 1 = 1
  BY <1>1, Types DEF Before
<1>2. CASE Len(queue) + 1 # 1
  <2>1. (Len(queue) + 1) - 1 \in 1..Len(queue)
    BY <1>2, Types
  <2>2. queue[(Len(queue) + 1) - 1] \in Event
    BY <2>1, Types, ElementOfSeq
  <2> QED BY <1>2, <2>2, EventFacts, ConstantFacts DEF Before
<1> QED BY <1>1, <1>2

\* What a put leaves on the queue, when the event follows from where the
\* thread is.
LEMMA PutStep ==
    ASSUME IInv, ~Ended, NEW e \in Event, Put(e), UNCHANGED told,
           Follows(e, IF InStage THEN stage ELSE 0, stage)
    PROVE  /\ queue' \in Seq(Event) /\ Len(queue') <= MaxQueue /\ Len(queue') > 0
           /\ queue'[Len(queue')] = e
           /\ phase' = "listening" =>
                /\ Legal(queue', running', last')
                /\ ~IsFinal(e) => NoFinal(queue')
                /\ Open(queue', running', Len(queue') + 1)
                     = (IF e.status = "started" THEN e.stage ELSE 0)
                /\ Before(queue', last', Len(queue') + 1) = e.stage
<1>1. /\ queue \in Seq(Event) /\ Len(queue) \in Nat /\ Len(queue) < MaxQueue
      /\ queue' = Append(queue, e) /\ stage \in 0..StageCount
  BY Types DEF IInv, Put
<1>2. queue' \in Seq(Event) /\ Len(queue') = Len(queue) + 1 /\ queue'[Len(queue')] = e
  BY <1>1, AppendProperties
<1>3. ASSUME phase' = "listening"
      PROVE  /\ Legal(queue', running', last')
             /\ ~IsFinal(e) => NoFinal(queue')
             /\ Open(queue', running', Len(queue') + 1)
                  = (IF e.status = "started" THEN e.stage ELSE 0)
             /\ Before(queue', last', Len(queue') + 1) = e.stage
  <2>1. phase = "listening" /\ running' = running /\ last' = last
    BY <1>3 DEF told
  <2>2. /\ Legal(queue, running, last) /\ NoFinal(queue)
        /\ Open(queue, running, Len(queue) + 1) = (IF InStage THEN stage ELSE 0)
        /\ Before(queue, last, Len(queue) + 1) <= stage
    BY <2>1 DEF IInv, QueueOK, QueueEnd
  <2>3. Before(queue, last, Len(queue) + 1) \in Int
    BY BeforeIsNumber DEF IInv
  <2>4. Follows(e, Open(queue, running, Len(queue) + 1), Before(queue, last, Len(queue) + 1))
    <3>1. e.stage \in Int
      BY EventFacts, ConstantFacts DEF StageCount
    <3> QED BY <1>1, <2>2, <2>3, <3>1, ConstantFacts DEF Follows, StageCount
  <2>5. /\ Legal(Append(queue, e), running, last)
        /\ ~IsFinal(e) => NoFinal(Append(queue, e))
        /\ Open(Append(queue, e), running, Len(Append(queue, e)) + 1)
             = (IF e.status = "started" THEN e.stage ELSE 0)
        /\ Before(Append(queue, e), last, Len(Append(queue, e)) + 1) = e.stage
    BY <1>1, <2>2, <2>4, PutLegal
  <2> QED BY <1>1, <2>1, <2>5
<1>4. Len(queue') <= MaxQueue /\ Len(queue') > 0
  BY <1>1, <1>2, ConstantFacts
<1> QED BY <1>2, <1>3, <1>4

\* The parts of the invariant that a step of the thread must still show.
LEMMA ThreadKeeps ==
    ASSUME IInv, UNCHANGED <<generator, told>>,
           queue' \in Seq(Event), Len(queue') <= MaxQueue,
           stop' \in BOOLEAN, stop => stop',
           thread' \in {"sql", "in sql", "spark", "in spark", "verdict", "raised",
                        "finally", "exited"},
           stage' \in 0..StageCount, validated' \in BOOLEAN,
           ThreadOK', QueueOK'
    PROVE  IInv'
BY DEF IInv, TypeOK, GeneratorOK, ToldOK, told

LEMMA StartSqlKeeps == IInv /\ StartSql => IInv'
<1> SUFFICES ASSUME IInv, StartSql PROVE IInv'
  OBVIOUS
<1>1. PICK s \in (stage + 1)..SqlStages : Put(Tell(s, "started")) /\ stage' = s
  BY DEF StartSql
<1>2. /\ s \in 1..StageCount /\ s > stage /\ stage \in 0..StageCount
      /\ s > 0 /\ s <= SqlStages /\ s \in Nat
  <2>1. stage \in Nat /\ stage \in 0..StageCount
    BY Types DEF IInv
  <2> QED BY <1>1, <2>1, ConstantFacts
<1> DEFINE e == Tell(s, "started")
<1>3. e \in Event /\ ~IsFinal(e) /\ e.stage = s /\ e.status = "started"
  BY <1>2 DEF Tell, Event, IsFinal
<1> HIDE DEF e
<1>4. ~Ended /\ ~InStage
  BY DEF StartSql, Ended, InStage
<1>5. Follows(e, IF InStage THEN stage ELSE 0, stage)
  BY <1>2, <1>3, <1>4 DEF Follows
<1>6. UNCHANGED told /\ Put(e)
  BY <1>1 DEF StartSql, e
<1>7. ThreadOK'
  BY <1>1, <1>2 DEF StartSql, IInv, ThreadOK
<1>8. QueueOK'
  <2>1. ~Ended' /\ InStage'
    BY DEF StartSql, Ended, InStage
  <2> QED BY <1>1, <1>2, <1>3, <1>4, <1>5, <1>6, <2>1, PutStep, ConstantFacts
      DEF QueueOK, QueueEnd, StageCount
<1>9. queue' \in Seq(Event) /\ Len(queue') <= MaxQueue
  BY <1>3, <1>4, <1>5, <1>6, PutStep
<1>10. /\ stop' \in BOOLEAN /\ validated' \in BOOLEAN /\ (stop => stop')
       /\ thread' \in {"sql", "in sql", "spark", "in spark", "verdict", "raised",
                        "finally", "exited"}
       /\ stage' \in 0..StageCount /\ UNCHANGED <<generator, told>>
  <2>1. stop \in BOOLEAN /\ validated \in BOOLEAN
    BY Types DEF IInv
  <2>2. 1..StageCount \subseteq 0..StageCount
    BY ConstantFacts
  <2> QED BY <1>1, <1>2, <2>1, <2>2 DEF StartSql
<1> QED BY <1>7, <1>8, <1>9, <1>10, ThreadKeeps

LEMMA StartSparkKeeps == IInv /\ StartSpark => IInv'
<1> SUFFICES ASSUME IInv, StartSpark PROVE IInv'
  OBVIOUS
<1>2. stage + 1 \in 1..StageCount /\ stage \in 0..StageCount /\ stage + 1 > SqlStages
  <2>1. stage >= SqlStages /\ stage < StageCount
    BY DEF StartSpark, IInv, ThreadOK
  <2>2. stage \in Nat
    BY Types DEF IInv
  <2> QED BY <2>1, <2>2, ConstantFacts
<1> DEFINE e == Tell(stage + 1, "started")
<1>3. e \in Event /\ ~IsFinal(e) /\ e.stage = stage + 1 /\ e.status = "started"
  BY <1>2 DEF Tell, Event, IsFinal
<1> HIDE DEF e
<1>4. ~Ended /\ ~InStage
  BY DEF StartSpark, Ended, InStage
<1>5. Follows(e, IF InStage THEN stage ELSE 0, stage)
  BY <1>2, <1>3, <1>4 DEF Follows
<1>6. UNCHANGED told /\ Put(e)
  BY DEF StartSpark, e
<1>7. ThreadOK'
  BY <1>2 DEF StartSpark, IInv, ThreadOK
<1>8. QueueOK'
  <2>1. ~Ended' /\ InStage' /\ stage' = stage + 1
    BY DEF StartSpark, Ended, InStage
  <2> QED BY <1>2, <1>3, <1>4, <1>5, <1>6, <2>1, PutStep, ConstantFacts
      DEF QueueOK, QueueEnd, StageCount
<1>9. queue' \in Seq(Event) /\ Len(queue') <= MaxQueue
  BY <1>3, <1>4, <1>5, <1>6, PutStep
<1>10. /\ stop' \in BOOLEAN /\ validated' \in BOOLEAN /\ (stop => stop')
       /\ thread' \in {"sql", "in sql", "spark", "in spark", "verdict", "raised",
                        "finally", "exited"}
       /\ stage' \in 0..StageCount /\ UNCHANGED <<generator, told>>
  <2>1. stop \in BOOLEAN /\ validated \in BOOLEAN
    BY Types DEF IInv
  <2>2. 1..StageCount \subseteq 0..StageCount
    BY ConstantFacts
  <2> QED BY <1>2, <2>1, <2>2 DEF StartSpark
<1> QED BY <1>7, <1>8, <1>9, <1>10, ThreadKeeps

\* The end of a stage, of either pipeline.
LEMMA EndKeeps ==
    ASSUME IInv, InStage, NEW status \in {"completed", "failed", "skipped"},
           Put(Tell(stage, status)), UNCHANGED <<stop, stage, generator, told>>,
           thread' \in {"sql", "spark", "verdict", "raised"},
           thread' = "spark" => stage >= SqlStages /\ stage < StageCount,
           thread' = "sql" => stage <= SqlStages,
           validated' \in BOOLEAN
    PROVE  IInv'
<1>2. stage \in 1..StageCount
  <2>1. stage > 0 \/ stage > SqlStages
    BY DEF InStage, IInv, ThreadOK
  <2>2. stage \in Nat /\ stage <= StageCount
    BY Types DEF IInv
  <2>3. stage > 0
    BY <2>1, <2>2, ConstantFacts
  <2> QED BY <2>2, <2>3, ConstantFacts
<1> DEFINE e == Tell(stage, status)
<1>3. e \in Event /\ ~IsFinal(e) /\ e.stage = stage /\ e.status # "started"
  BY <1>2 DEF Tell, Event, IsFinal
<1>6. UNCHANGED told /\ Put(e)
  OBVIOUS
<1> HIDE DEF e
<1>4. ~Ended
  BY DEF Ended, InStage
<1>5. Follows(e, IF InStage THEN stage ELSE 0, stage)
  BY <1>2, <1>3 DEF Follows
<1>7. ThreadOK'
  <2>1. ~stop'
    BY <1>4 DEF IInv, ThreadOK, Ended
  <2> QED BY <2>1 DEF ThreadOK
<1>8. QueueOK'
  <2>1. ~Ended' /\ ~InStage' /\ stage' = stage
    BY DEF Ended, InStage
  <2> QED BY <1>2, <1>3, <1>4, <1>5, <1>6, <2>1, PutStep, ConstantFacts
      DEF QueueOK, QueueEnd, StageCount
<1>9. queue' \in Seq(Event) /\ Len(queue') <= MaxQueue
  BY <1>3, <1>4, <1>5, <1>6, PutStep
<1> QED BY <1>2, <1>7, <1>8, <1>9, ThreadKeeps, Types, ConstantFacts DEF IInv

LEMMA EndSqlKeeps == IInv /\ EndSql => IInv'
<1> SUFFICES ASSUME IInv, EndSql PROVE IInv'
  OBVIOUS
<1>1. InStage /\ validated' \in BOOLEAN /\ stage <= SqlStages
  BY DEF EndSql, InStage, IInv, TypeOK, ThreadOK
<1>2. CASE Put(Tell(stage, "completed")) /\ thread' = "sql"
  BY <1>1, <1>2, EndKeeps DEF EndSql
<1>3. CASE Put(Tell(stage, "failed")) /\ thread' \in {"verdict", "raised"}
  BY <1>1, <1>3, EndKeeps DEF EndSql
<1> QED BY <1>2, <1>3 DEF EndSql

LEMMA EndSparkKeeps == IInv /\ EndSpark => IInv'
<1> SUFFICES ASSUME IInv, EndSpark PROVE IInv'
  OBVIOUS
<1>1. PICK status \in {"ok", "failed", "skipped", "raised"} :
          /\ Put(Tell(stage, Outcome(stage, status)))
          /\ validated' = (validated \/ (Name(stage) = "VALIDATOR" /\ status = "ok"))
          /\ thread' = IF Stops(stage, status) THEN "verdict" ELSE "spark"
  BY DEF EndSpark
<1>2. Outcome(stage, status) \in {"completed", "failed", "skipped"}
  BY DEF Outcome
<1>3. /\ InStage /\ stage > SqlStages /\ stage \in 0..StageCount
      /\ validated' \in BOOLEAN
  BY <1>1 DEF EndSpark, InStage, IInv, TypeOK, ThreadOK
<1>4. thread' = "spark" => stage >= SqlStages /\ stage < StageCount
  <2>1. thread' = "spark" => stage # StageCount
    BY <1>1 DEF Stops
  <2> QED BY <1>3, <2>1, ConstantFacts DEF StageCount
<1>5. thread' \in {"sql", "spark", "verdict", "raised"}
  BY <1>1
<1>6. UNCHANGED <<stop, stage, generator, told>>
  BY DEF EndSpark
<1>7. thread' # "sql"
  BY <1>1
<1> QED BY <1>1, <1>2, <1>3, <1>4, <1>5, <1>6, <1>7, EndKeeps

LEMMA LeaveSqlKeeps == IInv /\ LeaveSql => IInv'
<1> SUFFICES ASSUME IInv, LeaveSql PROVE IInv'
  OBVIOUS
<1>1. /\ ~Ended /\ ~InStage /\ ~Ended' /\ ~InStage' /\ UNCHANGED <<queue, told>>
      /\ ~stop /\ ~stop'
  BY DEF LeaveSql, Ended, InStage, IInv, ThreadOK
<1>2. ThreadOK' /\ stage' \in 0..StageCount
  <2>1. stage \in 0..StageCount
    BY Types DEF IInv
  <2>2. SqlStages \in 0..StageCount /\ SqlStages < StageCount /\ SqlStages >= SqlStages
    BY ConstantFacts
  <2>3. CASE thread' = "spark" /\ stage' = SqlStages
    BY <1>1, <2>2, <2>3 DEF ThreadOK
  <2>4. CASE thread' \in {"verdict", "raised"} /\ UNCHANGED stage
    BY <1>1, <2>1, <2>4 DEF ThreadOK
  <2> QED BY <2>3, <2>4 DEF LeaveSql
<1>3. QueueOK'
  <2> SUFFICES ASSUME phase = "listening"
               PROVE  Legal(queue, running, last) /\ QueueEnd'
    BY <1>1 DEF QueueOK, told
  <2> DEFINE n == Len(queue) + 1
  <2>1. /\ Legal(queue, running, last) /\ NoFinal(queue)
        /\ Open(queue, running, n) = 0 /\ Before(queue, last, n) <= stage
    BY <1>1 DEF IInv, QueueOK, QueueEnd
  <2>2. stage' = stage \/ (stage' = SqlStages /\ Before(queue, last, n) <= SqlStages)
    <3>1. CASE UNCHANGED stage
      BY <3>1
    <3>2. CASE stage' = SqlStages
      <4>1. stage <= SqlStages
        BY DEF LeaveSql, IInv, ThreadOK
      <4>2. Before(queue, last, n) \in Int
        BY BeforeIsNumber DEF IInv
      <4> QED BY <2>1, <3>2, <4>1, <4>2, Types, ConstantFacts DEF IInv
    <3> QED BY <3>1, <3>2 DEF LeaveSql
  <2> QED BY <1>1, <2>1, <2>2 DEF QueueEnd, told
<1> QED BY <1>1, <1>2, <1>3, ThreadKeeps DEF LeaveSql, IInv, TypeOK

LEMMA ConcludeKeeps == IInv /\ Conclude => IInv'
<1> SUFFICES ASSUME IInv, Conclude PROVE IInv'
  OBVIOUS
<1>1. PICK kind \in {"done", "fatal"} : Put(Final(kind))
  BY DEF Conclude
<1> DEFINE e == Final(kind)
<1>2. e \in Event /\ IsFinal(e)
  BY DEF Final, Event, IsFinal
<1>3. Put(e) /\ UNCHANGED told
  BY <1>1 DEF Conclude
<1> HIDE DEF e
<1>4. ~Ended /\ ~InStage /\ Ended'
  BY DEF Conclude, Ended, InStage
<1>5. Follows(e, IF InStage THEN stage ELSE 0, stage)
  BY <1>2, <1>4 DEF Follows
<1>6. queue' \in Seq(Event) /\ Len(queue') <= MaxQueue /\ Len(queue') > 0
      /\ queue'[Len(queue')] = e
      /\ (phase' = "listening" => Legal(queue', running', last'))
  BY <1>2, <1>3, <1>4, <1>5, PutStep
<1>7. QueueOK'
  <2>1. (Len(queue') + 1) - 1 = Len(queue') /\ Len(queue') + 1 > 1
    BY <1>6, LenProperties
  <2> QED BY <1>2, <1>4, <1>6, <2>1 DEF QueueOK, QueueEnd
<1>8. ThreadOK'
  BY DEF Conclude, IInv, ThreadOK
<1> QED BY <1>6, <1>7, <1>8, ThreadKeeps DEF Conclude, IInv, TypeOK

LEMMA SetStopKeeps == IInv /\ SetStop => IInv'
<1> SUFFICES ASSUME IInv, SetStop PROVE IInv'
  OBVIOUS
<1>1. Ended /\ Ended' /\ UNCHANGED <<queue, told>>
  BY DEF SetStop, Ended
<1>2. QueueOK'
  BY <1>1 DEF IInv, QueueOK, QueueEnd, told
<1>3. ThreadOK'
  BY DEF SetStop, IInv, ThreadOK
<1> QED BY <1>1, <1>2, <1>3, ThreadKeeps DEF SetStop, IInv, TypeOK

LEMMA CheckLoopKeeps == IInv /\ CheckLoop => IInv'
<1> SUFFICES ASSUME IInv, CheckLoop PROVE IInv'
  OBVIOUS
<1>1. UNCHANGED <<queue, stop, thread, stage, validated, told>>
  BY DEF CheckLoop
<1>2. phase = "listening"
  BY DEF CheckLoop, IInv, GeneratorOK
<1>3. generator' \in {"check again", "get"} /\ (generator' = "check again" => stop)
  <2>1. CASE generator = "check"
    BY <2>1 DEF CheckLoop, IInv, TypeOK
  <2>2. CASE generator = "check again"
    <3>1. Ended
      BY <2>2 DEF IInv, GeneratorOK, ThreadOK, Ended
    <3>2. queue # <<>>
      <4>1. Len(queue) + 1 > 1
        BY <1>2, <3>1 DEF IInv, QueueOK, QueueEnd
      <4> QED BY <4>1, EmptySeq
    <3> QED BY <2>2, <3>2 DEF CheckLoop
  <2> QED BY <2>1, <2>2 DEF CheckLoop
<1>4. GeneratorOK'
  BY <1>1, <1>2, <1>3 DEF GeneratorOK, told
<1>5. QueueOK' /\ ThreadOK' /\ ToldOK'
  BY <1>1 DEF IInv, QueueOK, QueueEnd, ThreadOK, ToldOK, Ended, InStage, told
<1>6. TypeOK'
  BY <1>1, <1>3 DEF IInv, TypeOK, told
<1> QED BY <1>4, <1>5, <1>6 DEF IInv

-----------------------------------------------------------------------------
(* What reading an event means, for the invariant and for the promise *)

LEMMA HeadFacts ==
    ASSUME IInv, generator = "get", queue # <<>>
    PROVE  /\ phase = "listening" /\ Head(queue) = queue[1] /\ Head(queue) \in Event
           /\ Len(queue) \in Nat \ {0}
           /\ Follows(Head(queue), running, last)
<1>1. phase = "listening"
  BY DEF IInv, GeneratorOK
<1>2. queue \in Seq(Event)
  BY DEF IInv, TypeOK
<1>3. Head(queue) = queue[1] /\ Head(queue) \in Event /\ Len(queue) \in Nat \ {0}
  BY <1>2, HeadTailProperties, LenProperties, EmptySeq, ElementOfSeq
<1>4. Follows(queue[1], Open(queue, running, 1), Before(queue, last, 1))
  BY <1>1, <1>3 DEF IInv, QueueOK, Legal
<1> QED BY <1>1, <1>3, <1>4 DEF Open, Before

LEMMA GetEventKeeps == IInv /\ GetEvent => IInv'
<1> SUFFICES ASSUME IInv, GetEvent PROVE IInv'
  OBVIOUS
<1> DEFINE e == Head(queue)
<1>1. /\ phase = "listening" /\ e = queue[1] /\ e \in Event
      /\ Len(queue) \in Nat \ {0} /\ Follows(e, running, last)
  BY HeadFacts DEF GetEvent
<1>2. /\ queue \in Seq(Event) /\ queue' = Tail(queue) /\ queue # <<>>
      /\ queue' \in Seq(Event) /\ Len(queue') = Len(queue) - 1
      /\ \A i \in 1..Len(queue') : queue'[i] = queue[i + 1]
  BY <1>1, HeadTailProperties DEF GetEvent, IInv, TypeOK
<1>3. UNCHANGED <<stop, thread, stage, validated>>
  BY DEF GetEvent
<1>4. e.stage \in 0..StageCount /\ Len(queue') <= MaxQueue
  BY <1>1, <1>2, EventFacts, ConstantFacts, Types DEF IInv
<1>5. generator' = IF IsFinal(e) THEN "returned" ELSE "check"
  BY DEF GetEvent
<1>6. ThreadOK'
  BY <1>3 DEF IInv, ThreadOK
<1>7. CASE IsFinal(e)
  <2>1. running' = 0 /\ last' = last /\ phase' = "closed"
    <3>1. e.status # "started" /\ Final("fatal").event # "stage"
      BY <1>1, <1>7, EventFacts DEF Final
    <3>2. CASE Read(e)
      BY <1>7, <3>1, <3>2 DEF Read, IsFinal
    <3>3. CASE Read(Final("fatal"))
      BY <3>1, <3>3 DEF Read, IsFinal, Final
    <3> QED BY <3>2, <3>3 DEF GetEvent
  <2>2. TypeOK'
    <3>1. /\ running' \in 0..StageCount /\ last' \in 0..StageCount
          /\ phase' \in {"listening", "closed", "gone"}
      BY <1>4, <1>7, <2>1, Types, ConstantFacts DEF IInv
    <3> QED BY <1>2, <1>3, <1>4, <1>5, <3>1 DEF IInv, TypeOK
  <2>3. GeneratorOK' /\ ToldOK' /\ QueueOK'
    BY <1>5, <1>7, <2>1 DEF GeneratorOK, ToldOK, QueueOK
  <2> QED BY <1>6, <2>2, <2>3 DEF IInv
<1>8. CASE ~IsFinal(e)
  <2>0. e.event = "stage"
    BY <1>1, <1>8, EventFacts
  <2>1. Read(e)
    BY <1>8, <2>0 DEF GetEvent
  <2>2. /\ phase' = "listening"
        /\ running' = (IF e.status = "started" THEN e.stage ELSE 0)
        /\ last' = (IF e.status = "started" THEN e.stage ELSE last)
    BY <1>1, <1>8, <2>0, <2>1 DEF Read
  <2>3. /\ Legal(queue', running', last')
        /\ Open(queue', running', Len(queue') + 1) = Open(queue, running, Len(queue) + 1)
        /\ Before(queue', last', Len(queue') + 1) = Before(queue, last, Len(queue) + 1)
    <3>1. /\ Legal(queue, running, last) /\ running \in 0..StageCount
          /\ last \in 0..StageCount /\ (running # 0 => running = last)
      BY <1>1 DEF IInv, QueueOK, TypeOK, ToldOK
    <3> QED BY <1>1, <1>2, <1>8, <2>2, <3>1, TakeLegal
  <2>4. QueueEnd'
    <3>1. QueueEnd
      BY <1>1 DEF IInv, QueueOK
    <3>2. CASE ~Ended
      <4>1. NoFinal(queue')
        BY <1>2, <3>1, <3>2 DEF QueueEnd, NoFinal
      <4> QED BY <1>3, <2>3, <3>1, <3>2, <4>1 DEF QueueEnd, Ended, InStage
    <3>3. CASE Ended
      <4>1. IsFinal(queue[Len(queue)])
        <5>1. (Len(queue) + 1) - 1 = Len(queue)
          BY <1>1
        <5> QED BY <3>1, <3>3, <5>1 DEF QueueEnd
      <4>2. Len(queue) # 1
        BY <1>1, <1>8, <4>1
      <4>3. Len(queue') \in 1..Len(queue') /\ Len(queue') + 1 = Len(queue)
        BY <1>1, <1>2, <4>2
      <4>4. /\ IsFinal(queue'[Len(queue')]) /\ (Len(queue') + 1) - 1 = Len(queue')
            /\ Len(queue') + 1 > 1
        BY <1>1, <1>2, <4>1, <4>3
      <4> QED BY <1>3, <3>3, <4>4 DEF QueueEnd, Ended
    <3> QED BY <3>2, <3>3
  <2>5. TypeOK'
    <3>1. /\ running' \in 0..StageCount /\ last' \in 0..StageCount
          /\ phase' \in {"listening", "closed", "gone"}
      BY <1>4, <1>8, <2>2, Types, ConstantFacts DEF IInv
    <3> QED BY <1>2, <1>3, <1>4, <1>5, <3>1 DEF IInv, TypeOK
  <2>6. GeneratorOK' /\ ToldOK'
    BY <1>5, <1>8, <2>2 DEF GeneratorOK, ToldOK
  <2> QED BY <1>6, <2>3, <2>4, <2>5, <2>6 DEF IInv, QueueOK
<1> QED BY <1>7, <1>8

LEMMA StepKeeps == IInv /\ [Next]_vars => IInv'
<1> SUFFICES ASSUME IInv, [Next]_vars PROVE IInv'
  OBVIOUS
<1>1. CASE ThreadStep
  BY <1>1, StartSqlKeeps, EndSqlKeeps, LeaveSqlKeeps, StartSparkKeeps, EndSparkKeeps,
     ConcludeKeeps, SetStopKeeps DEF ThreadStep
<1>2. CASE CheckLoop
  BY <1>2, CheckLoopKeeps
<1>3. CASE GetEvent
  BY <1>3, GetEventKeeps
<1>4. CASE Heartbeat
  <2>1. QueueOK' /\ ThreadOK' /\ ToldOK'
    BY <1>4 DEF Heartbeat, IInv, QueueOK, QueueEnd, ThreadOK, ToldOK, Ended, InStage, told
  <2>2. GeneratorOK' /\ TypeOK'
    BY <1>4 DEF Heartbeat, IInv, GeneratorOK, TypeOK, told
  <2> QED BY <2>1, <2>2 DEF IInv
<1>5. CASE Disconnect
  <2>1. QueueOK' /\ ThreadOK' /\ ToldOK'
    BY <1>5 DEF Disconnect, IInv, QueueOK, ThreadOK, ToldOK
  <2>2. GeneratorOK' /\ TypeOK'
    BY <1>5 DEF Disconnect, IInv, GeneratorOK, TypeOK
  <2> QED BY <2>1, <2>2 DEF IInv
<1>6. CASE UNCHANGED vars
  BY <1>6 DEF vars, told, IInv, TypeOK, ThreadOK, GeneratorOK, ToldOK, QueueOK, QueueEnd,
     Ended, InStage
<1> QED BY <1>1, <1>2, <1>3, <1>4, <1>5, <1>6 DEF Next, GeneratorStep

LEMMA InvariantHolds == Spec => []IInv
BY InitOK, StepKeeps, PTL DEF Spec

\* Every variable keeps its type, for any number of SQL stages.
THEOREM TypeCorrect == Spec => []TypeOK
<1>1. IInv => TypeOK
  BY DEF IInv
<1> QED BY <1>1, InvariantHolds, PTL

-----------------------------------------------------------------------------
(* The queue has room *)

\* Two events for every stage so far, one while it runs, and a final one.
Room == Len(queue) <= 2 * stage - (IF InStage THEN 1 ELSE 0) + (IF Ended THEN 1 ELSE 0)

LEMMA PutLength ==
    ASSUME IInv, NEW e, Put(e) PROVE Len(queue') = Len(queue) + 1
<1>1. queue \in Seq(Event \cup {e}) /\ queue' = Append(queue, e)
  BY Types DEF IInv, Put
<1> QED BY <1>1, AppendProperties

LEMMA RoomKept == IInv /\ Room /\ [Next]_vars => Room'
<1> SUFFICES ASSUME IInv, Room, [Next]_vars PROVE Room'
  OBVIOUS
<1>1. Len(queue) \in Nat /\ stage \in Nat
  BY Types DEF IInv
<1>2. CASE StartSql
  <2>1. PICK s \in (stage + 1)..SqlStages : Put(Tell(s, "started")) /\ stage' = s
    BY <1>2 DEF StartSql
  <2>2. Len(queue') = Len(queue) + 1
    BY <2>1, PutLength
  <2>3. stage' >= stage + 1 /\ stage' \in Nat
    BY <1>1, <2>1, ConstantFacts
  <2>4. ~Ended /\ ~InStage /\ ~Ended' /\ InStage'
    BY <1>2 DEF StartSql, Ended, InStage
  <2> QED BY <1>1, <2>2, <2>3, <2>4 DEF Room
<1>3. CASE EndSql
  <2>1. Len(queue') = Len(queue) + 1 /\ stage' = stage
    BY <1>3, PutLength DEF EndSql
  <2>2. ~Ended /\ InStage /\ ~Ended' /\ ~InStage'
    BY <1>3 DEF EndSql, Ended, InStage
  <2> QED BY <1>1, <2>1, <2>2 DEF Room
<1>4. CASE LeaveSql
  <2>1. queue' = queue /\ ~Ended /\ ~InStage /\ ~Ended' /\ ~InStage'
    BY <1>4 DEF LeaveSql, Ended, InStage
  <2>2. stage' >= stage /\ stage' \in Nat
    <3>1. stage <= SqlStages
      BY <1>4 DEF LeaveSql, IInv, ThreadOK
    <3> QED BY <1>1, <1>4, <3>1, ConstantFacts DEF LeaveSql
  <2> QED BY <1>1, <2>1, <2>2 DEF Room
<1>5. CASE StartSpark
  <2>1. Len(queue') = Len(queue) + 1 /\ stage' = stage + 1
    BY <1>5, PutLength DEF StartSpark
  <2>2. ~Ended /\ ~InStage /\ ~Ended' /\ InStage'
    BY <1>5 DEF StartSpark, Ended, InStage
  <2> QED BY <1>1, <2>1, <2>2 DEF Room
<1>6. CASE EndSpark
  <2>1. Len(queue') = Len(queue) + 1 /\ stage' = stage
    BY <1>6, PutLength DEF EndSpark
  <2>2. ~Ended /\ InStage /\ ~Ended' /\ ~InStage'
    BY <1>6 DEF EndSpark, Ended, InStage
  <2> QED BY <1>1, <2>1, <2>2 DEF Room
<1>7. CASE Conclude
  <2>1. Len(queue') = Len(queue) + 1 /\ stage' = stage
    BY <1>7, PutLength DEF Conclude
  <2>2. ~Ended /\ ~InStage /\ Ended' /\ ~InStage'
    BY <1>7 DEF Conclude, Ended, InStage
  <2> QED BY <1>1, <2>1, <2>2 DEF Room
<1>8. CASE SetStop
  BY <1>8 DEF SetStop, Room, Ended, InStage
<1>9. CASE GetEvent
  <2>1. Len(queue') = Len(queue) - 1 /\ UNCHANGED <<stage, thread>>
    <3>1. queue \in Seq(Event) /\ queue # <<>> /\ queue' = Tail(queue)
      BY <1>9, Types DEF GetEvent, IInv
    <3> QED BY <1>9, <3>1, HeadTailProperties DEF GetEvent
  <2>2. Len(queue) - 1 <= 2 * stage - (IF InStage THEN 1 ELSE 0) + (IF Ended THEN 1 ELSE 0)
    BY <1>1 DEF Room
  <2> QED BY <2>1, <2>2 DEF Room, Ended, InStage
<1>10. CASE CheckLoop \/ Heartbeat \/ Disconnect
  BY <1>10 DEF CheckLoop, Heartbeat, Disconnect, Room, Ended, InStage
<1>11. CASE UNCHANGED vars
  BY <1>11 DEF vars, Room, Ended, InStage
<1> QED BY <1>2, <1>3, <1>4, <1>5, <1>6, <1>7, <1>8, <1>9, <1>10, <1>11
    DEF Next, ThreadStep, GeneratorStep

\* While the thread has an event to put there is room for it, whether the
\* client reads or is gone: 500 is more than twice the fifteen stages and one.
THEOREM NeverWaits == Spec => []PutNeverWaits
<1>1. Init => Room
  BY DEF Init, Room, Ended, InStage
<1>2. IInv /\ Room => PutNeverWaits
  <2> SUFFICES ASSUME IInv, Room, ~Ended PROVE Len(queue) < MaxQueue
    BY DEF PutNeverWaits, Ended
  <2>1. MaxQueue >= 2 * StageCount + 1 /\ MaxQueue \in Nat
    BY StreamAssumption DEF StreamAssumption
  <2>2. Len(queue) \in Nat /\ stage \in Nat /\ stage <= StageCount
    BY Types DEF IInv
  <2>3. Len(queue) <= 2 * stage
    BY <2>2 DEF Room
  <2> QED BY <2>1, <2>2, <2>3, ConstantFacts
<1> QED BY <1>1, <1>2, InvariantHolds, RoomKept, PTL DEF Spec

\* The generator returns only after a final line, whenever the thread ends.
THEOREM AlwaysEndsWithFinalLine == Spec => []EndsWithFinalLine
<1>1. IInv => EndsWithFinalLine
  BY DEF IInv, GeneratorOK, EndsWithFinalLine
<1> QED BY <1>1, InvariantHolds, PTL

\* A step of the stream is a step of the promise, or the client sees nothing.
LEMMA StepPromised == IInv /\ [Next]_vars => [KeepsPromise!PromiseNext]_(KeepsPromise!promise)
<1> SUFFICES ASSUME IInv, [Next]_vars
             PROVE  KeepsPromise!PromiseNext \/ UNCHANGED told
  BY DEF told, KeepsPromise!promise
<1>1. CASE GetEvent
  <2> DEFINE e == Head(queue)
  <2>1. phase = "listening" /\ e \in Event /\ Follows(e, running, last)
    BY <1>1, HeadFacts DEF GetEvent
  <2>2. /\ IsFinal(e) => e.stage = 0 /\ e.status # "started"
        /\ ~IsFinal(e) => e.stage \in 1..StageCount /\ e.event = "stage"
    BY <2>1, EventFacts
  <2> HIDE DEF e
  <2>3. Read(e) \/ (IsFinal(e) /\ Read(Final("fatal")))
    BY <1>1 DEF GetEvent, IsFinal, e
  <2>4. CASE IsFinal(e)
    <3>1. running = 0
      BY <2>2, <2>4, <2>1 DEF Follows
    <3>2. CASE Read(e)
      BY <2>1, <2>2, <2>4, <3>1, <3>2 DEF Read, KeepsPromise!PromiseNext, KeepsPromise!Close
    <3>3. CASE Read(Final("fatal"))
      BY <2>1, <3>1, <3>3 DEF Read, Final, IsFinal, KeepsPromise!PromiseNext, KeepsPromise!Close
    <3> QED BY <2>3, <3>2, <3>3
  <2>5. CASE ~IsFinal(e) /\ e.status = "started"
    <3>1. /\ running = 0 /\ e.stage > last
          /\ running' = e.stage /\ last' = e.stage /\ phase' = phase
      BY <2>1, <2>2, <2>3, <2>5 DEF Follows, Read
    <3>2. last \in Nat /\ e.stage \in 1..StageCount /\ StageCount \in Nat
      BY <2>2, <2>5, Types, ConstantFacts DEF IInv
    <3>3. e.stage \in (last + 1)..StageCount
      BY <3>1, <3>2
    <3>4. KeepsPromise!Start(e.stage)
      BY <2>1, <3>1, <3>3 DEF KeepsPromise!Start
    <3> QED BY <3>2, <3>4 DEF KeepsPromise!PromiseNext
  <2>6. CASE ~IsFinal(e) /\ e.status # "started"
    <3>1. running = e.stage /\ running' = 0 /\ last' = last /\ phase' = phase
      BY <2>1, <2>2, <2>3, <2>6 DEF Follows, Read
    <3>2. running # 0
      BY <2>2, <2>6, <3>1, ConstantFacts DEF StageCount
    <3> QED BY <2>1, <3>1, <3>2 DEF KeepsPromise!PromiseNext, KeepsPromise!End
  <2> QED BY <2>4, <2>5, <2>6
<1>2. CASE Disconnect
  <2>1. phase = "listening"
    BY <1>2 DEF Disconnect, IInv, GeneratorOK, TypeOK
  <2> QED BY <1>2, <2>1 DEF Disconnect, KeepsPromise!PromiseNext, KeepsPromise!Leave
<1>3. CASE ThreadStep
  BY <1>3 DEF ThreadStep, StartSql, EndSql, LeaveSql, StartSpark, EndSpark, Conclude, SetStop, told
<1>4. CASE CheckLoop \/ Heartbeat
  BY <1>4 DEF CheckLoop, Heartbeat
<1>5. CASE UNCHANGED vars
  BY <1>5 DEF vars
<1> QED BY <1>1, <1>2, <1>3, <1>4, <1>5 DEF Next, GeneratorStep

\* The client is told stages in order, each ended before the next begins, and
\* nothing after the final line: for any number of stages, with a client that
\* leaves at any time.
THEOREM PromiseKept == Spec => ImplementsPromise
<1>1. Init => KeepsPromise!PromiseInit
  BY DEF Init, KeepsPromise!PromiseInit
<1> QED BY <1>1, InvariantHolds, StepPromised, PTL
    DEF Spec, ImplementsPromise, KeepsPromise!Promise
=============================================================================
