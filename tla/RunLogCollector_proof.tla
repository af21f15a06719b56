------------------------ MODULE RunLogCollector_proof ------------------------
(***************************************************************************)
(* Theorems about the run log collector, for any collectors, any size of   *)
(* the queue and any number of events.                                     *)
(***************************************************************************)
EXTENDS RunLogCollector, SequenceTheorems, TLAPS

\* The writer holds an event exactly while it writes.
HandIsHeld == \A c \in Collectors : writer[c] = "write" <=> hand[c] # None

\* A collector has a writer thread once it is created.
HasWriter == \A c \in Collectors : c \in created <=> writer[c] # "none"

\* A file that was written to in slot o + 1 is still a sequence.
LEMMA WriteAtType ==
    ASSUME NEW S, NEW f \in Seq(S), NEW o \in Nat, NEW e \in S, Hole \in S
    PROVE  WriteAt(f, o, e) \in Seq(S)
<1> DEFINE n == IF o < Len(f) THEN Len(f) ELSE o + 1
<1>1. n \in Nat
    BY LenProperties
<1>2. \A i \in 1..n : (IF i = o + 1 THEN e ELSE IF i \in DOMAIN f THEN f[i] ELSE Hole) \in S
    BY LenProperties, ElementOfSeq
<1>3. WriteAt(f, o, e) \in [1..n -> S]
    BY <1>2 DEF WriteAt
<1> QED  BY <1>1, <1>3, SeqDef

Inv == TypeOK /\ HandIsHeld /\ HasWriter

LEMMA InitInv == Init => Inv
<1> SUFFICES ASSUME Init PROVE Inv
    OBVIOUS
<1>1. \A c \in Collectors : queue[c] = <<>>
    BY DEF Init
<1>2. /\ <<>> \in Seq(Event) /\ <<>> \in Seq(Handled) /\ <<>> \in Seq(Event \cup {Hole})
      /\ Len(<<>>) <= MaxQueue
    BY EmptySeq, CollectorAssumption
<1>3. \A c \in Collectors : Len(queue[c]) <= MaxQueue
    BY <1>1, <1>2
<1>4. 0 \in 0..MaxEvents
    BY CollectorAssumption
<1> QED  BY <1>2, <1>3, <1>4 DEF Init, TypeOK, Inv, HandIsHeld, HasWriter

LEMMA NextInv == Inv /\ [Next]_vars => Inv'
<1> SUFFICES ASSUME Inv, [Next]_vars PROVE Inv'
    OBVIOUS
<1> USE CollectorAssumption DEF Inv, TypeOK, HandIsHeld, HasWriter
<1>1. ASSUME NEW c \in Collectors, NewCollector(c),
             UNCHANGED <<flushed, joined, due, status>>,
             lifespan' \in {"serving", lifespan}
      PROVE  Inv'
  <2>1. <<>> \in Seq(Event \cup {Hole})
      BY EmptySeq
  <2> QED  BY <1>1, <2>1 DEF NewCollector
<1>2. CASE Startup
    BY <1>2, <1>1 DEF Startup
<1>3. ASSUME NEW c \in Collectors, PipelineCall(c) PROVE Inv'
    BY <1>3, <1>1 DEF PipelineCall, shutdown
<1>4. ASSUME NEW c \in Collectors, Emit(c) PROVE Inv'
  <2>1. emitted + 1 \in Event /\ emitted' = emitted + 1 /\ emitted' \in 0..MaxEvents
      BY <1>4 DEF Emit, Event
  <2>2. /\ queue' \in [Collectors -> Seq(Event)]
        /\ accepted' \in [Collectors -> Seq(Event)]
        /\ \A d \in Collectors : Len(queue'[d]) <= MaxQueue
        /\ dropped' \in [Collectors -> Nat]
    <3>1. CASE dropped' = [dropped EXCEPT ![c] = @ + 1] /\ UNCHANGED <<queue, accepted>>
      <4>1. queue' = queue /\ accepted' = accepted /\ dropped[c] + 1 \in Nat
          BY <3>1
      <4> QED  BY <3>1, <4>1
    <3>2. CASE /\ Len(queue[c]) < MaxQueue
               /\ queue' = [queue EXCEPT ![c] = Append(@, emitted + 1)]
               /\ accepted' = [accepted EXCEPT ![c] = Append(@, emitted + 1)]
               /\ UNCHANGED dropped
      <4>1. Append(queue[c], emitted + 1) \in Seq(Event)
            /\ Len(Append(queue[c], emitted + 1)) = Len(queue[c]) + 1
          BY <2>1, AppendProperties
      <4>2. Append(accepted[c], emitted + 1) \in Seq(Event)
          BY <2>1, AppendProperties
      <4>3. Len(queue[c]) + 1 <= MaxQueue
          BY <3>2, LenProperties
      <4> QED  BY <3>2, <4>1, <4>2, <4>3
    <3> QED  BY <1>4, <3>1, <3>2 DEF Emit
  <2>3. UNCHANGED <<created, hand, writer, running, open, offset, handled, jsonl, shutdown>>
      BY <1>4 DEF Emit
  <2> QED  BY <2>1, <2>2, <2>3 DEF shutdown
<1>5. ASSUME NEW c \in Collectors, WriterCheck(c) PROVE Inv'
    BY <1>5 DEF WriterCheck, shutdown
<1>6. ASSUME NEW c \in Collectors, WriterGet(c) PROVE Inv'
  <2>1. UNCHANGED <<created, running, open, offset, dropped, accepted, handled,
                    jsonl, emitted, shutdown>> /\ writer[c] = "get"
      BY <1>6 DEF WriterGet
  <2>2. CASE writer' = [writer EXCEPT ![c] = "check"] /\ UNCHANGED <<hand, queue>>
      BY <2>1, <2>2 DEF shutdown
  <2>3. CASE /\ queue[c] # <<>>
             /\ hand' = [hand EXCEPT ![c] = Head(queue[c])]
             /\ queue' = [queue EXCEPT ![c] = Tail(@)]
             /\ writer' = [writer EXCEPT ![c] = "write"]
    <3>1. Head(queue[c]) \in Event /\ Tail(queue[c]) \in Seq(Event)
          /\ Len(Tail(queue[c])) = Len(queue[c]) - 1
        BY <2>3, HeadTailProperties
    <3>2. Len(Tail(queue[c])) <= MaxQueue /\ Head(queue[c]) # None
        BY <3>1, LenProperties DEF Event
    <3> QED  BY <2>1, <2>3, <3>1, <3>2 DEF shutdown
  <2> QED  BY <1>6, <2>2, <2>3 DEF WriterGet
<1>7. ASSUME NEW c \in Collectors, NEW ok \in BOOLEAN, Finish(c, ok), writer[c] = "write"
      PROVE  /\ handled' \in [Collectors -> Seq(Handled)]
             /\ hand' \in [Collectors -> Event \cup {None}]
             /\ writer' \in [Collectors -> {"none", "check", "get", "write", "exited"}]
             /\ HandIsHeld' /\ (created' = created => HasWriter')
  <2>1. [event |-> hand[c], ok |-> ok] \in Handled
      BY <1>7 DEF Handled
  <2>2. Append(handled[c], [event |-> hand[c], ok |-> ok]) \in Seq(Handled)
      BY <2>1, AppendProperties
  <2> QED  BY <1>7, <2>2 DEF Finish
<1>8. ASSUME NEW c \in Collectors, WriterWrite(c) PROVE Inv'
  <2>1. WriteAt(jsonl, offset[c], hand[c]) \in Seq(Event \cup {Hole})
      BY <1>8, WriteAtType, Hole \in Event \cup {Hole}, hand[c] \in Event \cup {Hole} DEF WriterWrite
  <2>2. /\ handled' \in [Collectors -> Seq(Handled)]
        /\ hand' \in [Collectors -> Event \cup {None}]
        /\ writer' \in [Collectors -> {"none", "check", "get", "write", "exited"}]
        /\ HandIsHeld' /\ HasWriter'
      BY <1>8, <1>7 DEF WriterWrite
  <2>3. jsonl' \in Seq(Event \cup {Hole}) /\ offset' \in [Collectors -> Nat]
      BY <1>8, <2>1 DEF WriterWrite
  <2> QED  BY <1>8, <2>2, <2>3 DEF WriterWrite, shutdown
<1>9. ASSUME NEW c \in Collectors, WriterFails(c) PROVE Inv'
    BY <1>9, <1>7 DEF WriterFails, shutdown
<1>10. CASE Shutdown
    BY <1>10 DEF Shutdown, perCollector
<1>11. CASE Flush
    BY <1>11 DEF Flush, perCollector
<1>12. CASE FlushTimeout
    BY <1>12 DEF FlushTimeout, perCollector
<1>13. CASE CloseStops
    BY <1>13, LenProperties DEF CloseStops
<1>14. CASE CloseFiles
    BY <1>14 DEF CloseFiles
<1>15. CASE PublishStatus
  <2>1. status' \in [dropped_event_count : Nat, flush_completed : BOOLEAN]
      BY <1>15, CollectorAssumption DEF PublishStatus
  <2> QED  BY <1>15, <2>1 DEF PublishStatus, perCollector
<1>16. CASE UNCHANGED vars
    BY <1>16 DEF vars, perCollector, shutdown
<1> QED
    BY <1>2, <1>3, <1>4, <1>5, <1>6, <1>8, <1>9, <1>10, <1>11, <1>12, <1>13, <1>14,
       <1>15, <1>16 DEF Next, WriterStep, LifespanStep

\* Every collector, queue and file stays within its type.
THEOREM TypeCorrect == Spec => []TypeOK
<1>1. Inv => TypeOK
    BY DEF Inv
<1> QED  BY <1>1, InitInv, NextInv, PTL DEF Spec

-----------------------------------------------------------------------------
(* The order of events *)

\* The events of a log of handled events.
EventsOf(h) == [i \in DOMAIN h |-> h[i].event]

LEMMA EventsOfType ==
    ASSUME NEW h \in Seq(Handled)
    PROVE  EventsOf(h) \in Seq(Event) /\ Len(EventsOf(h)) = Len(h)
<1>1. Len(h) \in Nat /\ DOMAIN h = 1..Len(h)
    BY LenProperties
<1>2. ASSUME NEW i \in 1..Len(h) PROVE h[i].event \in Event
  <2>1. h[i] \in Handled
      BY ElementOfSeq
  <2> QED  BY <2>1 DEF Handled
<1>3. EventsOf(h) \in [1..Len(h) -> Event]
    BY <1>1, <1>2 DEF EventsOf
<1>4. EventsOf(h) \in Seq(Event)
    BY <1>1, <1>3, SeqDef
<1>5. Len(EventsOf(h)) = Len(h)
    BY <1>1, <1>3, <1>4, LenProperties
<1> QED  BY <1>4, <1>5

LEMMA EventsOfAppend ==
    ASSUME NEW h \in Seq(Handled), NEW r \in Handled
    PROVE  EventsOf(Append(h, r)) = Append(EventsOf(h), r.event)
<1> DEFINE g == Append(h, r)
<1> DEFINE k == Append(EventsOf(h), r.event)
<1>1. g \in Seq(Handled) /\ Len(g) = Len(h) + 1 /\ r.event \in Event /\ Len(h) \in Nat
    BY AppendProperties, LenProperties DEF Handled
<1>2. k \in Seq(Event) /\ Len(k) = Len(h) + 1
    BY <1>1, EventsOfType, AppendProperties
<1>3. EventsOf(g) \in Seq(Event) /\ Len(EventsOf(g)) = Len(h) + 1
    BY <1>1, EventsOfType
<1>4. \A i \in 1..Len(h) + 1 : EventsOf(g)[i] = k[i]
  <2> SUFFICES ASSUME NEW i \in 1..Len(h) + 1 PROVE EventsOf(g)[i] = k[i]
      OBVIOUS
  <2>1. EventsOf(g)[i] = g[i].event
      BY <1>1, LenProperties DEF EventsOf
  <2>2. CASE i \in 1..Len(h)
    <3>1. g[i] = h[i]
        BY <2>2, AppendProperties
    <3>2. k[i] = EventsOf(h)[i]
        BY <2>2, <1>1, EventsOfType, AppendProperties
    <3>3. EventsOf(h)[i] = h[i].event
        BY <2>2, LenProperties DEF EventsOf
    <3> QED  BY <2>1, <3>1, <3>2, <3>3
  <2>3. CASE i = Len(h) + 1
    <3>1. g[i] = r
        BY <2>3, AppendProperties
    <3>2. k[i] = r.event
        BY <2>3, <1>1, EventsOfType, AppendProperties
    <3> QED  BY <2>1, <3>1, <3>2
  <2>4. i \in 1..Len(h) \/ i = Len(h) + 1
      BY <1>1
  <2> QED  BY <2>2, <2>3, <2>4
<1> HIDE DEF g, k
<1>5. EventsOf(g) = k
    BY <1>2, <1>3, <1>4, SeqEqual
<1> QED  BY <1>5 DEF g, k

\* An element put at the end of the last part is put at the end of the whole.
LEMMA AppendToLast ==
    ASSUME NEW S, NEW a \in Seq(S), NEW b \in Seq(S), NEW q \in Seq(S), NEW e \in S
    PROVE  a \o b \o Append(q, e) = Append(a \o b \o q, e)
<1>1. <<e>> \in Seq(S) /\ a \o b \in Seq(S) /\ a \o b \o q \in Seq(S)
    BY ConcatProperties
<1>2. Append(q, e) = q \o <<e>> /\ Append(a \o b \o q, e) = a \o b \o q \o <<e>>
    BY <1>1, AppendIsConcat
<1> QED  BY <1>1, <1>2, ConcatAssociative

\* Taking the first of the queue into the empty hand changes no order.
LEMMA TakeInHand ==
    ASSUME NEW S, NEW a \in Seq(S), NEW q \in Seq(S), q # <<>>
    PROVE  a \o <<>> \o q = a \o <<Head(q)>> \o Tail(q)
<1>1. Head(q) \in S /\ Tail(q) \in Seq(S) /\ <<Head(q)>> \in Seq(S)
    BY HeadTailProperties
<1>2. q = <<Head(q)>> \o Tail(q)
  <2> DEFINE t == <<Head(q)>> \o Tail(q)
  <2>1. Len(Tail(q)) = Len(q) - 1 /\ Len(q) \in Nat /\ Len(<<Head(q)>>) = 1 /\ q # <<>>
      BY HeadTailProperties, LenProperties
  <2>2. t \in Seq(S) /\ Len(t) = Len(q)
      BY <1>1, <2>1, ConcatProperties
  <2>3. \A i \in 1..Len(q) : t[i] = IF i <= 1 THEN <<Head(q)>>[i] ELSE Tail(q)[i - 1]
      BY <1>1, <2>1, ConcatProperties
  <2>4. \A i \in 1..Len(q) : i > 1 => Tail(q)[i - 1] = q[i]
      BY <2>1, HeadTailProperties
  <2>5. <<Head(q)>>[1] = q[1]
      OBVIOUS
  <2>6. \A i \in 1..Len(q) : q[i] = t[i]
      BY <2>1, <2>3, <2>4, <2>5
  <2> QED  BY <2>2, <2>6, SeqEqual
<1>3. a \o <<>> = a
    BY ConcatEmptySeq
<1> QED  BY <1>1, <1>2, <1>3, ConcatAssociative

LEMMA HandledEventsType ==
    ASSUME TypeOK, NEW c \in Collectors
    PROVE  /\ HandledEvents(c) = EventsOf(handled[c])
           /\ HandledEvents(c) \in Seq(Event)
<1>1. handled[c] \in Seq(Handled)
    BY DEF TypeOK
<1> QED  BY <1>1, EventsOfType DEF HandledEvents, EventsOf

LEMMA InHandType ==
    ASSUME TypeOK, NEW c \in Collectors
    PROVE  InHand(c) \in Seq(Event)
<1>1. CASE hand[c] = None
    BY <1>1, EmptySeq DEF InHand
<1>2. CASE hand[c] # None
  <2>1. hand[c] \in Event
      BY <1>2 DEF TypeOK
  <2> QED  BY <1>2, <2>1 DEF InHand
<1> QED  BY <1>1, <1>2

LEMMA NextInOrder == Inv /\ Inv' /\ AcceptedOnceInOrder /\ [Next]_vars => AcceptedOnceInOrder'
<1> SUFFICES ASSUME Inv, Inv', AcceptedOnceInOrder, [Next]_vars, NEW d \in Collectors
             PROVE  accepted'[d] = HandledEvents(d)' \o InHand(d)' \o queue'[d]
    BY DEF AcceptedOnceInOrder
<1>0. /\ TypeOK /\ TypeOK'
      /\ accepted[d] = HandledEvents(d) \o InHand(d) \o queue[d]
    BY DEF Inv, AcceptedOnceInOrder
<1>1. ASSUME UNCHANGED <<queue, hand, accepted, handled>>
      PROVE  accepted'[d] = HandledEvents(d)' \o InHand(d)' \o queue'[d]
    BY <1>0, <1>1 DEF HandledEvents, InHand
<1>2. ASSUME NEW c \in Collectors, Emit(c)
      PROVE  accepted'[d] = HandledEvents(d)' \o InHand(d)' \o queue'[d]
  <2>1. UNCHANGED <<hand, handled>> /\ emitted + 1 \in Event
      BY <1>0, <1>2, CollectorAssumption DEF Emit, Event, TypeOK
  <2>2. HandledEvents(d)' = HandledEvents(d) /\ InHand(d)' = InHand(d)
      BY <2>1 DEF HandledEvents, InHand
  <2>3. CASE UNCHANGED <<queue, accepted>>
      BY <2>1, <2>3, <1>1
  <2>4. CASE /\ queue' = [queue EXCEPT ![c] = Append(@, emitted + 1)]
             /\ accepted' = [accepted EXCEPT ![c] = Append(@, emitted + 1)]
    <3>1. CASE c = d
      <4>1. queue'[d] = Append(queue[d], emitted + 1)
            /\ accepted'[d] = Append(accepted[d], emitted + 1)
          BY <1>0, <2>4, <3>1 DEF TypeOK
      <4>2. queue[d] \in Seq(Event)
          BY <1>0 DEF TypeOK
      <4>3. HandledEvents(d) \in Seq(Event) /\ InHand(d) \in Seq(Event)
          BY <1>0, HandledEventsType, InHandType
      <4> DEFINE a == HandledEvents(d)
      <4> DEFINE b == InHand(d)
      <4> DEFINE q == queue[d]
      <4> DEFINE e == emitted + 1
      <4>4. a \in Seq(Event) /\ b \in Seq(Event) /\ q \in Seq(Event) /\ e \in Event
          BY <2>1, <4>2, <4>3
      <4> HIDE DEF a, b, q, e
      <4>5. a \o b \o Append(q, e) = Append(a \o b \o q, e)
          BY <4>4, AppendToLast
      <4> QED  BY <1>0, <2>2, <4>1, <4>5 DEF a, b, q, e
    <3>2. CASE c # d
      <4>1. queue'[d] = queue[d] /\ accepted'[d] = accepted[d]
          BY <1>0, <2>4, <3>2 DEF TypeOK
      <4> QED  BY <1>0, <2>2, <4>1
    <3> QED  BY <3>1, <3>2
  <2> QED  BY <1>2, <2>3, <2>4 DEF Emit
<1>3. ASSUME NEW c \in Collectors, WriterGet(c)
      PROVE  accepted'[d] = HandledEvents(d)' \o InHand(d)' \o queue'[d]
  <2>1. UNCHANGED <<accepted, handled>> /\ writer[c] = "get"
      BY <1>3 DEF WriterGet
  <2>2. CASE UNCHANGED <<hand, queue>>
      BY <2>1, <2>2, <1>1
  <2>3. CASE /\ queue[c] # <<>>
             /\ hand' = [hand EXCEPT ![c] = Head(queue[c])]
             /\ queue' = [queue EXCEPT ![c] = Tail(@)]
    <3>1. HandledEvents(d)' = HandledEvents(d) /\ accepted'[d] = accepted[d]
        BY <2>1 DEF HandledEvents
    <3>2. CASE c = d
      <4>1. queue[d] \in Seq(Event) /\ Head(queue[d]) \in Event
            /\ hand'[d] = Head(queue[d]) /\ queue'[d] = Tail(queue[d])
          BY <1>0, <2>3, <3>2, HeadTailProperties DEF TypeOK
      <4>2. InHand(d) = <<>>
          BY <2>1, <3>2 DEF Inv, HandIsHeld, InHand
      <4>3. InHand(d)' = <<Head(queue[d])>>
          BY <4>1, CollectorAssumption DEF InHand, Event
      <4>4. HandledEvents(d) \in Seq(Event) /\ queue[d] # <<>>
          BY <1>0, <2>3, <3>2, HandledEventsType
      <4>5. HandledEvents(d) \o <<>> \o queue[d]
                = HandledEvents(d) \o <<Head(queue[d])>> \o Tail(queue[d])
          BY <4>1, <4>4, TakeInHand
      <4> QED  BY <1>0, <3>1, <4>1, <4>2, <4>3, <4>5
    <3>3. CASE c # d
      <4>1. hand'[d] = hand[d] /\ queue'[d] = queue[d]
          BY <1>0, <2>3, <3>3 DEF TypeOK
      <4> QED  BY <1>0, <3>1, <4>1 DEF InHand
    <3> QED  BY <3>2, <3>3
  <2> QED  BY <1>3, <2>2, <2>3 DEF WriterGet
<1>4. ASSUME NEW c \in Collectors, NEW ok \in BOOLEAN, writer[c] = "write", Finish(c, ok),
             UNCHANGED <<queue, accepted>>
      PROVE  accepted'[d] = HandledEvents(d)' \o InHand(d)' \o queue'[d]
  <2>1. CASE c # d
    <3>1. hand'[d] = hand[d] /\ handled'[d] = handled[d]
        BY <1>0, <1>4, <2>1 DEF Finish, TypeOK
    <3> QED  BY <1>0, <1>4, <3>1 DEF InHand, HandledEvents
  <2>2. CASE c = d
    <3>1. hand[d] \in Event /\ hand[d] # None
        BY <1>0, <1>4, <2>2 DEF Inv, HandIsHeld, TypeOK
    <3> DEFINE r == [event |-> hand[d], ok |-> ok]
    <3>2. r \in Handled /\ r.event = hand[d] /\ handled[d] \in Seq(Handled)
        BY <1>0, <3>1 DEF Handled, TypeOK
    <3>3. handled'[d] = Append(handled[d], r) /\ hand'[d] = None
        BY <1>0, <1>4, <2>2 DEF Finish, TypeOK
    <3>4. HandledEvents(d)' = EventsOf(Append(handled[d], r))
        BY <3>3 DEF HandledEvents, EventsOf
    <3> HIDE DEF r
    <3>5. HandledEvents(d)' = Append(HandledEvents(d), hand[d])
        BY <1>0, <3>2, <3>4, EventsOfAppend, HandledEventsType
    <3>6. InHand(d) = <<hand[d]>> /\ InHand(d)' = <<>>
        BY <3>1, <3>3 DEF InHand
    <3>7. HandledEvents(d)' = HandledEvents(d) \o InHand(d)
        BY <1>0, <3>1, <3>5, <3>6, HandledEventsType, AppendIsConcat
    <3>8. HandledEvents(d)' \in Seq(Event)
        BY <1>0, <3>1, <3>5, HandledEventsType, AppendProperties
    <3>9. HandledEvents(d)' \o InHand(d)' = HandledEvents(d)'
        BY <3>6, <3>8, ConcatEmptySeq
    <3> QED  BY <1>0, <1>4, <3>7, <3>9
  <2> QED  BY <2>1, <2>2
<1>5. ASSUME NEW c \in Collectors, NewCollector(c)
      PROVE  UNCHANGED <<queue, hand, accepted, handled>>
    BY <1>5 DEF NewCollector
<1>6. CASE Startup \/ \E c \in Collectors : PipelineCall(c)
    BY <1>1, <1>5, <1>6, CollectorAssumption DEF Startup, PipelineCall
<1>7. ASSUME NEW c \in Collectors, WriterStep(c)
      PROVE  accepted'[d] = HandledEvents(d)' \o InHand(d)' \o queue'[d]
  <2>1. CASE WriterCheck(c)
      BY <2>1, <1>1 DEF WriterCheck
  <2>2. CASE WriterWrite(c)
      BY <2>2, <1>4 DEF WriterWrite
  <2>3. CASE WriterFails(c)
      BY <2>3, <1>4 DEF WriterFails
  <2> QED  BY <1>3, <1>7, <2>1, <2>2, <2>3 DEF WriterStep
<1>8. CASE Shutdown \/ LifespanStep \/ UNCHANGED vars
  <2>1. UNCHANGED <<queue, hand, accepted, handled>>
      BY <1>8 DEF vars, perCollector, LifespanStep, Shutdown, Flush, FlushTimeout,
                  CloseStops, CloseFiles, PublishStatus
  <2> QED  BY <1>1, <2>1
<1> QED  BY <1>2, <1>6, <1>7, <1>8 DEF Next

LEMMA InitInOrder == Init => AcceptedOnceInOrder
<1> SUFFICES ASSUME Init, NEW c \in Collectors
             PROVE  accepted[c] = HandledEvents(c) \o InHand(c) \o queue[c]
    BY DEF AcceptedOnceInOrder
<1>1. /\ accepted[c] = <<>> /\ queue[c] = <<>> /\ InHand(c) = <<>>
      /\ HandledEvents(c) = <<>>
    BY DEF Init, InHand, HandledEvents
<1>2. <<>> \o <<>> = <<>>
    BY EmptySeq, ConcatEmptySeq
<1> QED  BY <1>1, <1>2

\* What emit accepted is handled once and in order, for any number of
\* emitting threads and collectors and any size of the queue.
THEOREM OnceAndInOrder == Spec => []AcceptedOnceInOrder
BY InitInv, InitInOrder, NextInv, NextInOrder, PTL DEF Spec

-----------------------------------------------------------------------------
(* close() *)

Closing == {"join", "publish", "closed"}

\* The files of App are open until close closes them; its writer goes on until
\* close lets it stop, and stops only with nothing left to handle.
CloseInv ==
    /\ App \in created <=> lifespan # "startup"
    /\ App \in created /\ ~running[App] => lifespan \in Closing
    /\ App \in created /\ lifespan \notin {"publish", "closed"} => open[App]
    /\ due <= Len(accepted[App])
    /\ writer[App] = "exited" => lifespan \in Closing /\ due <= Len(handled[App])
    /\ joined => writer[App] = "exited" /\ lifespan \in {"publish", "closed"}

\* Nothing is lost while the files are open, on a disk that works.
NothingLost ==
    ~DiskFails /\ (joined \/ lifespan \notin {"publish", "closed"})
        => \A i \in 1..Len(handled[App]) : handled[App][i].ok

LEMMA AllHandled ==
    ASSUME Inv, AcceptedOnceInOrder, NEW c \in Collectors, writer[c] # "write", queue[c] = <<>>
    PROVE  Len(accepted[c]) = Len(handled[c])
<1>1. TypeOK /\ InHand(c) = <<>> /\ handled[c] \in Seq(Handled)
    BY DEF Inv, HandIsHeld, InHand, TypeOK
<1>2. HandledEvents(c) \in Seq(Event) /\ Len(HandledEvents(c)) = Len(handled[c])
    BY <1>1, HandledEventsType, EventsOfType
<1>3. accepted[c] = HandledEvents(c) \o <<>> \o <<>>
    BY <1>1 DEF AcceptedOnceInOrder
<1>4. accepted[c] = HandledEvents(c)
    BY <1>2, <1>3, ConcatEmptySeq
<1> QED  BY <1>2, <1>4

\* No step forgets an accepted or a handled event, or one of its marks.
LEMMA LogsGrow ==
    ASSUME Inv, [Next]_vars
    PROVE  /\ Len(accepted[App]) <= Len(accepted'[App])
           /\ Len(handled[App]) <= Len(handled'[App])
<1> USE CollectorAssumption
<1>1. TypeOK /\ accepted[App] \in Seq(Event) /\ handled[App] \in Seq(Handled)
      /\ Len(accepted[App]) \in Nat /\ Len(handled[App]) \in Nat
    BY LenProperties DEF Inv, TypeOK
<1>2. ASSUME UNCHANGED <<accepted, handled>>
      PROVE  /\ Len(accepted[App]) <= Len(accepted'[App])
             /\ Len(handled[App]) <= Len(handled'[App])
    BY <1>1, <1>2
<1>3. ASSUME NEW c \in Collectors, Emit(c)
      PROVE  /\ Len(accepted[App]) <= Len(accepted'[App])
             /\ Len(handled[App]) <= Len(handled'[App])
  <2>1. CASE UNCHANGED accepted
      BY <1>2, <1>3, <2>1 DEF Emit
  <2>2. CASE accepted' = [accepted EXCEPT ![c] = Append(@, emitted + 1)]
    <3>1. emitted + 1 \in Event /\ handled' = handled
        BY <1>1, <1>3 DEF Emit, Event, TypeOK
    <3>2. CASE c = App
      <4>1. accepted'[App] = Append(accepted[App], emitted + 1)
          BY <1>1, <2>2, <3>2 DEF TypeOK
      <4>2. Len(accepted'[App]) = Len(accepted[App]) + 1
          BY <1>1, <3>1, <4>1, AppendProperties
      <4> QED  BY <1>1, <3>1, <4>2
    <3>3. CASE c # App
      <4>1. accepted'[App] = accepted[App]
          BY <1>1, <2>2, <3>3 DEF TypeOK
      <4> QED  BY <1>1, <3>1, <4>1
    <3> QED  BY <3>2, <3>3
  <2> QED  BY <1>3, <2>1, <2>2 DEF Emit
<1>4. ASSUME NEW c \in Collectors, NEW ok \in BOOLEAN, Finish(c, ok), writer[c] = "write",
             UNCHANGED accepted
      PROVE  /\ Len(accepted[App]) <= Len(accepted'[App])
             /\ Len(handled[App]) <= Len(handled'[App])
  <2>1. CASE c # App
    <3>1. handled'[App] = handled[App]
        BY <1>1, <1>4, <2>1 DEF Finish, TypeOK
    <3> QED  BY <1>1, <1>4, <3>1
  <2>2. CASE c = App
    <3>1. hand[App] \in Event
        BY <1>1, <1>4, <2>2 DEF Inv, HandIsHeld, TypeOK
    <3> DEFINE r == [event |-> hand[App], ok |-> ok]
    <3>2. r \in Handled
        BY <3>1 DEF Handled
    <3>3. handled'[App] = Append(handled[App], r)
        BY <1>1, <1>4, <2>2 DEF Finish, TypeOK
    <3> HIDE DEF r
    <3>4. Len(handled'[App]) = Len(handled[App]) + 1
        BY <1>1, <3>2, <3>3, AppendProperties
    <3> QED  BY <1>1, <1>4, <3>4
  <2> QED  BY <2>1, <2>2
<1>5. CASE Startup \/ \E c \in Collectors : PipelineCall(c)
    BY <1>2, <1>5 DEF Startup, PipelineCall, NewCollector
<1>6. ASSUME NEW c \in Collectors, WriterStep(c)
      PROVE  /\ Len(accepted[App]) <= Len(accepted'[App])
             /\ Len(handled[App]) <= Len(handled'[App])
  <2>1. CASE WriterCheck(c) \/ WriterGet(c)
      BY <2>1, <1>2 DEF WriterCheck, WriterGet
  <2>2. CASE WriterWrite(c)
      BY <2>2, <1>4 DEF WriterWrite
  <2>3. CASE WriterFails(c)
      BY <2>3, <1>4 DEF WriterFails
  <2> QED  BY <1>6, <2>1, <2>2, <2>3 DEF WriterStep
<1>7. CASE Shutdown \/ LifespanStep \/ UNCHANGED vars
  <2>1. UNCHANGED <<accepted, handled>>
      BY <1>7 DEF vars, perCollector, LifespanStep, Shutdown, Flush, FlushTimeout,
                  CloseStops, CloseFiles, PublishStatus
  <2> QED  BY <1>2, <2>1
<1> QED  BY <1>3, <1>5, <1>6, <1>7 DEF Next

LEMMA NextCloseInv ==
    ASSUME Inv, Inv', AcceptedOnceInOrder, CloseInv, [Next]_vars
    PROVE  CloseInv'
<1> USE CollectorAssumption DEF CloseInv, Closing
<1>1. /\ TypeOK /\ TypeOK' /\ HasWriter /\ due \in Nat
      /\ Len(accepted[App]) \in Nat /\ Len(handled[App]) \in Nat
      /\ Len(accepted'[App]) \in Nat /\ Len(handled'[App]) \in Nat
      /\ Len(accepted[App]) <= Len(accepted'[App])
      /\ Len(handled[App]) <= Len(handled'[App])
    BY LogsGrow, LenProperties DEF Inv, TypeOK
<1>2. due' = due => /\ due' <= Len(accepted'[App])
                    /\ due <= Len(handled[App]) => due' <= Len(handled'[App])
    BY <1>1
<1>3. ASSUME UNCHANGED <<created, writer, running, open, lifespan, joined, due>>
      PROVE  CloseInv'
    BY <1>2, <1>3
<1>4. CASE Startup
    BY <1>1, <1>2, <1>4 DEF Startup, NewCollector, HasWriter, TypeOK
<1>5. ASSUME NEW c \in Collectors, PipelineCall(c) PROVE CloseInv'
  <2>1. /\ created' = created \cup {c} /\ c # App
        /\ running'[App] = running[App] /\ open'[App] = open[App] /\ writer'[App] = writer[App]
      BY <1>1, <1>5 DEF PipelineCall, NewCollector, TypeOK
  <2>2. UNCHANGED <<lifespan, joined, due>>
      BY <1>5 DEF PipelineCall, shutdown
  <2> QED  BY <1>2, <2>1, <2>2
<1>6. ASSUME NEW c \in Collectors, Emit(c) PROVE CloseInv'
    BY <1>3, <1>6 DEF Emit, shutdown
<1>7. ASSUME NEW c \in Collectors, WriterCheck(c) PROVE CloseInv'
  <2>1. UNCHANGED <<created, running, open, handled, lifespan, joined, due>>
        /\ writer[c] = "check" /\ (writer'[c] = "exited" => ~running[c] /\ queue[c] = <<>>)
      BY <1>1, <1>7 DEF WriterCheck, shutdown, TypeOK
  <2>2. CASE c # App
    <3>1. writer'[App] = writer[App]
        BY <1>1, <1>7, <2>2 DEF WriterCheck, TypeOK
    <3> QED  BY <1>2, <2>1, <3>1
  <2>3. CASE c = App
    <3>1. ASSUME writer'[App] = "exited"
          PROVE  lifespan \in {"join", "publish", "closed"} /\ due <= Len(handled[App])
      <4>1. Len(accepted[App]) = Len(handled[App])
          BY <2>1, <2>3, <3>1, AllHandled
      <4>2. App \in created
          BY <1>1, <2>1, <2>3 DEF HasWriter
      <4> QED  BY <2>1, <2>3, <3>1, <4>1, <4>2
    <3>2. ~joined
        BY <2>1, <2>3
    <3> QED  BY <1>2, <2>1, <3>1, <3>2
  <2> QED  BY <2>2, <2>3
<1>8. ASSUME NEW c \in Collectors, writer[c] # "exited", writer'[c] # "exited",
             \A d \in Collectors \ {c} : writer'[d] = writer[d],
             UNCHANGED <<created, running, open, lifespan, joined, due>>
      PROVE  CloseInv'
    BY <1>2, <1>8
<1>9. ASSUME NEW c \in Collectors, WriterGet(c) PROVE CloseInv'
    BY <1>1, <1>8, <1>9 DEF WriterGet, shutdown, TypeOK
<1>10. ASSUME NEW c \in Collectors, WriterWrite(c) \/ WriterFails(c) PROVE CloseInv'
    BY <1>1, <1>8, <1>10 DEF WriterWrite, WriterFails, Finish, shutdown, TypeOK
<1>11. CASE Shutdown \/ Flush \/ FlushTimeout \/ PublishStatus
  <2>1. /\ UNCHANGED <<created, writer, running, open, joined, due>>
        /\ lifespan # "startup" /\ lifespan' # "startup"
        /\ (lifespan \in {"publish", "closed"} <=> lifespan' \in {"publish", "closed"})
        /\ (lifespan \in Closing <=> lifespan' \in Closing)
      BY <1>11 DEF Shutdown, Flush, FlushTimeout, PublishStatus, perCollector
  <2> QED  BY <1>2, <2>1
<1>12. CASE CloseStops
    BY <1>1, <1>12 DEF CloseStops
<1>13. CASE CloseFiles
    BY <1>1, <1>2, <1>13 DEF CloseFiles
<1>14. CASE UNCHANGED vars
    BY <1>3, <1>14 DEF vars, perCollector, shutdown
<1> QED
    BY <1>4, <1>5, <1>6, <1>7, <1>9, <1>10, <1>11, <1>12, <1>13, <1>14
       DEF Next, WriterStep, LifespanStep

LEMMA NextNothingLost ==
    ASSUME Inv, CloseInv, NothingLost, [Next]_vars
    PROVE  NothingLost'
<1> SUFFICES ASSUME ~DiskFails, joined' \/ lifespan' \notin {"publish", "closed"}
             PROVE  \A i \in 1..Len(handled'[App]) : handled'[App][i].ok
    BY DEF NothingLost
<1> USE CollectorAssumption
<1>1. TypeOK
    BY DEF Inv
<1>2. joined \/ lifespan \notin {"publish", "closed"}
  <2> SUFFICES ASSUME lifespan \in {"publish", "closed"}
               PROVE  lifespan' \in {"publish", "closed"} /\ joined' = joined
      OBVIOUS
  <2>1. CASE \E c \in Collectors : PipelineCall(c) \/ Emit(c) \/ WriterStep(c)
      BY <2>1 DEF shutdown, PipelineCall, Emit, WriterStep, WriterCheck, WriterGet,
                  WriterWrite, WriterFails
  <2>2. CASE Startup \/ Shutdown \/ LifespanStep
      BY <2>2 DEF Startup, Shutdown, LifespanStep, Flush, FlushTimeout, CloseStops,
                  CloseFiles, PublishStatus
  <2>3. CASE UNCHANGED vars
      BY <2>3 DEF vars, shutdown
  <2> QED  BY <2>1, <2>2, <2>3 DEF Next
<1>3. \A i \in 1..Len(handled[App]) : handled[App][i].ok
    BY <1>2 DEF NothingLost
<1>4. CASE handled'[App] = handled[App]
    BY <1>3, <1>4
<1>5. CASE WriterWrite(App)
  <2> DEFINE r == [event |-> hand[App], ok |-> TRUE]
  <2>1. hand[App] \in Event /\ handled[App] \in Seq(Handled)
      BY <1>1, <1>5 DEF WriterWrite, Inv, HandIsHeld, TypeOK
  <2>2. r \in Handled /\ r.ok
      BY <2>1 DEF Handled
  <2>3. handled'[App] = Append(handled[App], r)
      BY <1>1, <1>5 DEF WriterWrite, Finish, TypeOK
  <2> HIDE DEF r
  <2> QED  BY <1>3, <2>1, <2>2, <2>3, AppendProperties, LenProperties
<1>6. CASE WriterFails(App)
  <2>1. ~open[App] /\ writer[App] = "write" /\ UNCHANGED <<lifespan, joined>>
      BY <1>6 DEF WriterFails, shutdown
  <2>2. App \in created
      BY <1>1, <2>1 DEF Inv, HasWriter
  <2> QED  BY <1>2, <2>1, <2>2 DEF CloseInv
<1>7. ASSUME NEW c \in Collectors, c # App, WriterWrite(c) \/ WriterFails(c)
      PROVE  handled'[App] = handled[App]
    BY <1>1, <1>7 DEF WriterWrite, WriterFails, Finish, TypeOK
<1>8. handled' = handled \/ \E c \in Collectors : WriterWrite(c) \/ WriterFails(c)
    BY DEF Next, vars, perCollector, Startup, PipelineCall, NewCollector, Emit, WriterStep,
           WriterCheck, WriterGet, Shutdown, LifespanStep, Flush, FlushTimeout, CloseStops,
           CloseFiles, PublishStatus
<1> QED  BY <1>4, <1>5, <1>6, <1>7, <1>8

\* A close that found the writer finished has lost no event accepted before it.
THEOREM CloseAlwaysDrains == Spec => []CloseDrains
<1> USE CollectorAssumption
<1>1. Init => CloseInv /\ NothingLost
  <2> SUFFICES ASSUME Init PROVE CloseInv /\ NothingLost
      OBVIOUS
  <2>1. accepted[App] = <<>> /\ handled[App] = <<>> /\ writer[App] = "none" /\ due = 0
      BY DEF Init
  <2>2. Len(<<>>) = 0
      BY EmptySeq
  <2>3. CloseInv
      BY <2>1, <2>2 DEF Init, CloseInv
  <2>4. NothingLost
      BY <2>1, <2>2 DEF NothingLost
  <2> QED  BY <2>3, <2>4
<1>2. Inv /\ CloseInv /\ NothingLost => CloseDrains
  <2> SUFFICES ASSUME Inv, CloseInv, NothingLost, joined
               PROVE  /\ Len(handled[App]) >= due
                      /\ ~DiskFails => \A i \in 1..due : handled[App][i].ok
      BY DEF CloseDrains
  <2>1. due \in Nat /\ Len(handled[App]) \in Nat /\ due <= Len(handled[App])
      BY LenProperties DEF Inv, TypeOK, CloseInv
  <2> QED  BY <2>1 DEF NothingLost
<1> QED
    BY <1>1, <1>2, InitInv, InitInOrder, NextInv, NextInOrder, NextCloseInv, NextNothingLost, PTL DEF Spec
=============================================================================
