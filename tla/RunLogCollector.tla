--------------------------- MODULE RunLogCollector ---------------------------
(***************************************************************************)
(* The run log (monitor/collector.py, monitor/lifespan.py).  Every         *)
(* collector owns a bounded queue and a writer thread; any thread emits    *)
(* without waiting.  The application's collector App is created at startup *)
(* and flushed and closed at shutdown; every entry method of the pipeline  *)
(* calls get_collector(), which opens the same file again for another      *)
(* collector, and closes none of them.                                     *)
(***************************************************************************)
EXTENDS Naturals, Sequences

CONSTANTS
    Collectors,  \* collector objects that may come to exist
    App,         \* the one bound to app.state.monitor_collector
    MaxQueue,    \* max_queue of the constructor
    MaxEvents,   \* bound: events emitted in a behaviour
    Hole,        \* what a file holds where nothing was written
    None,        \* no event in hand, no status file
    DiskFails    \* TRUE: a write may raise

ASSUME CollectorAssumption ==
    /\ App \in Collectors
    /\ MaxQueue \in Nat \ {0} /\ MaxEvents \in Nat
    /\ None \notin Nat /\ Hole \notin Nat
    /\ DiskFails \in BOOLEAN

VARIABLES
    created,   \* collectors whose constructor ran
    queue,     \* self._queue
    hand,      \* event the writer took and has not finished with
    writer,    \* where the writer thread is in its loop
    running,   \* self._running
    open,      \* self._file and self._text_file are open
    offset,    \* position of self._file
    dropped,   \* self.dropped_event_count
    accepted,  \* history: events put on the queue, in order
    handled,   \* history: events the writer finished with, and how
    due,       \* history: events accepted by App when close cleared running
    jsonl,     \* tianshu_run_{run_id}_events.jsonl, one slot per event
    emitted,   \* events emitted so far
    lifespan,  \* where monitor_lifespan is
    flushed,   \* flush_completed of App
    joined,    \* history: the writer had exited when close closed the files
    status     \* *_collector_status.json, or None

perCollector == <<queue, hand, writer, running, open, offset, dropped,
                  accepted, handled>>
shutdown == <<lifespan, flushed, joined, due, status>>
vars == <<created, perCollector, jsonl, emitted, shutdown>>

Event == 1..MaxEvents
Handled == [event : Event, ok : BOOLEAN]

Init ==
    /\ created = {}
    /\ queue = [c \in Collectors |-> <<>>]
    /\ hand = [c \in Collectors |-> None]
    /\ writer = [c \in Collectors |-> "none"]
    /\ running = [c \in Collectors |-> FALSE]
    /\ open = [c \in Collectors |-> FALSE]
    /\ offset = [c \in Collectors |-> 0]
    /\ dropped = [c \in Collectors |-> 0]
    /\ accepted = [c \in Collectors |-> <<>>]
    /\ handled = [c \in Collectors |-> <<>>]
    /\ jsonl = <<>>
    /\ emitted = 0
    /\ lifespan = "startup"
    /\ flushed = FALSE
    /\ joined = FALSE
    /\ due = 0
    /\ status = None

-----------------------------------------------------------------------------
\* get_collector and __init__: the file is opened with mode "w".
NewCollector(c) ==
    /\ c \notin created
    /\ created' = created \cup {c}
    /\ running' = [running EXCEPT ![c] = TRUE]
    /\ open' = [open EXCEPT ![c] = TRUE]
    /\ writer' = [writer EXCEPT ![c] = "check"]
    /\ jsonl' = <<>>
    /\ UNCHANGED <<queue, hand, offset, dropped, accepted, handled, emitted>>

Startup ==
    /\ lifespan = "startup"
    /\ lifespan' = "serving"
    /\ NewCollector(App)
    /\ UNCHANGED <<flushed, joined, due, status>>

\* A pipeline entry method makes a collector of its own for the same run.
PipelineCall(c) ==
    /\ lifespan # "startup"
    /\ c # App
    /\ NewCollector(c)
    /\ UNCHANGED shutdown

\* Mutant of Emit: a full queue makes room by forgetting its oldest event.
EmitEvicting(c) ==
    /\ c \in created
    /\ emitted < MaxEvents
    /\ emitted' = emitted + 1
    /\ queue' = [queue EXCEPT ![c] =
                    Append(IF Len(@) < MaxQueue THEN @ ELSE Tail(@), emitted + 1)]
    /\ accepted' = [accepted EXCEPT ![c] = Append(@, emitted + 1)]
    /\ UNCHANGED <<created, hand, writer, running, open, offset, dropped, handled,
                   jsonl, shutdown>>

\* Mutant of Emit: put() on a queue without a bound.
EmitUnbounded(c) ==
    /\ c \in created
    /\ emitted < MaxEvents
    /\ emitted' = emitted + 1
    /\ queue' = [queue EXCEPT ![c] = Append(@, emitted + 1)]
    /\ accepted' = [accepted EXCEPT ![c] = Append(@, emitted + 1)]
    /\ UNCHANGED <<created, hand, writer, running, open, offset, dropped, handled,
                   jsonl, shutdown>>

\* emit: put_nowait, or count the event as dropped.
Emit(c) ==
    /\ c \in created
    /\ emitted < MaxEvents
    /\ emitted' = emitted + 1
    /\ \/ /\ Len(queue[c]) < MaxQueue
          /\ queue' = [queue EXCEPT ![c] = Append(@, emitted + 1)]
          /\ accepted' = [accepted EXCEPT ![c] = Append(@, emitted + 1)]
          /\ UNCHANGED dropped
       \/ /\ Len(queue[c]) = MaxQueue
          /\ dropped' = [dropped EXCEPT ![c] = @ + 1]
          /\ UNCHANGED <<queue, accepted>>
    /\ UNCHANGED <<created, hand, writer, running, open, offset, handled,
                   jsonl, shutdown>>

-----------------------------------------------------------------------------
(* _writer_loop *)

\* Mutant of WriterCheck: the loop ends as soon as close clears running.
WriterCheckNoDrain(c) ==
    /\ writer[c] = "check"
    /\ writer' = [writer EXCEPT ![c] = IF running[c] THEN "get" ELSE "exited"]
    /\ UNCHANGED <<created, queue, hand, running, open, offset, dropped, accepted,
                   handled, jsonl, emitted, shutdown>>

\* while self._running or not self._queue.empty()
WriterCheck(c) ==
    /\ writer[c] = "check"
    /\ writer' = [writer EXCEPT ![c] =
                     IF running[c] \/ queue[c] # <<>> THEN "get" ELSE "exited"]
    /\ UNCHANGED <<created, queue, hand, running, open, offset, dropped, accepted,
                   handled, jsonl, emitted, shutdown>>

\* get(timeout=0.5): an event, or queue.Empty and back to the condition.
WriterGet(c) ==
    /\ writer[c] = "get"
    /\ \/ /\ queue[c] # <<>>
          /\ hand' = [hand EXCEPT ![c] = Head(queue[c])]
          /\ queue' = [queue EXCEPT ![c] = Tail(@)]
          /\ writer' = [writer EXCEPT ![c] = "write"]
       \/ /\ queue[c] = <<>>
          /\ writer' = [writer EXCEPT ![c] = "check"]
          /\ UNCHANGED <<hand, queue>>
    /\ UNCHANGED <<created, running, open, offset, dropped, accepted, handled,
                   jsonl, emitted, shutdown>>

\* Writing the event in slot o + 1 of f; a gap before it is a hole.
WriteAt(f, o, e) ==
    [i \in 1..(IF o < Len(f) THEN Len(f) ELSE o + 1) |->
        IF i = o + 1 THEN e ELSE IF i \in DOMAIN f THEN f[i] ELSE Hole]

\* The event is finished with: written to the JSONL file, or lost to an
\* exception that the loop only logs.
Finish(c, ok) ==
    /\ handled' = [handled EXCEPT ![c] = Append(@, [event |-> hand[c], ok |-> ok])]
    /\ hand' = [hand EXCEPT ![c] = None]
    /\ writer' = [writer EXCEPT ![c] = "check"]

WriterWrite(c) ==
    /\ writer[c] = "write"
    /\ open[c]
    /\ jsonl' = WriteAt(jsonl, offset[c], hand[c])
    /\ offset' = [offset EXCEPT ![c] = @ + 1]
    /\ Finish(c, TRUE)
    /\ UNCHANGED <<created, queue, running, open, dropped, accepted, emitted, shutdown>>

\* ValueError on a closed file, or an error of the disk.
WriterFails(c) ==
    /\ writer[c] = "write"
    /\ ~open[c] \/ DiskFails
    /\ Finish(c, FALSE)
    /\ UNCHANGED <<created, queue, running, open, offset, dropped, accepted,
                   jsonl, emitted, shutdown>>

WriterStep(c) ==
    WriterCheck(c) \/ WriterGet(c) \/ WriterWrite(c) \/ WriterFails(c)

-----------------------------------------------------------------------------
(* monitor_lifespan after the yield: flush(10), close() *)

Shutdown ==
    /\ lifespan = "serving"
    /\ lifespan' = "flush"
    /\ UNCHANGED <<created, perCollector, jsonl, emitted, flushed, joined, due, status>>

\* flush: polls until the queue is seen empty ...
Flush ==
    /\ lifespan \in {"flush", "polling"}
    /\ \/ queue[App] = <<>> /\ flushed' = TRUE /\ lifespan' = "close"
       \/ queue[App] # <<>> /\ lifespan' = "polling" /\ UNCHANGED flushed
    /\ UNCHANGED <<created, perCollector, jsonl, emitted, joined, due, status>>

\* ... or the deadline passes.
FlushTimeout ==
    /\ lifespan = "polling"
    /\ lifespan' = "close"
    /\ UNCHANGED <<created, perCollector, jsonl, emitted, flushed, joined, due, status>>

CloseStops ==
    /\ lifespan = "close"
    /\ running' = [running EXCEPT ![App] = FALSE]
    /\ lifespan' = "join"
    /\ due' = Len(accepted[App])
    /\ UNCHANGED <<created, queue, hand, writer, open, offset, dropped, accepted,
                   handled, jsonl, emitted, flushed, joined, status>>


\* join(timeout=5.0) returns in either case, then the files are closed.
CloseFiles ==
    /\ lifespan = "join"
    /\ joined' = (writer[App] = "exited")
    /\ open' = [open EXCEPT ![App] = FALSE]
    /\ lifespan' = "publish"
    /\ UNCHANGED <<created, queue, hand, writer, running, offset, dropped, accepted,
                   handled, jsonl, emitted, flushed, due, status>>

\* The status file, by a rename.
PublishStatus ==
    /\ lifespan = "publish"
    /\ status' = [dropped_event_count |-> dropped[App], flush_completed |-> flushed]
    /\ lifespan' = "closed"
    /\ UNCHANGED <<created, perCollector, jsonl, emitted, flushed, joined, due>>

LifespanStep == Flush \/ FlushTimeout \/ CloseStops \/ CloseFiles \/ PublishStatus

Next ==
    \/ Startup \/ Shutdown \/ LifespanStep
    \/ \E c \in Collectors : PipelineCall(c) \/ Emit(c) \/ WriterStep(c)

Spec == Init /\ [][Next]_vars

\* The interpreter schedules the shutdown to its end.  The disk may hang:
\* nothing is assumed of the writers.
FairSpec == Spec /\ WF_vars(LifespanStep)

-----------------------------------------------------------------------------
TypeOK ==
    /\ created \subseteq Collectors
    /\ queue \in [Collectors -> Seq(Event)]
    /\ \A c \in Collectors : Len(queue[c]) <= MaxQueue
    /\ hand \in [Collectors -> Event \cup {None}]
    /\ writer \in [Collectors -> {"none", "check", "get", "write", "exited"}]
    /\ running \in [Collectors -> BOOLEAN]
    /\ open \in [Collectors -> BOOLEAN]
    /\ offset \in [Collectors -> Nat]
    /\ dropped \in [Collectors -> Nat]
    /\ accepted \in [Collectors -> Seq(Event)]
    /\ handled \in [Collectors -> Seq(Handled)]
    /\ jsonl \in Seq(Event \cup {Hole})
    /\ emitted \in 0..MaxEvents
    /\ lifespan \in {"startup", "serving", "flush", "polling", "close", "join", "publish", "closed"}
    /\ flushed \in BOOLEAN /\ joined \in BOOLEAN
    /\ due \in Nat
    /\ status \in [dropped_event_count : Nat, flush_completed : BOOLEAN] \cup {None}

InHand(c) == IF hand[c] = None THEN <<>> ELSE <<hand[c]>>
HandledEvents(c) == [i \in DOMAIN handled[c] |-> handled[c][i].event]

\* What emit accepted is handled once, in the order it was accepted, or is
\* still in the writer's hand or on the queue: at every step, with any number
\* of emitting threads, through a shutdown and beyond (collector.py:108-134).
AcceptedOnceInOrder ==
    \A c \in Collectors :
        accepted[c] = HandledEvents(c) \o InHand(c) \o queue[c]

\* When close found the writer finished, every event accepted before close
\* began is in the file, or the disk refused it (collector.py:110, 176-181).
CloseDrains ==
    joined =>
        /\ Len(handled[App]) >= due
        /\ ~DiskFails => \A i \in 1..due : handled[App][i].ok

\* When the disk answers, and every writer goes on, an event accepted while its
\* collector runs is handled in the end: the writer outlives the flag that
\* close clears (collector.py:110).
AcceptedIsHandled ==
    (\A c \in Collectors : WF_vars(WriterStep(c))) =>
        \A c \in Collectors : \A e \in Event :
            (running[c] /\ \E i \in DOMAIN queue[c] : queue[c][i] = e)
                ~> (\E i \in DOMAIN handled[c] : handled[c][i].event = e)


=============================================================================
