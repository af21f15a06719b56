--------------------------- MODULE ProgressStream ---------------------------
(***************************************************************************)
(* What /run-all-full/stream promises its client (routes.py:137-149,       *)
(* frontend client.ts, FullRunEvent): stages are told in order, each       *)
(* "started" is followed by the end of that stage before anything else,    *)
(* and the stream closes after a "done" or a "fatal" line, unless the      *)
(* client left before.                                                     *)
(***************************************************************************)
EXTENDS Naturals

CONSTANT StageCount  \* stages are numbered in the order of the pipelines

VARIABLES
    running,  \* number of the stage that was told to have started, or 0
    last,     \* number of the last stage told of
    phase     \* "listening", "closed" by a final line, or client "gone"

promise == <<running, last, phase>>

PromiseInit == running = 0 /\ last = 0 /\ phase = "listening"

Start(s) ==
    /\ phase = "listening" /\ running = 0
    /\ s \in (last + 1)..StageCount
    /\ running' = s /\ last' = s
    /\ UNCHANGED phase

End ==
    /\ phase = "listening" /\ running # 0
    /\ running' = 0
    /\ UNCHANGED <<last, phase>>

Close ==
    /\ phase = "listening" /\ running = 0
    /\ phase' = "closed"
    /\ UNCHANGED <<running, last>>

Leave ==
    /\ phase = "listening"
    /\ phase' = "gone"
    /\ UNCHANGED <<running, last>>

PromiseNext == (\E s \in 1..StageCount : Start(s)) \/ End \/ Close \/ Leave

Promise == PromiseInit /\ [][PromiseNext]_promise
=============================================================================
