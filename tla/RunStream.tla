----------------------------- MODULE RunStream -----------------------------
(***************************************************************************)
(* One streamed workflow run on the server: the worker thread and the      *)
(* response body of api/routers/streams.py, and the section threads of     *)
(* _generate_proposal_sections in agentic/tools.py, which all put events   *)
(* on one queue.                                                           *)
(*                                                                         *)
(* Of the workflow, only what emits events is modelled: supervisor and     *)
(* tool steps as traces, and rounds of section drafting (one more per      *)
(* replan).  Events are their kinds; the queue ends with "DONE".           *)
(***************************************************************************)
EXTENDS Naturals, Sequences, FiniteSets, FiniteSetsExt

CONSTANTS Sections,      \* the requested section keys, in order
          Concurrency,   \* settings.section_concurrency
          MaxTraces,     \* bound: trace events of one run
          MaxRounds      \* bound: rounds of drafting

ASSUME ConstantsAssumption ==
  /\ Sections \in Seq(STRING)
  /\ Len(Sections) > 0
  /\ Concurrency \in Nat \ {0}
  /\ MaxTraces \in Nat
  /\ MaxRounds \in Nat

Keys == {Sections[i] : i \in DOMAIN Sections}

First == Head(Sections)

Rest == Tail(Sections)

Workers == Min({Concurrency, Len(Rest)})

VARIABLES stage,       \* where the worker thread is
          section,     \* what became of each section in this round
          collected,   \* how many futures the worker has collected
          traces,      \* trace events emitted
          rounds,      \* rounds of drafting started
          saved,       \* the stored run: "none", "stored" or "lost"
          queue,       \* events on their way to the response body
          heard,       \* events the client has received
          link         \* the client's connection: "open", "ended" or "cut"

vars == <<stage, section, collected, traces, rounds, saved, queue, heard, link>>

Finished == {"ok", "failed", "limited", "fatal"}

Init == /\ stage = "running"
        /\ section = [k \in Keys |-> "none"]
        /\ collected = 0
        /\ traces = 0
        /\ rounds = 0
        /\ saved = "none"
        /\ queue = << >>
        /\ heard = << >>
        /\ link = "open"

(* Mutant: a bounded queue, full when nobody reads the stream.              *)
EmitToReader(kind) == link = "open" /\ queue' = Append(queue, kind)

Emit(kind) == queue' = Append(queue, kind)

Alive == stage # "dead"

-----------------------------------------------------------------------------
(* The worker thread.                                                      *)

Trace == /\ stage = "running"
         /\ traces < MaxTraces
         /\ traces' = traces + 1
         /\ Emit("progress")
         /\ UNCHANGED <<stage, section, collected, rounds, saved, heard, link>>

(* sections_planned; retrieval follows and may raise a fatal error.        *)
PlanSections == /\ stage = "running"
                /\ rounds < MaxRounds
                /\ rounds' = rounds + 1
                /\ section' = [k \in Keys |-> "none"]
                /\ collected' = 0
                /\ stage' = "retrieving"
                /\ Emit("progress")
                /\ UNCHANGED <<traces, saved, heard, link>>

Retrieve == /\ stage = "retrieving"
            /\ stage' \in {"first", "raising"}
            /\ UNCHANGED <<section, collected, traces, rounds, saved, queue, heard, link>>

(* Mutant: the rest is submitted without waiting for the first section.     *)
FirstNotAwaited == /\ stage = "first"
                   /\ stage' = IF Rest = << >> THEN "validating" ELSE "collecting"
                   /\ section' = [k \in Keys |-> IF k = First THEN section[k] ELSE "queued"]
                   /\ UNCHANGED <<collected, traces, rounds, saved, queue, heard, link>>

(* The worker drafts the first section itself and then submits the rest.   *)
FirstDrafted == /\ stage = "first"
                /\ section[First] \in Finished
                /\ IF section[First] = "fatal"
                   THEN stage' = "raising" /\ UNCHANGED section
                   ELSE IF Rest = << >>
                   THEN stage' = "validating" /\ UNCHANGED section
                   ELSE /\ stage' = "collecting"
                        /\ section' = [k \in Keys |-> IF k = First THEN section[k] ELSE "queued"]
                /\ UNCHANGED <<collected, traces, rounds, saved, queue, heard, link>>

(* future.result() in submission order; a fatal one leaves the with block,  *)
(* which still waits for every thread of the pool.                         *)
CollectOne == /\ stage = "collecting"
              /\ collected < Len(Rest)
              /\ section[Rest[collected + 1]] \in Finished
              /\ IF section[Rest[collected + 1]] = "fatal"
                 THEN stage' = "unwinding" /\ UNCHANGED collected
                 ELSE collected' = collected + 1 /\ UNCHANGED stage
              /\ UNCHANGED <<section, traces, rounds, saved, queue, heard, link>>

PoolIdle == \A i \in DOMAIN Rest : section[Rest[i]] \in Finished

(* Mutant: the pool is left without waiting for its threads.               *)
LeavePoolEarly == /\ \/ stage = "collecting" /\ collected = Len(Rest) /\ stage' = "validating"
                     \/ stage = "unwinding" /\ stage' = "raising"
                  /\ UNCHANGED <<section, collected, traces, rounds, saved, queue, heard, link>>

LeavePool == /\ PoolIdle
             /\ \/ stage = "collecting" /\ collected = Len(Rest) /\ stage' = "validating"
                \/ stage = "unwinding" /\ stage' = "raising"
             /\ UNCHANGED <<section, collected, traces, rounds, saved, queue, heard, link>>

(* Validation is not wrapped: it may raise.                                *)
Validate == /\ stage = "validating"
            /\ stage' \in {"running", "raising"}
            /\ UNCHANGED <<section, collected, traces, rounds, saved, queue, heard, link>>

(* Mutant: the run is stored after its result has been announced, or never. *)
PersistLater == /\ stage = "running"
                /\ stage' = "returning"
                /\ UNCHANGED <<section, collected, traces, rounds, saved, queue, heard, link>>

(* The workflow ends: the run is stored, or storing it fails.              *)
Persist == /\ stage = "running"
           /\ saved' \in {"stored", "lost"}
           /\ stage' = "returning"
           /\ UNCHANGED <<section, collected, traces, rounds, queue, heard, link>>

PutResult == /\ stage = "returning"
             /\ Emit("result")
             /\ stage' = "closing"
             /\ UNCHANGED <<section, collected, traces, rounds, saved, heard, link>>

(* Any step of the workflow, and any tool of it, may raise.                *)
RunRaises == /\ stage = "running"
             /\ stage' = "raising"
             /\ UNCHANGED <<section, collected, traces, rounds, saved, queue, heard, link>>

(* Mutant: an exception of the workflow is only logged.                     *)
PutErrorSilently == /\ stage = "raising"
                    /\ stage' = "closing"
                    /\ UNCHANGED <<section, collected, traces, rounds, saved, queue, heard, link>>

PutError == /\ stage = "raising"
            /\ Emit("error")
            /\ stage' = "closing"
            /\ UNCHANGED <<section, collected, traces, rounds, saved, heard, link>>

(* Mutant: only a run with a result marks the end of its stream.            *)
PutDoneAfterResult == /\ stage = "closing"
                      /\ saved # "none"
                      /\ Emit("DONE")
                      /\ stage' = "over"
                      /\ UNCHANGED <<section, collected, traces, rounds, saved, heard, link>>

PutDone == /\ stage = "closing"
           /\ Emit("DONE")
           /\ stage' = "over"
           /\ UNCHANGED <<section, collected, traces, rounds, saved, heard, link>>

-----------------------------------------------------------------------------
(* One section: the worker drafts the first, a pool thread each other one,  *)
(* taken in order of submission.                                           *)

Writing == {k \in Keys : section[k] = "writing"}

NextQueued(k) ==
  \E i \in DOMAIN Rest : /\ Rest[i] = k
                         /\ section[k] = "queued"
                         /\ \A j \in 1..(i - 1) : section[Rest[j]] # "queued"

MayStart(k) == \/ stage = "first" /\ k = First /\ section[k] = "none"
               \/ Alive /\ NextQueued(k) /\ Cardinality(Writing) < Workers

StartSection(k) == /\ MayStart(k)
                   /\ section' = [section EXCEPT ![k] = "writing"]
                   /\ Emit("progress")
                   /\ UNCHANGED <<stage, collected, traces, rounds, saved, heard, link>>

(* section_done, for a failed or rate-limited section too; a fatal error    *)
(* leaves the section without one.                                         *)
FinishSection(k) == /\ Alive
                    /\ section[k] = "writing"
                    /\ \E o \in Finished :
                         /\ section' = [section EXCEPT ![k] = o]
                         /\ IF o = "fatal" THEN UNCHANGED queue ELSE Emit("progress")
                    /\ UNCHANGED <<stage, collected, traces, rounds, saved, heard, link>>

-----------------------------------------------------------------------------
(* The response body, and what may happen to it.  Keepalives are left out.  *)

Deliver == /\ Alive
           /\ link = "open"
           /\ queue # << >>
           /\ queue' = Tail(queue)
           /\ IF Head(queue) = "DONE"
              THEN link' = "ended" /\ UNCHANGED heard
              ELSE heard' = Append(heard, Head(queue)) /\ UNCHANGED link
           /\ UNCHANGED <<stage, section, collected, traces, rounds, saved>>

Disconnect == /\ link = "open"
              /\ link' = "cut"
              /\ UNCHANGED <<stage, section, collected, traces, rounds, saved, queue, heard>>

ServerDies == /\ Alive
              /\ stage' = "dead"
              /\ link' = IF link = "open" THEN "cut" ELSE link
              /\ UNCHANGED <<section, collected, traces, rounds, saved, queue, heard>>

-----------------------------------------------------------------------------
WorkerStep == \/ Trace
              \/ PlanSections
              \/ Retrieve
              \/ FirstDrafted
              \/ CollectOne
              \/ LeavePool
              \/ Validate
              \/ Persist
              \/ PutResult
              \/ RunRaises
              \/ PutError
              \/ PutDone

SectionStep(k) == StartSection(k) \/ FinishSection(k)

Stopped == /\ stage \in {"over", "dead"}
           /\ link # "open"
           /\ UNCHANGED vars

Next == \/ WorkerStep
        \/ \E k \in Keys : SectionStep(k)
        \/ Deliver
        \/ Disconnect
        \/ ServerDies
        \/ Stopped

Spec == Init /\ [][Next]_vars

(* The worker and the section threads are daemon threads of the server and  *)
(* every model call they make is bounded; the body runs as long as somebody *)
(* reads it.                                                               *)
FairSpec == /\ Spec
            /\ WF_vars(WorkerStep)
            /\ \A k \in Keys : WF_vars(SectionStep(k))
            /\ WF_vars(Deliver)

-----------------------------------------------------------------------------
(* Correctness.                                                            *)

Stages == {"running", "retrieving", "first", "collecting", "unwinding", "validating",
           "returning", "raising", "closing", "over", "dead"}

Kinds == {"progress", "result", "error"}

(* No more sections are drafted at a time than there are threads.           *)
PoolBound == Cardinality(Writing) <= Max({1, Workers})

TypeOK == /\ stage \in Stages
          /\ section \in [Keys -> {"none", "queued", "writing"} \cup Finished]
          /\ collected \in 0..Len(Rest)
          /\ traces \in 0..MaxTraces
          /\ rounds \in 0..MaxRounds
          /\ saved \in {"none", "stored", "lost"}
          /\ queue \in Seq(Kinds \cup {"DONE"})
          /\ heard \in Seq(Kinds)
          /\ link \in {"open", "ended", "cut"}
          /\ PoolBound

Has(s, kinds) == \E i \in DOMAIN s : s[i] \in kinds

(* An event of these kinds is on its way or has been received.              *)
Sent(kinds) == Has(queue, kinds) \/ Has(heard, kinds)

Announced == Sent({"result", "error", "DONE"})

(* No section thread outlives the drafting it belongs to: once the worker   *)
(* has left the pool, by its end or by an exception, nothing is drafted    *)
(* and no section event can follow the outcome.                            *)
NoOrphans == Announced \/ stage \in {"validating", "returning", "raising", "closing"}
               => \A k \in Keys : section[k] \notin {"queued", "writing"}

(* README: the first section is generated alone, so that the shared context *)
(* is cached when the others run, in every round of drafting.              *)
FirstAlone == \A k \in Keys \ {First} :
                section[k] \in {"queued", "writing"} \cup Finished
                  => section[First] \in Finished \ {"fatal"}

(* A client that has lost its stream polls for the stored run: by the time  *)
(* the result is announced, storing it has been decided, and an announced  *)
(* error never leaves a stored run behind.                                 *)
StoredBeforeTold == /\ Sent({"result"}) => saved # "none"
                    /\ Sent({"error"}) => saved = "none"

(* The stream a client reads keeps the promise of EventStream.             *)
Stream == INSTANCE EventStream

ImplementsEventStream == Stream!Spec

(* Every stream ends, unless it is cut first.                              *)
StreamEnds == <>(link # "open")

(* useRunStream.ts: the server keeps running a workflow after the stream    *)
(* drops, and saves it when it finishes.                                   *)
RunOutlivesStream == link = "cut" /\ Alive ~> stage \in {"over", "dead"}

(* Why the safety properties hold.  Sections are drafted in two stages only, *)
(* the first by itself; the run is stored in between; and what has been     *)
(* sent is progress, then one outcome, then the end marker.                *)
Outcome == {"result", "error"}

Idle == \A k \in Keys : section[k] \notin {"queued", "writing"}

StageSections ==
  /\ stage \in {"running", "retrieving", "validating", "returning", "raising", "closing", "over"}
       => Idle
  /\ stage = "retrieving" => \A k \in Keys : section[k] = "none"
  /\ stage = "first" => /\ section[First] # "queued"
                        /\ \A k \in Keys \ {First} : section[k] = "none"
  /\ stage \in {"collecting", "unwinding"} => section[First] \in Finished \ {"fatal"}
  /\ Announced => Idle

StageSaved ==
  /\ stage \in Stages \ {"returning", "closing", "over", "dead"} => saved = "none"
  /\ stage = "returning" => saved # "none"

QueueShape ==
  /\ \A i \in DOMAIN queue : queue[i] = "DONE" => i = Len(queue)
  /\ \A i, j \in DOMAIN queue : i < j /\ queue[i] \in Outcome => queue[j] = "DONE"
  /\ Has(heard, Outcome) => \A i \in DOMAIN queue : queue[i] = "DONE"

StageSent ==
  /\ Sent(Outcome) => stage \in {"closing", "over", "dead"}
  /\ stage \in {"closing", "over"} => Sent(Outcome)
  /\ Has(queue, {"DONE"}) => stage \in {"over", "dead"} /\ Sent(Outcome)
  /\ link = "ended" => stage \in {"over", "dead"}

IInv == /\ TypeOK
        /\ StageSections
        /\ FirstAlone
        /\ StageSaved
        /\ StoredBeforeTold
        /\ QueueShape
        /\ StageSent
=============================================================================
