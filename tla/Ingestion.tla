----------------------------- MODULE Ingestion -----------------------------
(***************************************************************************)
(* Batches of historical proposals ingested at the same time               *)
(* (services/ingestion_service.py over ingestion/pipeline.py), each in one *)
(* transaction of its own at the level READ COMMITTED.                     *)
(*                                                                         *)
(* A record has an id, a solution type and its sections, as codes in the   *)
(* order of the record.  A section's text makes one chunk here, known by   *)
(* the record and the section it was cut from.                             *)
(***************************************************************************)
EXTENDS Integers, Sequences, FiniteSets, Functions

CONSTANTS Batches,    \* the ingest requests
          RecordsOf,  \* [Batches -> sequences of records]
          SourceOf,   \* source_name of each
          NoId,       \* a record without an id
          Unchecked   \* ids that are false in Python (NoId, and 0): never looked up

ASSUME NoId \in Unchecked

(* A batch is a list of records, each with the list of its sections.        *)
ASSUME RecordsAssumption ==
  \A b \in Batches :
    /\ RecordsOf[b] \in Seq(Range(RecordsOf[b]))
    /\ \A r \in Range(RecordsOf[b]) : r.sections \in Seq(Range(r.sections))

VARIABLES step,   \* [Batches -> where the request is]
          at,     \* the record being looked up, or written
          fresh,  \* indices of the records that were not found
          codes,  \* codes the record being written still has to find or create
          claims, \* codes inserted and not committed
          rows,   \* documents inserted and not committed
          types,  \* committed rows of solution_types and section_types
          docs,   \* committed documents, with their chunks
          answer, \* counts returned
          before  \* requests that were over when a request began (history)

vars == <<step, at, fresh, codes, claims, rows, types, docs, answer, before>>

Record(b, i) == RecordsOf[b][i]

NoAnswer == [ingested |-> -1, duplicates |-> -1, chunks |-> -1]

Init == /\ step = [b \in Batches |-> "idle"]
        /\ at = [b \in Batches |-> 1]
        /\ fresh = [b \in Batches |-> {}]
        /\ codes = [b \in Batches |-> <<>>]
        /\ claims = [b \in Batches |-> {}]
        /\ rows = [b \in Batches |-> {}]
        /\ types = {}
        /\ docs = {}
        /\ answer = [b \in Batches |-> NoAnswer]
        /\ before = [b \in Batches |-> {}]

Ended(b) == step[b] \in {"answered", "failed"}

Begin(b) == /\ step[b] = "idle"
            /\ step' = [step EXCEPT ![b] = "checking"]
            /\ before' = [before EXCEPT ![b] = {c \in Batches : Ended(c)}]
            /\ UNCHANGED <<at, fresh, codes, claims, rows, types, docs, answer>>

(* Mutant: an id is not turned into text before it is looked up.            *)
ExistsUnconverted(id, source) == FALSE

Exists(id, source) == /\ id \notin Unchecked
                      /\ \E d \in docs : d.id = <<id>> /\ d.source = source

(* Records are looked up one by one, before anything is written.            *)
Check(b) == /\ step[b] = "checking" /\ at[b] <= Len(RecordsOf[b])
            /\ at' = [at EXCEPT ![b] = @ + 1]
            /\ IF Exists(Record(b, at[b]).id, SourceOf[b])
               THEN UNCHANGED fresh
               ELSE fresh' = [fresh EXCEPT ![b] = @ \cup {at[b]}]
            /\ UNCHANGED <<step, codes, claims, rows, types, docs, answer, before>>

(* Records without any section text are skipped.                            *)
Normalized(b) == {i \in fresh[b] : Record(b, i).sections # <<>>}

(* Mutant: records without an id share one key.                             *)
KeyById(b, i) == <<Record(b, i).id>>

Key(b, i) == IF Record(b, i).id = NoId THEN <<b, i>> ELSE <<Record(b, i).id>>

(* Chunks are put together by the key of their record.                      *)
ChunksOf(b, i) ==
  {x \in Normalized(b) \X Range(Record(b, i).sections) :
     Key(b, x[1]) = Key(b, i) /\ x[2] \in Range(Record(b, x[1]).sections)}

(* The next record after i that is to be written, if any.                   *)
Later(b, i) == {j \in Normalized(b) : j > i}

GoTo(b, S) ==
  \/ /\ S = {}
     /\ step' = [step EXCEPT ![b] = "committing"]
     /\ UNCHANGED <<at, codes>>
  \/ \E i \in S :
       /\ \A j \in S : i <= j
       /\ step' = [step EXCEPT ![b] = "writing"]
       /\ at' = [at EXCEPT ![b] = i]
       /\ codes' = [codes EXCEPT ![b] = <<Record(b, i).solution>> \o Record(b, i).sections]

(* Every chunk is embedded before the first row is written.                 *)
Embed(b) == /\ step[b] = "checking" /\ at[b] > Len(RecordsOf[b])
            /\ GoTo(b, Normalized(b))
            /\ UNCHANGED <<fresh, claims, rows, types, docs, answer, before>>

EmbeddingFails(b) == /\ step[b] = "checking" /\ at[b] > Len(RecordsOf[b])
                     /\ Normalized(b) # {}
                     /\ step' = [step EXCEPT ![b] = "failed"]
                     /\ UNCHANGED <<at, fresh, codes, claims, rows, types, docs, answer, before>>

(* Mutant: the session is left as it is.                                    *)
RollbackMissing(b) == /\ step' = [step EXCEPT ![b] = "failed"]
                      /\ UNCHANGED <<at, fresh, codes, claims, rows, types, docs, answer, before>>

Rollback(b) == /\ step' = [step EXCEPT ![b] = "failed"]
               /\ claims' = [claims EXCEPT ![b] = {}]
               /\ rows' = [rows EXCEPT ![b] = {}]
               /\ UNCHANGED <<at, fresh, codes, types, docs, answer, before>>

(* _solution_type and _section_type: a code that is not visible is inserted. *)
FindType(b) == /\ step[b] = "writing" /\ codes[b] # <<>>
               /\ IF Head(codes[b]) \in types \cup claims[b]
                  THEN codes' = [codes EXCEPT ![b] = Tail(@)] /\ UNCHANGED step
                  ELSE step' = [step EXCEPT ![b] = "inserting"] /\ UNCHANGED codes
               /\ UNCHANGED <<at, fresh, claims, rows, types, docs, answer, before>>

(* The unique index makes an insert wait for one that is not committed.     *)
Awaits(b, c) == /\ c # b /\ step[b] = "inserting"
                /\ Head(codes[b]) \in claims[c]

CreateType(b) == /\ step[b] = "inserting"
                 /\ \A c \in Batches : ~Awaits(b, c)
                 /\ IF Head(codes[b]) \in types
                    THEN Rollback(b)
                    ELSE /\ claims' = [claims EXCEPT ![b] = @ \cup {Head(codes[b])}]
                         /\ codes' = [codes EXCEPT ![b] = Tail(@)]
                         /\ step' = [step EXCEPT ![b] = "writing"]
                         /\ UNCHANGED <<at, fresh, rows, types, docs, answer, before>>

(* Inserts that wait for each other in a circle: the database ends one.     *)
DeadlockFound(b) ==
  /\ \E C \in SUBSET Batches :
       /\ b \in C
       /\ \A c \in C : (\E d \in C : Awaits(c, d)) /\ (\E d \in C : Awaits(d, c))
  /\ Rollback(b)

Document(b, i) == LET r == Record(b, i)
                  IN [batch |-> b, index |-> i, id |-> Key(b, i), source |-> SourceOf[b],
                      solution |-> r.solution, industry |-> r.industry,
                      sections |-> Range(r.sections), chunks |-> ChunksOf(b, i)]

(* Mutant: every document is committed by itself.                           *)
InsertAndCommit(b) ==
  /\ step[b] = "writing" /\ codes[b] = <<>>
  /\ docs' = docs \cup {Document(b, at[b])}
  /\ types' = types \cup claims[b]
  /\ claims' = [claims EXCEPT ![b] = {}]
  /\ GoTo(b, Later(b, at[b]))
  /\ UNCHANGED <<fresh, rows, answer, before>>

(* The document, its sections and its chunks.                               *)
Insert(b) == /\ step[b] = "writing" /\ codes[b] = <<>>
             /\ rows' = [rows EXCEPT ![b] = @ \cup {Document(b, at[b])}]
             /\ GoTo(b, Later(b, at[b]))
             /\ UNCHANGED <<fresh, claims, types, docs, answer, before>>

(* Any statement of the transaction, and the commit, may fail.              *)
WriteFails(b) == /\ step[b] \in {"writing", "committing"}
                 /\ Rollback(b)

Commit(b) == /\ step[b] = "committing"
             /\ step' = [step EXCEPT ![b] = "answered"]
             /\ docs' = docs \cup rows[b]
             /\ types' = types \cup claims[b]
             /\ rows' = [rows EXCEPT ![b] = {}]
             /\ claims' = [claims EXCEPT ![b] = {}]
             /\ answer' = [answer EXCEPT ![b] =
                  [ingested |-> Cardinality(Normalized(b)),
                   duplicates |-> Len(RecordsOf[b]) - Cardinality(fresh[b]),
                   chunks |-> Cardinality(UNION {{d} \X d.chunks : d \in rows[b]})]]
             /\ UNCHANGED <<at, fresh, codes, before>>

BatchStep(b) == \/ Begin(b) \/ Check(b) \/ Embed(b) \/ EmbeddingFails(b) \/ FindType(b)
                \/ CreateType(b) \/ DeadlockFound(b) \/ Insert(b) \/ WriteFails(b) \/ Commit(b)

Next == \E b \in Batches : BatchStep(b)

(* A request runs in a thread of the server until it is answered.           *)
Fairness == \A b \in Batches : WF_vars(BatchStep(b))

-----------------------------------------------------------------------------
(* Correctness.                                                            *)

(* A request stores all of its new records or none, and reports what is     *)
(* stored; every code a stored row refers to is stored.                    *)
AllOrNothing ==
  /\ \A d \in docs : {d.solution} \cup d.sections \subseteq types
  /\ \A b \in Batches :
       LET mine == {d \in docs : d.batch = b}
       IN IF step[b] = "answered"
          THEN /\ {d.index : d \in mine} = Normalized(b)
               /\ Cardinality(mine) = answer[b].ingested
               /\ Cardinality(UNION {{d} \X d.chunks : d \in mine}) = answer[b].chunks
          ELSE mine = {}

(* Re-ingesting the same id from the same source is skipped: two documents  *)
(* share id and source only if one request carried both, or the requests   *)
(* overlapped, or the id is one that is never looked up.                   *)
ReingestSkipped ==
  \A d, e \in docs :
    d # e /\ d.id = e.id /\ d.source = e.source =>
      \/ d.batch = e.batch
      \/ d.batch \notin before[e.batch] /\ e.batch \notin before[d.batch]
      \/ Record(d.batch, d.index).id \in Unchecked

(* The chunks of a document are cut from its own record; only a record of   *)
(* the same request with the same id can add its own.                      *)
ChunksOfOwnText ==
  \A d \in docs : \A x \in d.chunks :
    x[1] # d.index => /\ Record(d.batch, x[1]).id = Record(d.batch, d.index).id
                      /\ Record(d.batch, d.index).id # NoId

(* Every request ends, even when two of them create the same section types  *)
(* in a different order.                                                   *)
EveryBatchEnds == \A b \in Batches : <>Ended(b)
=============================================================================
