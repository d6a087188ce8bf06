--------------------------- MODULE LibraryProofs ---------------------------
(* Theorems about the library of past proposals, for any concurrent ingest  *)
(* requests with any records, and any search.                              *)
EXTENDS Library, FiniteSetTheorems, SequenceTheorems, TLAPS

Steps == {"idle", "checking", "writing", "inserting", "committing", "answered", "failed"}

Typed == /\ step \in [Batches -> Steps]
         /\ at \in [Batches -> Nat]
         /\ fresh \in [Batches -> SUBSET Nat]
         /\ before \in [Batches -> SUBSET Batches]
         /\ rows = [b \in Batches |-> rows[b]]

(* A request writes records it did not find.                               *)
WritesFresh == \A b \in Batches : /\ step[b] = "idle" => fresh[b] = {}
                                  /\ step[b] \in {"writing", "inserting"} => at[b] \in fresh[b]

EndedBefore == \A b \in Batches : \A c \in before[b] : Ended(c)

(* A row of b for its record i, written or committed.                      *)
RowOf(d, b) == /\ d.batch = b /\ d.index \in fresh[b]
               /\ d.id = Key(b, d.index) /\ d.source = SourceOf[b]
               /\ \A x \in d.chunks :
                    x[1] # d.index => /\ Record(b, x[1]).id = Record(b, d.index).id
                                      /\ Record(b, d.index).id # NoId

RowsMatch == /\ \A b \in Batches : \A d \in rows[b] : RowOf(d, b)
             /\ \A d \in docs : d.batch \in Batches /\ RowOf(d, d.batch)

(* What a request did not find, no request that was over before it has      *)
(* stored, unless it is never looked up.                                   *)
NotStored(b, i) ==
  \A d \in docs : d.batch \in before[b] /\ d.source = SourceOf[b] /\ d.id = <<Record(b, i).id>> =>
                    Record(b, i).id \in Unchecked

FreshNotStored == \A b \in Batches : \A i \in fresh[b] : NotStored(b, i)

IngestInv == Typed /\ WritesFresh /\ EndedBefore /\ RowsMatch /\ FreshNotStored

LEMMA InitIngest == LibraryInit => IngestInv
  BY DEF LibraryInit, Init, IngestInv, Typed, WritesFresh, EndedBefore, RowsMatch, FreshNotStored, Steps

LEMMA KeysDiffer ==
  ASSUME NEW b \in Batches, NEW c \in Batches, b # c, NEW i, NEW j, Key(b, i) = Key(c, j)
  PROVE  /\ Record(b, i).id = Record(c, j).id
         /\ Key(c, j) = <<Record(c, j).id>>
  BY DEF Key

LEMMA ChunksAreOwn ==
  ASSUME NEW b \in Batches, NEW i, NEW x \in ChunksOf(b, i), x[1] # i
  PROVE  Record(b, x[1]).id = Record(b, i).id /\ Record(b, i).id # NoId
  <1>1. Key(b, x[1]) = Key(b, i)
    BY DEF ChunksOf
  <1>2. QED
    BY <1>1 DEF Key

-----------------------------------------------------------------------------
LEMMA BeginIngest ==
  ASSUME IngestInv, NEW b \in Batches, Begin(b)
  PROVE  IngestInv'
  <1> USE DEF IngestInv
  <1>1. /\ step[b] = "idle" /\ step' = [step EXCEPT ![b] = "checking"] /\ fresh[b] = {}
        /\ before' = [before EXCEPT ![b] = {c \in Batches : Ended(c)}]
        /\ at' = at /\ fresh' = fresh /\ rows' = rows /\ docs' = docs
    BY DEF Begin, WritesFresh
  <1>2. Typed'
    BY <1>1 DEF Typed, Steps
  <1>3. WritesFresh'
    BY <1>1 DEF WritesFresh, Typed
  <1>4. \A c \in Batches : Ended(c) => Ended(c)'
    BY <1>1 DEF Ended, Typed
  <1>5. EndedBefore'
    BY <1>1, <1>4 DEF EndedBefore, Typed
  <1>6. RowsMatch'
    BY <1>1 DEF RowsMatch, RowOf
  <1>7. FreshNotStored'
    <2> SUFFICES ASSUME NEW c \in Batches, NEW i \in fresh[c]
                 PROVE  NotStored(c, i)'
      BY <1>1 DEF FreshNotStored
    <2>1. c # b
      BY <1>1
    <2>2. QED
      BY <1>1, <2>1 DEF FreshNotStored, NotStored, Typed
  <1>8. QED
    BY <1>2, <1>3, <1>5, <1>6, <1>7

LEMMA CheckIngest ==
  ASSUME IngestInv, NEW b \in Batches, Check(b)
  PROVE  IngestInv'
  <1> USE DEF IngestInv
  <1>1. /\ step[b] = "checking" /\ step' = step /\ before' = before /\ rows' = rows /\ docs' = docs
        /\ at' = [at EXCEPT ![b] = @ + 1]
    BY DEF Check
  <1>2. \/ fresh' = fresh
        \/ fresh' = [fresh EXCEPT ![b] = @ \cup {at[b]}] /\ ~Exists(Record(b, at[b]).id, SourceOf[b])
    BY DEF Check
  <1>3. fresh' \in [Batches -> SUBSET Nat] /\ at' \in [Batches -> Nat]
    BY <1>1, <1>2 DEF Typed
  <1>4. \A c \in Batches : /\ fresh[c] \subseteq fresh'[c]
                           /\ c # b => fresh'[c] = fresh[c] /\ at'[c] = at[c]
    BY <1>1, <1>2 DEF Typed
  <1>5. Typed'
    BY <1>1, <1>3 DEF Typed
  <1>6. WritesFresh'
    BY <1>1, <1>4 DEF WritesFresh
  <1>7. EndedBefore'
    BY <1>1 DEF EndedBefore, Ended
  <1>8. RowsMatch'
    BY <1>1, <1>4 DEF RowsMatch, RowOf
  <1>9. FreshNotStored'
    <2>1. ASSUME NEW c \in Batches, NEW i \in fresh[c]
          PROVE  NotStored(c, i)'
      BY <1>1 DEF FreshNotStored, NotStored
    <2>2. ASSUME NEW i, ~Exists(Record(b, i).id, SourceOf[b])
          PROVE  NotStored(b, i)'
      BY <1>1, <2>2 DEF NotStored, Exists
    <2>3. ASSUME NEW c \in Batches, NEW i \in fresh'[c], i \notin fresh[c]
          PROVE  c = b /\ ~Exists(Record(b, i).id, SourceOf[b])
      BY <1>2, <1>4, <2>3 DEF Typed
    <2>4. QED
      BY <2>1, <2>2, <2>3 DEF FreshNotStored
  <1>10. QED
    BY <1>5, <1>6, <1>7, <1>8, <1>9

(* The steps of a request that has looked its records up, until it commits. *)
Writing(b) ==
  /\ step[b] \in {"checking", "writing", "inserting", "committing"}
  /\ step' \in [Batches -> Steps] /\ step'[b] # "idle"
  /\ \A c \in Batches \ {b} : step'[c] = step[c] /\ at'[c] = at[c] /\ rows'[c] = rows[c]
  /\ at' \in [Batches -> Nat]
  /\ step'[b] \in {"writing", "inserting"} => at'[b] \in fresh[b]
  /\ rows' = [c \in Batches |-> rows'[c]]
  /\ \A d \in rows'[b] : d \in rows[b] \/ (at[b] \in fresh[b] /\ d = Document(b, at[b]))
  /\ UNCHANGED <<fresh, docs, before>>

LEMMA DocumentIsRow ==
  ASSUME NEW b \in Batches, at[b] \in fresh[b]
  PROVE  RowOf(Document(b, at[b]), b)
  <1> DEFINE d == Document(b, at[b])
  <1>1. /\ d.batch = b /\ d.index = at[b] /\ d.id = Key(b, at[b]) /\ d.source = SourceOf[b]
        /\ d.chunks = ChunksOf(b, at[b])
    BY DEF Document
  <1>2. QED
    BY <1>1, ChunksAreOwn DEF RowOf

LEMMA WritingIngest ==
  ASSUME IngestInv, NEW b \in Batches, Writing(b)
  PROVE  IngestInv'
  <1> USE DEF IngestInv
  <1>1. fresh' = fresh /\ docs' = docs /\ before' = before
    BY DEF Writing
  <1>2. Typed'
    BY <1>1 DEF Typed, Writing
  <1>3. WritesFresh'
    BY <1>1 DEF WritesFresh, Writing
  <1>4. EndedBefore'
    <2>1. \A c \in Batches : Ended(c) => Ended(c)'
      BY DEF Writing, Ended
    <2>2. QED
      BY <1>1, <2>1 DEF EndedBefore, Typed
  <1>5. RowsMatch'
    <2>1. \A d : \A c \in Batches : RowOf(d, c)' <=> RowOf(d, c)
      BY <1>1 DEF RowOf
    <2>2. \A d \in rows'[b] : RowOf(d, b)
      BY DocumentIsRow DEF Writing, RowsMatch
    <2>3. QED
      BY <1>1, <2>1, <2>2 DEF RowsMatch, Writing
  <1>6. FreshNotStored'
    BY <1>1 DEF FreshNotStored, NotStored
  <1>7. QED
    BY <1>2, <1>3, <1>4, <1>5, <1>6

LEMMA RollbackWrites ==
  ASSUME IngestInv, NEW b \in Batches, Rollback(b),
         step[b] \in {"writing", "inserting", "committing"}
  PROVE  Writing(b)
  BY DEF IngestInv, Typed, Rollback, Writing, Steps

(* The next record to be written was not found.                            *)
LEMMA GoToFresh ==
  ASSUME Typed, NEW b \in Batches, NEW S \in SUBSET fresh[b], GoTo(b, S)
  PROVE  /\ step' \in [Batches -> Steps] /\ step'[b] \in {"writing", "committing"}
         /\ at' \in [Batches -> Nat] /\ (step'[b] = "writing" => at'[b] \in fresh[b])
         /\ \A c \in Batches \ {b} : step'[c] = step[c] /\ at'[c] = at[c]
  <1>1. CASE step' = [step EXCEPT ![b] = "committing"] /\ at' = at
    BY <1>1 DEF Typed, Steps
  <1>2. CASE \E i \in S : step' = [step EXCEPT ![b] = "writing"] /\ at' = [at EXCEPT ![b] = i]
    BY <1>2 DEF Typed, Steps
  <1>3. QED
    BY <1>1, <1>2 DEF GoTo

LEMMA WritesStepByStep ==
  ASSUME IngestInv, NEW b \in Batches,
         \/ Embed(b) \/ EmbeddingFails(b) \/ FindType(b) \/ CreateType(b) \/ DeadlockFound(b)
         \/ Insert(b) \/ WriteFails(b)
  PROVE  Writing(b)
  <1> USE DEF IngestInv
  <1>1. CASE Embed(b)
    <2>1. GoTo(b, Normalized(b)) /\ Normalized(b) \subseteq fresh[b] /\ step[b] = "checking"
      BY <1>1 DEF Embed, Normalized
    <2>2. UNCHANGED <<fresh, docs, before, rows>>
      BY <1>1 DEF Embed
    <2>3. QED
      BY <2>1, <2>2, GoToFresh DEF Writing, Typed
  <1>2. CASE EmbeddingFails(b)
    BY <1>2 DEF EmbeddingFails, Writing, Typed, Steps
  <1>3. CASE FindType(b)
    <2>1. step[b] = "writing" /\ at[b] \in fresh[b] /\ UNCHANGED <<at, fresh, rows, docs, before>>
      BY <1>3 DEF FindType, WritesFresh
    <2>2. step' = step \/ step' = [step EXCEPT ![b] = "inserting"]
      BY <1>3 DEF FindType
    <2>3. QED
      BY <2>1, <2>2 DEF Writing, Typed, Steps
  <1>4. CASE CreateType(b)
    <2>1. CASE Rollback(b)
      BY <1>4, <2>1, RollbackWrites DEF CreateType
    <2>2. CASE step' = [step EXCEPT ![b] = "writing"] /\ UNCHANGED <<at, fresh, rows, docs, before>>
      <3>1. step[b] = "inserting" /\ at[b] \in fresh[b]
        BY <1>4 DEF CreateType, WritesFresh
      <3>2. QED
        BY <2>2, <3>1 DEF Writing, Typed, Steps
    <2>3. QED
      BY <1>4, <2>1, <2>2 DEF CreateType
  <1>5. CASE DeadlockFound(b)
    <2>1. step[b] = "inserting" /\ Rollback(b)
      BY <1>5 DEF DeadlockFound, Awaits
    <2>2. QED
      BY <2>1, RollbackWrites
  <1>6. CASE Insert(b)
    <2>1. /\ step[b] = "writing" /\ at[b] \in fresh[b] /\ UNCHANGED <<fresh, docs, before>>
          /\ rows' = [rows EXCEPT ![b] = @ \cup {Document(b, at[b])}]
          /\ GoTo(b, Later(b, at[b])) /\ Later(b, at[b]) \subseteq fresh[b]
      BY <1>6 DEF Insert, WritesFresh, Later, Normalized
    <2>2. /\ rows' = [c \in Batches |-> rows'[c]]
          /\ rows'[b] = rows[b] \cup {Document(b, at[b])}
          /\ \A c \in Batches \ {b} : rows'[c] = rows[c]
      BY <2>1 DEF Typed
    <2>3. QED
      BY <2>1, <2>2, GoToFresh DEF Writing
  <1>7. CASE WriteFails(b)
    BY <1>7, RollbackWrites DEF WriteFails
  <1>8. QED
    BY <1>1, <1>2, <1>3, <1>4, <1>5, <1>6, <1>7

(* No request that has begun comes after the one that commits.             *)
LEMMA CommitIngest ==
  ASSUME IngestInv, NEW b \in Batches, Commit(b)
  PROVE  IngestInv'
  <1> USE DEF IngestInv
  <1>1. /\ step[b] = "committing" /\ step' = [step EXCEPT ![b] = "answered"]
        /\ docs' = docs \cup rows[b] /\ rows' = [rows EXCEPT ![b] = {}]
        /\ at' = at /\ fresh' = fresh /\ before' = before
    BY DEF Commit
  <1>2. Typed' /\ WritesFresh'
    BY <1>1 DEF Typed, Steps, WritesFresh
  <1>3. \A c \in Batches : Ended(c) => Ended(c)'
    BY <1>1 DEF Ended, Typed
  <1>4. EndedBefore'
    BY <1>1, <1>3 DEF EndedBefore, Typed
  <1>5. /\ rows'[b] = {} /\ \A c \in Batches \ {b} : rows'[c] = rows[c]
    BY <1>1 DEF Typed
  <1>6. RowsMatch'
    <2>1. \A d : \A c \in Batches : RowOf(d, c)' <=> RowOf(d, c)
      BY <1>1 DEF RowOf
    <2>2. \A d \in docs' : d.batch \in Batches /\ RowOf(d, d.batch)
      <3>1. \A d \in rows[b] : RowOf(d, b) /\ d.batch = b
        BY DEF RowsMatch, RowOf
      <3>2. QED
        BY <1>1, <3>1 DEF RowsMatch
    <2>3. QED
      BY <1>5, <2>1, <2>2 DEF RowsMatch
  <1>7. FreshNotStored'
    <2> SUFFICES ASSUME NEW c \in Batches, NEW i \in fresh[c]
                 PROVE  NotStored(c, i)'
      BY <1>1 DEF FreshNotStored
    <2>1. b \notin before[c]
      BY <1>1 DEF EndedBefore, Ended
    <2>2. \A d \in rows[b] : d.batch = b
      BY DEF RowsMatch, RowOf
    <2>3. QED
      BY <1>1, <2>1, <2>2 DEF FreshNotStored, NotStored
  <1>8. QED
    BY <1>2, <1>4, <1>6, <1>7

LEMMA StutterIngest == IngestInv /\ UNCHANGED vars => IngestInv'
  BY DEF IngestInv, Typed, WritesFresh, EndedBefore, Ended, RowsMatch, RowOf, FreshNotStored,
         NotStored, vars

(* What a request did not find stays unknown to those over before it.       *)
THEOREM Invariance == LibrarySpec => []IngestInv
  <1>1. ASSUME IngestInv, [LibraryNext]_<<vars, search>>
        PROVE  IngestInv'
    <2>1. CASE UNCHANGED vars
      BY <1>1, <2>1, StutterIngest
    <2>2. CASE Next
      BY <1>1, <2>2, BeginIngest, CheckIngest, WritesStepByStep, WritingIngest, CommitIngest
         DEF Next, BatchStep
    <2>3. QED
      BY <1>1, <2>1, <2>2 DEF LibraryNext
  <1>2. QED
    BY InitIngest, <1>1, PTL DEF LibrarySpec

LEMMA RowsDiffer ==
  ASSUME IngestInv, NEW d \in docs, NEW e \in docs, d.id = e.id, d.source = e.source,
         d.batch # e.batch, d.batch \in before[e.batch]
  PROVE  Record(d.batch, d.index).id \in Unchecked
  <1>1. /\ d.batch \in Batches /\ e.batch \in Batches /\ e.index \in fresh[e.batch]
        /\ d.id = Key(d.batch, d.index) /\ e.id = Key(e.batch, e.index)
        /\ e.source = SourceOf[e.batch]
    BY DEF IngestInv, RowsMatch, RowOf
  <1> DEFINE b == d.batch
             c == e.batch
             i == d.index
             j == e.index
  <1>2. b # c /\ Key(b, i) = Key(c, j)
    BY <1>1
  <1> HIDE DEF b, c, i, j
  <1>3. Record(b, i).id = Record(c, j).id /\ Key(c, j) = <<Record(c, j).id>>
    BY <1>1, <1>2, KeysDiffer DEF b, c
  <1>4. d.id = <<Record(e.batch, e.index).id>>
    BY <1>1, <1>3 DEF c, j
  <1>5. NotStored(e.batch, e.index)
    BY <1>1 DEF IngestInv, FreshNotStored
  <1>6. QED
    BY <1>1, <1>3, <1>4, <1>5 DEF NotStored, b, c, i, j

(* Records of the same id and source are stored once, unless one request    *)
(* carries both, the requests overlap, or the id is never looked up.       *)
THEOREM ReingestIsSkipped == LibrarySpec => []ReingestSkipped
  <1>1. IngestInv => ReingestSkipped
    <2> SUFFICES ASSUME IngestInv, NEW d \in docs, NEW e \in docs,
                        d # e, d.id = e.id, d.source = e.source, d.batch # e.batch,
                        d.batch \in before[e.batch] \/ e.batch \in before[d.batch]
                 PROVE  Record(d.batch, d.index).id \in Unchecked
      BY DEF ReingestSkipped
    <2>1. CASE d.batch \in before[e.batch]
      BY <2>1, RowsDiffer
    <2>2. CASE e.batch \in before[d.batch]
      <3>1. Record(e.batch, e.index).id \in Unchecked
        BY <2>2, RowsDiffer
      <3>2. Record(d.batch, d.index).id = Record(e.batch, e.index).id
        BY KeysDiffer DEF IngestInv, RowsMatch, RowOf
      <3>3. QED
        BY <3>1, <3>2
    <2>3. QED
      BY <2>1, <2>2
  <1>2. QED
    BY <1>1, Invariance, PTL

(* The chunks of a document are cut from its own record, or from one with   *)
(* its id in the same request.                                             *)
THEOREM ChunksStayOwn == LibrarySpec => []ChunksOfOwnText
  <1>1. IngestInv => ChunksOfOwnText
    BY DEF IngestInv, RowsMatch, RowOf, ChunksOfOwnText
  <1>2. QED
    BY <1>1, Invariance, PTL

-----------------------------------------------------------------------------
(* The search.                                                             *)

(* The filters of the last query; skipping an attempt that repeats an       *)
(* earlier one skips its filters only if they are those of the last query. *)
SearchInv ==
  /\ query \in Queries
  /\ attempt \in 0..4
  /\ \A c \in results : R!Matches(c, applied)
  /\ attempt # 1 => R!Cardinality(results) <= query.top_k
  /\ attempt \in 2..4 => applied = R!Attempts(query)[attempt - 1]
  /\ attempt = 0 => R!Cardinality(results) >= R!Enough(query) \/ applied = R!Filters(query, {})

Kept(n) == CASE n = 1 -> {"section", "solution", "industry"}
             [] n = 2 -> {"section", "industry"}
             [] n = 3 -> {"section"}
             [] n = 4 -> {}

LEMMA AttemptsAreFilters ==
  ASSUME NEW q, NEW n \in 1..4
  PROVE  R!Attempts(q)[n] = R!Filters(q, Kept(n))
  <1>1. n = 1 \/ n = 2 \/ n = 3 \/ n = 4
    OBVIOUS
  <1>2. QED
    BY <1>1 DEF R!Attempts, Kept

(* An attempt that repeats an earlier one repeats the one before it: each   *)
(* keeps some of the filters of the one before.                            *)
LEMMA RepeatsTheLast ==
  ASSUME NEW q, NEW n \in 1..4, NEW m \in 1..(n - 1), R!Attempts(q)[m] = R!Attempts(q)[n]
  PROVE  n > 1 /\ R!Attempts(q)[n - 1] = R!Attempts(q)[n]
  <1>1. /\ m \in 1..4 /\ n - 1 \in 1..4 /\ n > 1
        /\ Kept(n) \subseteq Kept(n - 1) /\ Kept(n - 1) \subseteq Kept(m)
    BY DEF Kept
  <1>2. R!Filters(q, Kept(m)) = R!Filters(q, Kept(n))
    BY <1>1, AttemptsAreFilters
  <1>3. \A f \in {"section", "solution", "industry"} :
          (IF f \in Kept(n - 1) THEN q[f] ELSE {}) = (IF f \in Kept(n) THEN q[f] ELSE {})
    BY <1>1, <1>2 DEF R!Filters
  <1>4. R!Filters(q, Kept(n - 1)) = R!Filters(q, Kept(n))
    BY <1>3 DEF R!Filters
  <1>5. QED
    BY <1>1, <1>4, AttemptsAreFilters

-----------------------------------------------------------------------------
(* What a request has written: the invariant that its documents are those   *)
(* of its new records, that every code they name is found or created       *)
(* before them, and that nobody sees them before all are there.            *)

CodesOf(b, i) == {Record(b, i).solution} \cup Range(Record(b, i).sections)

(* The records whose documents a request has inserted.                     *)
Inserted(b) == {i \in Normalized(b) : \/ step[b] \in {"committing", "answered"}
                                      \/ step[b] \in {"writing", "inserting"} /\ i < at[b]}

DocumentsOf(b, S) == {Document(b, i) : i \in S}

Reading(b) == fresh[b] \subseteq 1..Len(RecordsOf[b]) /\ at[b] \in Nat \ {0}

(* The codes of the record being written are stored, or its request has      *)
(* inserted them, or has still to find them.                               *)
Finding(b) ==
  step[b] \in {"writing", "inserting"} =>
    /\ at[b] \in Normalized(b)
    /\ codes[b] \in Seq(CodesOf(b, at[b]))
    /\ step[b] = "inserting" => codes[b] # <<>>
    /\ CodesOf(b, at[b]) \subseteq types \cup claims[b] \cup Range(codes[b])

Pending(b) ==
  /\ rows[b] = IF step[b] = "answered" THEN {} ELSE DocumentsOf(b, Inserted(b))
  /\ \A d \in rows[b] : {d.solution} \cup d.sections \subseteq types \cup claims[b]

Stored(b) ==
  {d \in docs : d.batch = b} = IF step[b] = "answered" THEN DocumentsOf(b, Normalized(b)) ELSE {}

Reported(b) ==
  step[b] = "answered" =>
    /\ answer[b].ingested = Cardinality(Normalized(b))
    /\ answer[b].chunks = Cardinality(UNION {{d} \X d.chunks : d \in DocumentsOf(b, Normalized(b))})

StoreOf(b) == Reading(b) /\ Finding(b) /\ Pending(b) /\ Stored(b) /\ Reported(b)

Shapes == /\ codes = [b \in Batches |-> codes[b]]
          /\ claims = [b \in Batches |-> claims[b]]
          /\ answer = [b \in Batches |-> answer[b]]

CodesStored == \A d \in docs : {d.solution} \cup d.sections \subseteq types

StoreInv == Shapes /\ CodesStored /\ \A b \in Batches : StoreOf(b)

LEMMA InitStore == LibraryInit => StoreInv
  <1> SUFFICES ASSUME LibraryInit
               PROVE  StoreInv
    OBVIOUS
  <1>1. Shapes /\ CodesStored
    BY DEF LibraryInit, Init, Shapes, CodesStored
  <1>2. ASSUME NEW b \in Batches
        PROVE  StoreOf(b)
    <2>1. /\ step[b] = "idle" /\ at[b] = 1 /\ fresh[b] = {} /\ rows[b] = {} /\ docs = {}
      BY DEF LibraryInit, Init
    <2>2. Inserted(b) = {}
      BY <2>1 DEF Inserted
    <2>3. QED
      BY <2>1, <2>2 DEF StoreOf, Reading, Finding, Pending, Stored, Reported, DocumentsOf
  <1>3. QED
    BY <1>1, <1>2 DEF StoreInv

(* What a step that leaves a request's records alone leaves alone.          *)
LEMMA SameRecords ==
  ASSUME NEW b \in Batches, fresh'[b] = fresh[b]
  PROVE  /\ Normalized(b)' = Normalized(b)
         /\ \A i : ChunksOf(b, i)' = ChunksOf(b, i)
         /\ \A i : Document(b, i)' = Document(b, i)
         /\ \A S : DocumentsOf(b, S)' = DocumentsOf(b, S)
  <1>1. Normalized(b)' = Normalized(b)
    BY DEF Normalized, Record
  <1>2. \A i : ChunksOf(b, i)' = ChunksOf(b, i)
    BY <1>1 DEF ChunksOf, Record, Key
  <1>3. \A i : Document(b, i)' = Document(b, i)
    BY <1>2 DEF Document, Record, Key
  <1>4. QED
    BY <1>1, <1>2, <1>3 DEF DocumentsOf

(* A step of another request.                                              *)
LEMMA OthersStore ==
  ASSUME NEW c \in Batches, StoreOf(c),
         step'[c] = step[c], at'[c] = at[c], fresh'[c] = fresh[c], codes'[c] = codes[c],
         claims'[c] = claims[c], rows'[c] = rows[c], answer'[c] = answer[c],
         types \subseteq types', {d \in docs : d.batch = c}' = {d \in docs : d.batch = c}
  PROVE  StoreOf(c)'
  <1>1. Reading(c)'
    BY DEF StoreOf, Reading
  <1>2. /\ Normalized(c)' = Normalized(c) /\ Inserted(c)' = Inserted(c)
        /\ \A S : DocumentsOf(c, S)' = DocumentsOf(c, S)
    BY SameRecords DEF Inserted
  <1>3. \A i : CodesOf(c, i)' = CodesOf(c, i)
    BY DEF CodesOf, Record
  <1>4. Finding(c)'
    BY <1>2, <1>3 DEF StoreOf, Finding
  <1>5. Pending(c)'
    BY <1>2 DEF StoreOf, Pending
  <1>6. Stored(c)'
    BY <1>2 DEF StoreOf, Stored
  <1>7. Reported(c)'
    BY <1>2 DEF StoreOf, Reported
  <1>8. QED
    BY <1>1, <1>4, <1>5, <1>6, <1>7 DEF StoreOf

(* What a step of b leaves of the others, when it commits nothing.          *)
Alone(b) ==
  /\ \A c \in Batches \ {b} :
       /\ step'[c] = step[c] /\ at'[c] = at[c] /\ fresh'[c] = fresh[c] /\ codes'[c] = codes[c]
       /\ claims'[c] = claims[c] /\ rows'[c] = rows[c]
  /\ UNCHANGED <<types, docs, answer>>
  /\ Shapes'

LEMMA AloneStores ==
  ASSUME StoreInv, NEW b \in Batches, Alone(b), StoreOf(b)'
  PROVE  StoreInv'
  <1>1. \A c \in Batches \ {b} : StoreOf(c)'
    BY OthersStore DEF StoreInv, Alone
  <1>2. CodesStored'
    BY DEF StoreInv, CodesStored, Alone
  <1>3. QED
    BY <1>1, <1>2 DEF StoreInv, Alone

(* While nothing is inserted, a request's store is what it read.            *)
LEMMA NothingInserted ==
  ASSUME NEW b \in Batches, Stored(b), step[b] # "answered", Alone(b), Reading(b)',
         rows'[b] = {}, step'[b] \in {"checking", "failed"}
  PROVE  StoreOf(b)'
  <1>1. Inserted(b)' = {}
    BY DEF Inserted
  <1>2. Finding(b)' /\ Reported(b)'
    BY DEF Finding, Reported
  <1>3. Pending(b)'
    BY <1>1 DEF Pending, DocumentsOf
  <1>4. Stored(b)'
    BY DEF Stored, Alone
  <1>5. QED
    BY <1>2, <1>3, <1>4 DEF StoreOf

LEMMA NoRowsYet ==
  ASSUME NEW b \in Batches, StoreOf(b), step[b] \in {"idle", "checking", "failed"}
  PROVE  rows[b] = {}
  BY DEF StoreOf, Pending, Inserted, DocumentsOf

LEMMA BeginStores ==
  ASSUME IngestInv, StoreInv, NEW b \in Batches, Begin(b)
  PROVE  StoreInv'
  <1>1. StoreOf(b) /\ step[b] = "idle" /\ step'[b] = "checking" /\ rows'[b] = rows[b]
    BY DEF StoreInv, IngestInv, Typed, Begin
  <1>2. Alone(b)
    BY DEF Begin, Alone, StoreInv, Shapes, IngestInv, Typed
  <1>3. Reading(b)'
    BY <1>1 DEF StoreOf, Reading, Begin
  <1>4. StoreOf(b)'
    BY <1>1, <1>2, <1>3, NoRowsYet, NothingInserted DEF StoreOf
  <1>5. QED
    BY <1>2, <1>4, AloneStores

LEMMA CheckStores ==
  ASSUME IngestInv, StoreInv, NEW b \in Batches, Check(b)
  PROVE  StoreInv'
  <1>1. StoreOf(b) /\ step[b] = "checking" /\ step' = step /\ rows' = rows
    BY DEF StoreInv, Check
  <1>2. Alone(b)
    BY DEF Check, Alone, StoreInv, Shapes, IngestInv, Typed
  <1>3. Reading(b)'
    <2>1. at[b] \in Nat \ {0} /\ at[b] <= Len(RecordsOf[b]) /\ fresh[b] \subseteq 1..Len(RecordsOf[b])
      BY <1>1 DEF StoreOf, Reading, Check
    <2>2. Len(RecordsOf[b]) \in Nat
      <3>1. PICK S : RecordsOf[b] \in Seq(S)
        BY RecordsAssumption
      <3>2. QED
        BY <3>1
    <2>3. at'[b] = at[b] + 1 /\ (fresh'[b] = fresh[b] \/ fresh'[b] = fresh[b] \cup {at[b]})
      BY DEF Check, IngestInv, Typed
    <2>4. QED
      BY <2>1, <2>2, <2>3 DEF Reading
  <1>4. StoreOf(b)'
    BY <1>1, <1>2, <1>3, NoRowsYet, NothingInserted DEF StoreOf
  <1>5. QED
    BY <1>2, <1>4, AloneStores

LEMMA RollbackStores ==
  ASSUME IngestInv, StoreInv, NEW b \in Batches, step[b] # "answered", Rollback(b)
  PROVE  StoreInv'
  <1>1. StoreOf(b) /\ step'[b] = "failed" /\ rows'[b] = {}
    BY DEF StoreInv, Rollback, IngestInv, Typed
  <1>2. Alone(b)
    BY DEF Rollback, Alone, StoreInv, Shapes, IngestInv, Typed
  <1>3. Reading(b)'
    BY <1>1 DEF StoreOf, Reading, Rollback
  <1>4. StoreOf(b)'
    BY <1>1, <1>2, <1>3, NothingInserted DEF StoreOf
  <1>5. QED
    BY <1>2, <1>4, AloneStores

LEMMA EmbeddingFailureStores ==
  ASSUME IngestInv, StoreInv, NEW b \in Batches, EmbeddingFails(b)
  PROVE  StoreInv'
  <1>1. StoreOf(b) /\ step[b] = "checking" /\ step'[b] = "failed" /\ rows'[b] = rows[b]
    BY DEF StoreInv, EmbeddingFails, IngestInv, Typed
  <1>2. Alone(b)
    BY DEF EmbeddingFails, Alone, StoreInv, Shapes, IngestInv, Typed
  <1>3. Reading(b)'
    BY <1>1 DEF StoreOf, Reading, EmbeddingFails
  <1>4. StoreOf(b)'
    BY <1>1, <1>2, <1>3, NoRowsYet, NothingInserted DEF StoreOf
  <1>5. QED
    BY <1>2, <1>4, AloneStores

(* The sections of a record, and its codes, in the order they are found.    *)
LEMMA CodesInOrder ==
  ASSUME NEW b \in Batches, NEW i \in 1..Len(RecordsOf[b])
  PROVE  LET all == <<Record(b, i).solution>> \o Record(b, i).sections
         IN  all \in Seq(CodesOf(b, i)) /\ Range(all) = CodesOf(b, i)
  <1> DEFINE first == Record(b, i).solution
             sections == Record(b, i).sections
  <1>1. sections \in Seq(Range(sections))
    <2>1. PICK S : RecordsOf[b] \in Seq(S)
      BY RecordsAssumption
    <2>2. DOMAIN RecordsOf[b] = 1..Len(RecordsOf[b])
      BY <2>1
    <2>3. Record(b, i) \in Range(RecordsOf[b])
      BY <2>2 DEF Range, Record
    <2>4. QED
      BY <2>3, RecordsAssumption
  <1> HIDE DEF first, sections
  <1>2. PICK S : S = CodesOf(b, i)
    OBVIOUS
  <1>3. S = {first} \cup Range(sections)
    BY <1>2 DEF CodesOf, first, sections
  <1>4. sections \in Seq(S) /\ <<first>> \in Seq(S) /\ Len(<<first>>) = 1
    <2>1. sections \in Seq(S)
      <3>1. \A n \in 1..Len(sections) : sections[n] \in Range(sections)
        BY <1>1 DEF Range
      <3>2. QED
        BY <1>1, <1>3, <3>1
    <2>2. QED
      BY <1>3, <2>1
  <1> DEFINE all == <<first>> \o sections
  <1>5. /\ all \in Seq(S) /\ Len(all) = 1 + Len(sections) /\ Len(sections) \in Nat
        /\ \A n \in 1..Len(all) : all[n] = IF n = 1 THEN first ELSE sections[n - 1]
    BY <1>4
  <1>6. Range(all) = S
    <2> HIDE DEF all
    <2>1. DOMAIN all = 1..Len(all) /\ DOMAIN sections = 1..Len(sections)
      BY <1>4, <1>5
    <2>2. Range(all) \subseteq S
      BY <1>5, <2>1 DEF Range
    <2>3. first \in Range(all)
      BY <1>5, <2>1 DEF Range
    <2>4. ASSUME NEW x \in Range(sections)
          PROVE  x \in Range(all)
      <3>1. PICK n \in 1..Len(sections) : sections[n] = x
        BY <2>1 DEF Range
      <3>2. n + 1 \in 1..Len(all) /\ all[n + 1] = x
        BY <1>5, <3>1
      <3>3. QED
        BY <2>1, <3>2 DEF Range
    <2>5. QED
      BY <1>3, <2>2, <2>3, <2>4
  <1>7. QED
    BY <1>2, <1>5, <1>6 DEF first, sections

(* A request that goes to the next record has inserted those before it.     *)
Advances(b, done) ==
  /\ Reading(b)' /\ Finding(b)' /\ Inserted(b)' = done
  /\ step'[b] \in {"writing", "committing"}
  /\ codes' = [c \in Batches |-> codes'[c]]
  /\ \A c \in Batches \ {b} : step'[c] = step[c] /\ at'[c] = at[c] /\ codes'[c] = codes[c]

LEMMA GoToStores ==
  ASSUME IngestInv, NEW b \in Batches, Reading(b), NEW S \in SUBSET Normalized(b), GoTo(b, S),
         Shapes, fresh' = fresh, types' = types, claims' = claims,
         NEW done, done \cup S = Normalized(b), \A i \in done : \A j \in S : i < j
  PROVE  Advances(b, done)
  <1>1. Normalized(b)' = Normalized(b) /\ \A i : CodesOf(b, i)' = CodesOf(b, i)
    BY SameRecords DEF CodesOf, Record
  <1>2. Normalized(b) \subseteq 1..Len(RecordsOf[b])
    BY DEF Reading, Normalized
  <1>3. CASE S = {} /\ step' = [step EXCEPT ![b] = "committing"] /\ UNCHANGED <<at, codes>>
    <2>1. step'[b] = "committing" /\ Inserted(b)' = done
      BY <1>1, <1>3 DEF IngestInv, Typed, Inserted
    <2>2. QED
      BY <1>3, <2>1 DEF Advances, Reading, Finding, Shapes, IngestInv, Typed
  <1>4. ASSUME NEW i \in S, \A j \in S : i <= j,
               step' = [step EXCEPT ![b] = "writing"], at' = [at EXCEPT ![b] = i],
               codes' = [codes EXCEPT ![b] = <<Record(b, i).solution>> \o Record(b, i).sections]
        PROVE  Advances(b, done)
    <2> DEFINE all == <<Record(b, i).solution>> \o Record(b, i).sections
    <2>1. i \in 1..Len(RecordsOf[b]) /\ i \in Nat \ {0}
      <3>1. PICK R1 : RecordsOf[b] \in Seq(R1)
        BY RecordsAssumption
      <3>2. QED
        BY <1>2, <3>1
    <2>2. all \in Seq(CodesOf(b, i)) /\ Range(all) = CodesOf(b, i)
      BY <2>1, CodesInOrder
    <2> HIDE DEF all
    <2>3. /\ step'[b] = "writing" /\ at'[b] = i /\ codes'[b] = all
          /\ codes' = [c \in Batches |-> codes'[c]]
          /\ \A c \in Batches \ {b} : step'[c] = step[c] /\ at'[c] = at[c] /\ codes'[c] = codes[c]
      BY <1>4 DEF all, Shapes, IngestInv, Typed
    <2>4. Reading(b)'
      BY <2>1, <2>3 DEF Reading
    <2>5. Finding(b)'
      BY <1>1, <2>2, <2>3 DEF Finding
    <2>6. {j \in Normalized(b) : j < i} = done
      <3>1. Normalized(b) \subseteq Nat
        BY DEF IngestInv, Typed, Normalized
      <3>2. \A j \in done : j < i
        BY <1>4
      <3>3. \A j \in Normalized(b) : j < i => j \in done
        BY <1>4, <3>1
      <3>4. QED
        BY <3>2, <3>3
    <2>7. Inserted(b)' = done
      BY <1>1, <2>3, <2>6 DEF Inserted
    <2>8. QED
      BY <2>3, <2>4, <2>5, <2>7 DEF Advances
  <1>5. QED
    BY <1>3, <1>4 DEF GoTo

LEMMA EmbedStores ==
  ASSUME IngestInv, StoreInv, NEW b \in Batches, Embed(b)
  PROVE  StoreInv'
  <1>1. /\ StoreOf(b) /\ step[b] = "checking" /\ GoTo(b, Normalized(b)) /\ Shapes
        /\ UNCHANGED <<fresh, claims, rows, types, docs, answer>>
    BY DEF StoreInv, Embed
  <1>2. Advances(b, {})
    BY <1>1, GoToStores DEF StoreOf
  <1>3. Alone(b)
    BY <1>1, <1>2 DEF Alone, Advances, Shapes
  <1>4. Pending(b)' /\ Stored(b)' /\ Reported(b)'
    BY <1>1, <1>2, NoRowsYet DEF StoreOf, Advances, Pending, Stored, Reported, DocumentsOf
  <1>5. QED
    BY <1>2, <1>3, <1>4, AloneStores DEF StoreOf, Advances

(* The codes that are left once the first is stored or inserted.            *)
LEMMA CodeFound ==
  ASSUME NEW S, NEW all \in Seq(S), all # <<>>
  PROVE  Tail(all) \in Seq(S) /\ Range(all) = {Head(all)} \cup Range(Tail(all))
  <1>1. /\ Tail(all) \in Seq(S) /\ Len(Tail(all)) = Len(all) - 1 /\ Len(all) \in Nat \ {0}
        /\ Head(all) = all[1]
        /\ \A n \in 1..(Len(all) - 1) : Tail(all)[n] = all[n + 1]
    OBVIOUS
  <1>2. DOMAIN all = 1..Len(all) /\ DOMAIN Tail(all) = 1..(Len(all) - 1)
    BY <1>1
  <1>3. ASSUME NEW x \in Range(all), x # all[1]
        PROVE  x \in Range(Tail(all))
    <2>1. PICK n \in 1..Len(all) : all[n] = x
      BY <1>2 DEF Range
    <2>2. n - 1 \in 1..(Len(all) - 1) /\ n - 1 + 1 = n
      BY <1>1, <1>3, <2>1
    <2>3. QED
      BY <1>1, <1>2, <2>1, <2>2 DEF Range
  <1>4. ASSUME NEW x \in Range(Tail(all))
        PROVE  x \in Range(all)
    <2>1. PICK n \in 1..(Len(all) - 1) : Tail(all)[n] = x
      BY <1>2 DEF Range
    <2>2. n + 1 \in 1..Len(all) /\ all[n + 1] = x
      BY <1>1, <2>1
    <2>3. QED
      BY <1>2, <2>2 DEF Range
  <1>5. all[1] \in Range(all)
    BY <1>1, <1>2 DEF Range
  <1>6. QED
    BY <1>1, <1>3, <1>4, <1>5

(* Steps within a record: its codes are found or inserted.                  *)
LEMMA WithinRecord ==
  ASSUME StoreInv, NEW b \in Batches, Alone(b), step[b] \in {"writing", "inserting"},
         step'[b] \in {"writing", "inserting"}, Finding(b)',
         at'[b] = at[b], fresh'[b] = fresh[b], rows'[b] = rows[b], claims[b] \subseteq claims'[b]
  PROVE  StoreInv'
  <1>1. StoreOf(b)
    BY DEF StoreInv
  <1>2. /\ Normalized(b)' = Normalized(b) /\ Inserted(b)' = Inserted(b)
        /\ \A S : DocumentsOf(b, S)' = DocumentsOf(b, S)
    BY SameRecords DEF Inserted
  <1>3. Reading(b)' /\ Reported(b)'
    BY <1>1 DEF StoreOf, Reading, Reported
  <1>4. Pending(b)'
    BY <1>1, <1>2 DEF StoreOf, Pending, Alone
  <1>5. Stored(b)'
    BY <1>1 DEF StoreOf, Stored, Alone
  <1>6. QED
    BY <1>3, <1>4, <1>5, AloneStores DEF StoreOf

LEMMA FindTypeStores ==
  ASSUME IngestInv, StoreInv, NEW b \in Batches, FindType(b)
  PROVE  StoreInv'
  <1>1. /\ StoreOf(b) /\ step[b] = "writing" /\ codes[b] # <<>>
        /\ UNCHANGED <<at, fresh, claims, rows, types, docs, answer>>
    BY DEF StoreInv, FindType
  <1>2. \A i : CodesOf(b, i)' = CodesOf(b, i) /\ Normalized(b)' = Normalized(b)
    BY <1>1, SameRecords DEF CodesOf, Record
  <1>3. CASE /\ Head(codes[b]) \in types \cup claims[b]
             /\ codes' = [codes EXCEPT ![b] = Tail(@)] /\ step' = step
    <2>1. /\ codes'[b] = Tail(codes[b]) /\ step'[b] = "writing" /\ Alone(b)
      BY <1>1, <1>3 DEF Alone, StoreInv, Shapes
    <2>2. /\ Tail(codes[b]) \in Seq(CodesOf(b, at[b]))
          /\ Range(codes[b]) = {Head(codes[b])} \cup Range(Tail(codes[b]))
      BY <1>1, CodeFound DEF StoreOf, Finding
    <2>3. Finding(b)'
      BY <1>1, <1>2, <1>3, <2>1, <2>2 DEF StoreOf, Finding
    <2>4. QED
      BY <1>1, <2>1, <2>3, WithinRecord
  <1>4. CASE step' = [step EXCEPT ![b] = "inserting"] /\ codes' = codes
    <2>1. codes'[b] = codes[b] /\ step'[b] = "inserting" /\ Alone(b)
      BY <1>1, <1>4 DEF Alone, StoreInv, Shapes, IngestInv, Typed
    <2>2. Finding(b)'
      BY <1>1, <1>2, <2>1 DEF StoreOf, Finding
    <2>3. QED
      BY <1>1, <2>1, <2>2, WithinRecord
  <1>5. QED
    BY <1>3, <1>4 DEF FindType

LEMMA CreateTypeStores ==
  ASSUME IngestInv, StoreInv, NEW b \in Batches, CreateType(b)
  PROVE  StoreInv'
  <1>1. StoreOf(b) /\ step[b] = "inserting"
    BY DEF StoreInv, CreateType
  <1>2. CASE Rollback(b)
    BY <1>1, <1>2, RollbackStores
  <1>3. CASE /\ claims' = [claims EXCEPT ![b] = @ \cup {Head(codes[b])}]
             /\ codes' = [codes EXCEPT ![b] = Tail(@)]
             /\ step' = [step EXCEPT ![b] = "writing"]
             /\ UNCHANGED <<at, fresh, rows, types, docs, answer, before>>
    <2>1. /\ codes'[b] = Tail(codes[b]) /\ step'[b] = "writing" /\ Alone(b)
          /\ claims'[b] = claims[b] \cup {Head(codes[b])}
      BY <1>1, <1>3 DEF Alone, StoreInv, Shapes, IngestInv, Typed
    <2>2. \A i : CodesOf(b, i)' = CodesOf(b, i) /\ Normalized(b)' = Normalized(b)
      BY <1>3, SameRecords DEF CodesOf, Record
    <2>3. /\ Tail(codes[b]) \in Seq(CodesOf(b, at[b]))
          /\ Range(codes[b]) = {Head(codes[b])} \cup Range(Tail(codes[b]))
      BY <1>1, CodeFound DEF StoreOf, Finding
    <2>4. Finding(b)'
      BY <1>1, <1>3, <2>1, <2>2, <2>3 DEF StoreOf, Finding
    <2>5. QED
      BY <1>1, <1>3, <2>1, <2>4, WithinRecord
  <1>4. QED
    BY <1>2, <1>3 DEF CreateType

(* The document of the record just written joins those before it.          *)
LEMMA InsertStores ==
  ASSUME IngestInv, StoreInv, NEW b \in Batches, Insert(b)
  PROVE  StoreInv'
  <1> DEFINE i == at[b]
             done == {j \in Normalized(b) : j < i} \cup {i}
  <1>1. /\ StoreOf(b) /\ Shapes /\ step[b] = "writing" /\ codes[b] = <<>>
        /\ UNCHANGED <<fresh, claims, types, docs, answer>>
        /\ rows' = [rows EXCEPT ![b] = @ \cup {Document(b, i)}]
        /\ GoTo(b, Later(b, i))
    BY DEF StoreInv, Insert
  <1>2. i \in Normalized(b) /\ Normalized(b) \subseteq Nat
    BY <1>1 DEF StoreOf, Finding, IngestInv, Typed, Normalized
  <1>3. /\ Later(b, i) \subseteq Normalized(b) /\ done \cup Later(b, i) = Normalized(b)
        /\ \A m \in done : \A n \in Later(b, i) : m < n
    BY <1>2 DEF Later
  <1> HIDE DEF i, done
  <1>4. Advances(b, done)
    BY <1>1, <1>3, GoToStores DEF StoreOf
  <1>5. Alone(b) /\ rows'[b] = rows[b] \cup {Document(b, i)}
    BY <1>1, <1>4 DEF Alone, Advances, Shapes, IngestInv, Typed
  <1>6. rows'[b] = DocumentsOf(b, done)
    <2>1. rows[b] = DocumentsOf(b, {j \in Normalized(b) : j < i})
      BY <1>1 DEF StoreOf, Pending, Inserted, i
    <2>2. QED
      BY <1>5, <2>1 DEF DocumentsOf, done
  <1>7. \A d \in rows'[b] : {d.solution} \cup d.sections \subseteq types \cup claims[b]
    <2>1. \A d \in rows[b] : {d.solution} \cup d.sections \subseteq types \cup claims[b]
      BY <1>1 DEF StoreOf, Pending
    <2>2. {Document(b, i).solution} \cup Document(b, i).sections = CodesOf(b, i)
      BY DEF Document, CodesOf
    <2>3. Range(codes[b]) = {}
      BY <1>1 DEF Range
    <2>4. CodesOf(b, i) \subseteq types \cup claims[b]
      BY <1>1, <2>3 DEF StoreOf, Finding, i
    <2>5. QED
      BY <1>5, <2>1, <2>2, <2>4
  <1>8. Pending(b)'
    <2>1. \A S : DocumentsOf(b, S)' = DocumentsOf(b, S)
      BY <1>1, SameRecords
    <2>2. QED
      BY <1>1, <1>4, <1>6, <1>7, <2>1 DEF Pending, Advances
  <1>9. Stored(b)' /\ Reported(b)'
    BY <1>1, <1>4 DEF StoreOf, Stored, Reported, Advances
  <1>10. QED
    BY <1>4, <1>5, <1>8, <1>9, AloneStores DEF StoreOf, Advances

LEMMA CommitStores ==
  ASSUME IngestInv, StoreInv, NEW b \in Batches, Commit(b)
  PROVE  StoreInv'
  <1>1. /\ StoreOf(b) /\ Shapes /\ step[b] = "committing" /\ step' = [step EXCEPT ![b] = "answered"]
        /\ docs' = docs \cup rows[b] /\ types' = types \cup claims[b]
        /\ rows' = [rows EXCEPT ![b] = {}] /\ claims' = [claims EXCEPT ![b] = {}]
        /\ UNCHANGED <<at, fresh, codes>>
    BY DEF StoreInv, Commit
  <1>2. /\ answer'[b].ingested = Cardinality(Normalized(b))
        /\ answer'[b].chunks = Cardinality(UNION {{d} \X d.chunks : d \in rows[b]})
        /\ Shapes' /\ \A c \in Batches \ {b} : answer'[c] = answer[c]
    BY <1>1 DEF Commit, Shapes
  <1>3. rows[b] = DocumentsOf(b, Normalized(b)) /\ \A d \in rows[b] : d.batch = b
    BY <1>1 DEF StoreOf, Pending, Inserted, DocumentsOf, Document
  <1>4. CodesStored'
    BY <1>1 DEF StoreInv, StoreOf, Pending, CodesStored
  <1>5. \A c \in Batches \ {b} : StoreOf(c)'
    <2> SUFFICES ASSUME NEW c \in Batches \ {b}
                 PROVE  StoreOf(c)'
      OBVIOUS
    <2>1. {d \in docs : d.batch = c}' = {d \in docs : d.batch = c}
      BY <1>1, <1>3
    <2>2. QED
      BY <1>1, <1>2, <2>1, OthersStore DEF StoreInv, Shapes, IngestInv, Typed
  <1>6. StoreOf(b)'
    <2>1. /\ step'[b] = "answered" /\ rows'[b] = {} /\ fresh'[b] = fresh[b]
          /\ Normalized(b)' = Normalized(b) /\ \A S : DocumentsOf(b, S)' = DocumentsOf(b, S)
      BY <1>1, SameRecords DEF IngestInv, Typed
    <2>2. Reading(b)' /\ Finding(b)' /\ Pending(b)'
      BY <1>1, <2>1 DEF StoreOf, Reading, Finding, Pending
    <2>3. Stored(b)'
      <3>1. {d \in docs : d.batch = b} = {}
        BY <1>1 DEF StoreOf, Stored
      <3>2. {d \in docs' : d.batch = b} = DocumentsOf(b, Normalized(b))
        BY <1>1, <1>3, <3>1
      <3>3. QED
        BY <2>1, <3>2 DEF Stored
    <2>4. Reported(b)'
      BY <1>2, <1>3, <2>1 DEF Reported
    <2>5. QED
      BY <2>2, <2>3, <2>4 DEF StoreOf
  <1>7. QED
    BY <1>2, <1>4, <1>5, <1>6 DEF StoreInv

LEMMA StutterStores ==
  ASSUME StoreInv, UNCHANGED vars
  PROVE  StoreInv'
  <1>1. \A c \in Batches : StoreOf(c)'
    BY OthersStore DEF StoreInv, vars
  <1>2. QED
    BY <1>1 DEF StoreInv, Shapes, CodesStored, vars

(* A document is found again by the record it was made of.                  *)
LEMMA DocumentsCounted ==
  ASSUME NEW b \in Batches, Reading(b)
  PROVE  /\ IsFiniteSet(Normalized(b))
         /\ Cardinality(DocumentsOf(b, Normalized(b))) = Cardinality(Normalized(b))
  <1> DEFINE S == Normalized(b)
             T == DocumentsOf(b, S)
             f == [i \in S |-> Document(b, i)]
  <1>1. IsFiniteSet(S)
    <2>1. PICK R1 : RecordsOf[b] \in Seq(R1)
      BY RecordsAssumption
    <2>2. Len(RecordsOf[b]) \in Int /\ S \subseteq 1..Len(RecordsOf[b])
      BY <2>1 DEF Reading, Normalized
    <2>3. IsFiniteSet(1..Len(RecordsOf[b]))
      BY <2>2, FS_Interval
    <2>4. QED
      BY <2>2, <2>3, FS_Subset
  <1>2. \A i \in S : Document(b, i).index = i
    BY DEF Document
  <1>3. f \in Surjection(S, T)
    BY DEF Surjection, DocumentsOf
  <1>4. f \in Injection(S, T)
    BY <1>2 DEF Injection, IsInjective, DocumentsOf
  <1>5. Cardinality(T) = Cardinality(S)
    <2> HIDE DEF S, T, f
    <2>1. QED
      BY <1>1, <1>3, <1>4, FS_Surjection
  <1>6. QED
    BY <1>1, <1>5

LEMMA StoreStepKeeps ==
  IngestInv /\ StoreInv /\ [LibraryNext]_<<vars, search>> => StoreInv'
  <1> SUFFICES ASSUME IngestInv, StoreInv, [LibraryNext]_<<vars, search>>
               PROVE  StoreInv'
    OBVIOUS
  <1>1. CASE UNCHANGED vars
    BY <1>1, StutterStores
  <1>2. ASSUME NEW b \in Batches, BatchStep(b)
        PROVE  StoreInv'
    <2>1. CASE DeadlockFound(b)
      <3>1. Rollback(b) /\ step[b] = "inserting"
        BY <2>1 DEF DeadlockFound, Awaits
      <3>2. QED
        BY <3>1, RollbackStores
    <2>2. CASE WriteFails(b)
      BY <2>2, RollbackStores DEF WriteFails
    <2>3. QED
      BY <1>2, <2>1, <2>2, BeginStores, CheckStores, EmbedStores, EmbeddingFailureStores,
         FindTypeStores, CreateTypeStores, InsertStores, CommitStores DEF BatchStep
  <1>3. QED
    BY <1>1, <1>2 DEF LibraryNext, Next

(* What is written is what was new, and seen when all of it is there.       *)
THEOREM StoreInvariance == LibrarySpec => []StoreInv
  BY InitStore, Invariance, StoreStepKeeps, PTL DEF LibrarySpec

(* A request stores the documents of all of its new records or none, says   *)
(* how many documents and chunks it has stored, and no stored document      *)
(* names a type that is not stored, whichever step of it fails and whatever *)
(* other requests do meanwhile (IngestionService.ingest_records).          *)
THEOREM IngestsAllOrNothing == LibrarySpec => []AllOrNothing
  <1>1. StoreInv => AllOrNothing
    <2> SUFFICES ASSUME StoreInv, NEW b \in Batches
                 PROVE  LET mine == {d \in docs : d.batch = b}
                        IN IF step[b] = "answered"
                           THEN /\ {d.index : d \in mine} = Normalized(b)
                                /\ Cardinality(mine) = answer[b].ingested
                                /\ Cardinality(UNION {{d} \X d.chunks : d \in mine}) = answer[b].chunks
                           ELSE mine = {}
      BY DEF AllOrNothing, StoreInv, CodesStored
    <2>1. StoreOf(b)
      BY DEF StoreInv
    <2>2. {d.index : d \in DocumentsOf(b, Normalized(b))} = Normalized(b)
      <3>1. \A i : Document(b, i).index = i
        BY DEF Document
      <3>2. QED
        BY <3>1 DEF DocumentsOf
    <2>3. Cardinality(DocumentsOf(b, Normalized(b))) = Cardinality(Normalized(b))
      BY <2>1, DocumentsCounted DEF StoreOf
    <2>4. QED
      BY <2>1, <2>2, <2>3 DEF StoreOf, Stored, Reported
  <1>2. QED
    BY <1>1, StoreInvariance, PTL

LEMMA InitSearch == LibraryInit => SearchInv
  BY DEF LibraryInit, R!Init, SearchInv

LEMMA RepeatedSearch ==
  ASSUME SearchInv, R!Repeated
  PROVE  SearchInv'
  <1>1. PICK m \in 1..(attempt - 1) : R!Attempts(query)[m] = R!Attempts(query)[attempt]
    BY DEF R!Repeated, R!Attempted
  <1>2. /\ attempt \in 2..4 /\ attempt' = (attempt + 1) % 5
        /\ query' = query /\ results' = results /\ applied' = applied
    BY <1>1 DEF R!Repeated
  <1>3. applied = R!Attempts(query)[attempt]
    BY <1>1, <1>2, RepeatsTheLast DEF SearchInv
  <1>4. CASE attempt = 4
    <2>1. applied = R!Filters(query, {}) /\ attempt' = 0
      BY <1>2, <1>3, <1>4, AttemptsAreFilters DEF Kept
    <2>2. QED
      BY <1>2, <2>1 DEF SearchInv
  <1>5. CASE attempt \in 2..3
    <2>1. attempt' = attempt + 1 /\ attempt' \in 2..4 /\ attempt' - 1 = attempt
      BY <1>2, <1>5
    <2>2. QED
      BY <1>2, <1>3, <2>1 DEF SearchInv
  <1>6. QED
    BY <1>2, <1>4, <1>5

LEMMA QuerySearch ==
  ASSUME SearchInv, R!Search
  PROVE  SearchInv'
  <1> DEFINE filters == R!Attempts(query)[attempt]
  <1>1. PICK found \in R!Nearest(filters, query.top_k) :
          results' = found /\ applied' = filters /\ attempt' = R!GoOn(found)
    BY DEF R!Search
  <1>2. attempt \in 1..4 /\ query' = query /\ query \in Queries /\ query.top_k \in Nat
    BY QueriesAssumption DEF R!Search, SearchInv
  <1>3. R!Cardinality(found) <= query.top_k /\ found \subseteq R!Matching(filters)
    BY <1>1, <1>2 DEF R!Nearest
  <1>4. \A c \in results' : R!Matches(c, applied')
    BY <1>1, <1>3 DEF R!Matching
  <1>5. \/ attempt' = 0 /\ R!Cardinality(found) >= R!Enough(query)
        \/ attempt' = 0 /\ attempt = 4
        \/ attempt' = attempt + 1 /\ attempt \in 1..3
    BY <1>1, <1>2 DEF R!GoOn
  <1>6. attempt = 4 => applied' = R!Filters(query, {})
    BY <1>1, AttemptsAreFilters DEF Kept
  <1>7. attempt' \in 0..4 /\ (attempt' \in 2..4 => attempt' - 1 = attempt)
    BY <1>2, <1>5
  <1>8. attempt' \in 2..4 => applied' = R!Attempts(query')[attempt' - 1]
    BY <1>1, <1>2, <1>7
  <1>9. attempt' = 0 => \/ R!Cardinality(results') >= R!Enough(query')
                        \/ applied' = R!Filters(query', {})
    BY <1>1, <1>2, <1>5, <1>6
  <1>10. R!Cardinality(results') <= query'.top_k
    BY <1>1, <1>2, <1>3
  <1>11. QED
    BY <1>2, <1>4, <1>7, <1>8, <1>9, <1>10
       DEF SearchInv, R!Matches, R!Enough, R!Attempts, R!Filters

LEMMA StutterSearch == SearchInv /\ UNCHANGED search => SearchInv'
  BY DEF SearchInv, search, R!Matches, R!Enough, R!Attempts, R!Filters

(* Whatever is stored meanwhile, a finished search returns what satisfies   *)
(* the filters it says it applied, no more than was asked for, and little   *)
(* only when it has dropped every filter.                                  *)
THEOREM FiltersStayTruthful == LibrarySpec => []FiltersTruthful
  <1>1. SearchInv /\ [LibraryNext]_<<vars, search>> => SearchInv'
    BY RepeatedSearch, QuerySearch, StutterSearch DEF LibraryNext, R!Next
  <1>2. SearchInv => FiltersTruthful
    <2> SUFFICES ASSUME SearchInv, attempt = 0
                 PROVE  /\ \A c \in results : R!Matches(c, applied)
                        /\ R!Cardinality(results) <= query.top_k
                        /\ R!Cardinality(results) >= R!Enough(query) \/ applied = R!Filters(query, {})
      BY DEF FiltersTruthful, R!FiltersTruthful
    <2>1. QED
      BY DEF SearchInv
  <1>3. QED
    BY InitSearch, <1>1, <1>2, PTL DEF LibrarySpec

=============================================================================
