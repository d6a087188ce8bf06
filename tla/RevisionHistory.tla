-------------------------- MODULE RevisionHistory --------------------------
(***************************************************************************)
(* Concurrent revisions of one stored section: run_revision_workflow of    *)
(* orchestration/orchestrator.py with load_section, save_section_revision  *)
(* and save_usage of services/run_store.py, each request on a database     *)
(* session of its own.                                                     *)
(*                                                                         *)
(* A revision is identified by the request that wrote it; the first draft  *)
(* is "draft".  The database shows committed rows only (read committed),   *)
(* and the unique constraint on (section, revision_number) makes an insert *)
(* wait for an uncommitted row with its number and fail on a committed one.*)
(***************************************************************************)
EXTENDS Naturals, Sequences, FiniteSets

CONSTANTS Requests,   \* revise requests, each made once
          Supplied    \* those whose payload carries base_text

ASSUME RequestsAssumption == /\ Supplied \subseteq Requests
                             /\ "draft" \notin Requests
                             /\ "client" \notin Requests

Ids == Requests \cup {"draft"}

VARIABLES revisions,  \* committed rows: [id, number, base]
          latest,     \* committed GeneratedSection.latest_revision_id
          pc,         \* where each request is
          source,     \* the revision whose text it revises, or "client"
          base,       \* section.latest_revision_id when it saves
          number,     \* the revision_number it computed
          saved,      \* what save_section_revision returned
          persisted   \* response["persisted"]

vars == <<revisions, latest, pc, source, base, number, saved, persisted>>

Init == /\ revisions = {[id |-> "draft", number |-> 1, base |-> "none"]}
        /\ latest = "draft"
        /\ pc = [r \in Requests |-> "load"]
        /\ source = [r \in Requests |-> "none"]
        /\ base = [r \in Requests |-> "none"]
        /\ number = [r \in Requests |-> 0]
        /\ saved = [r \in Requests |-> "pending"]
        /\ persisted = [r \in Requests |-> "unset"]

Goto(r, to) == pc' = [pc EXCEPT ![r] = to]

(* load_section, and the choice of the text to revise.                     *)
Load(r) == /\ pc[r] = "load"
           /\ source' = [source EXCEPT ![r] = IF r \in Supplied THEN "client" ELSE latest]
           /\ Goto(r, "run")
           /\ UNCHANGED <<revisions, latest, base, number, saved, persisted>>

(* The agentic run: a revised text, or none (then nothing is saved), or an  *)
(* exception, which the endpoint turns into an error answer.               *)
RunRevises(r) == /\ pc[r] = "run"
                 /\ Goto(r, "read_section")
                 /\ UNCHANGED <<revisions, latest, source, base, number, saved, persisted>>

RunYieldsNothing(r) == /\ pc[r] = "run"
                       /\ saved' = [saved EXCEPT ![r] = "no_text"]
                       /\ Goto(r, "save_usage")
                       /\ UNCHANGED <<revisions, latest, source, base, number, persisted>>

RunRaises(r) == /\ pc[r] = "run"
                /\ saved' = [saved EXCEPT ![r] = "no_text"]
                /\ Goto(r, "answered")
                /\ UNCHANGED <<revisions, latest, source, base, number, persisted>>

ReadSection(r) == /\ pc[r] = "read_section"
                  /\ base' = [base EXCEPT ![r] = latest]
                  /\ Goto(r, "read_max")
                  /\ UNCHANGED <<revisions, latest, source, number, saved, persisted>>

IsNewest(x) == x \in revisions /\ \A y \in revisions : y.number <= x.number

ReadMax(r) == /\ pc[r] = "read_max"
              /\ \E x \in revisions : IsNewest(x) /\ number' = [number EXCEPT ![r] = x.number + 1]
              /\ Goto(r, "insert")
              /\ UNCHANGED <<revisions, latest, source, base, saved, persisted>>

Taken(n) == \E x \in revisions : x.number = n

(* Mutant: requests that have not inserted yet hold the number too.         *)
LockedEarly(n) == \E q \in Requests : pc[q] \in {"insert", "commit"} /\ number[q] = n

Locked(n) == \E q \in Requests : pc[q] = "commit" /\ number[q] = n

Insert(r) == /\ pc[r] = "insert"
             /\ ~Locked(number[r])
             /\ ~Taken(number[r])
             /\ Goto(r, "commit")
             /\ UNCHANGED <<revisions, latest, source, base, number, saved, persisted>>

(* Mutant: a lost insert is reported as saved.                             *)
LoseSilently(r) == /\ saved' = [saved EXCEPT ![r] = "saved"]
                   /\ Goto(r, "save_usage")
                   /\ UNCHANGED <<revisions, latest, source, base, number, persisted>>

(* The unique constraint, or any other database error: the transaction is   *)
(* rolled back and save_section_revision returns None.                     *)
Lose(r) == /\ saved' = [saved EXCEPT ![r] = "lost"]
           /\ Goto(r, "save_usage")
           /\ UNCHANGED <<revisions, latest, source, base, number, persisted>>

InsertConflict(r) == /\ pc[r] = "insert"
                     /\ ~Locked(number[r])
                     /\ Taken(number[r])
                     /\ Lose(r)

DatabaseError(r) == /\ pc[r] \in {"read_section", "read_max", "insert", "commit"}
                    /\ Lose(r)

(* Mutant: the pointer moves only when nobody else has moved it.            *)
CommitIfUnmoved(r) ==
  /\ pc[r] = "commit"
  /\ revisions' = revisions \cup {[id |-> r, number |-> number[r], base |-> base[r]]}
  /\ latest' = IF latest = base[r] THEN r ELSE latest
  /\ saved' = [saved EXCEPT ![r] = "saved"]
  /\ Goto(r, "save_usage")
  /\ UNCHANGED <<source, base, number, persisted>>

(* The new row and the moved pointer become visible together.              *)
Commit(r) == /\ pc[r] = "commit"
             /\ revisions' = revisions \cup {[id |-> r, number |-> number[r], base |-> base[r]]}
             /\ latest' = r
             /\ saved' = [saved EXCEPT ![r] = "saved"]
             /\ Goto(r, "save_usage")
             /\ UNCHANGED <<source, base, number, persisted>>

(* response["persisted"] is what save_usage returns.                       *)
SaveUsage(r) == /\ pc[r] = "save_usage"
                /\ \E ok \in {"true", "false"} : persisted' = [persisted EXCEPT ![r] = ok]
                /\ Goto(r, "answered")
                /\ UNCHANGED <<revisions, latest, source, base, number, saved>>

Proceed(r) == \/ Load(r)
              \/ RunRevises(r)
              \/ RunYieldsNothing(r)
              \/ RunRaises(r)
              \/ ReadSection(r)
              \/ ReadMax(r)
              \/ Insert(r)
              \/ InsertConflict(r)
              \/ Commit(r)
              \/ SaveUsage(r)

RequestStep(r) == Proceed(r) \/ DatabaseError(r)

AllAnswered == (\A r \in Requests : pc[r] = "answered") /\ UNCHANGED vars

Next == (\E r \in Requests : RequestStep(r)) \/ AllAnswered

Spec == Init /\ [][Next]_vars

(* Each request runs on its own server thread, so one that can proceed does; *)
(* no database error is ever owed to it.                                   *)
FairSpec == Spec /\ \A r \in Requests : WF_vars(Proceed(r))

-----------------------------------------------------------------------------
(* Correctness.                                                            *)

PcValues == {"load", "run", "read_section", "read_max", "insert", "commit", "save_usage",
             "answered"}

TypeOK == /\ revisions \subseteq [id : Ids, number : Nat, base : Ids \cup {"none"}]
          /\ latest \in Ids
          /\ pc \in [Requests -> PcValues]
          /\ source \in [Requests -> Ids \cup {"none", "client"}]
          /\ base \in [Requests -> Ids \cup {"none"}]
          /\ number \in [Requests -> Nat]
          /\ saved \in [Requests -> {"pending", "saved", "lost", "no_text"}]
          /\ persisted \in [Requests -> {"unset", "true", "false"}]

(* Revision numbers identify revisions and leave no gap, however the reads  *)
(* of the maximum and the inserts of concurrent requests interleave.       *)
NumbersUnique == \A x, y \in revisions : x.number = y.number \/ x.id = y.id => x = y

NumbersGapless == \A x \in revisions : \A n \in 1..x.number : Taken(n)

(* latest_revision_id names the revision with the highest number: readers   *)
(* that follow the pointer and readers that sort by number agree.          *)
LatestIsNewest == \E x \in revisions : x.id = latest /\ IsNewest(x)

(* The recorded base is an earlier revision, never one written before the   *)
(* text that was revised: in the history, base follows or is the source.   *)
BaseIsEarlier ==
  \A x \in revisions : x.id # "draft" =>
    \E y \in revisions :
      /\ y.id = x.base
      /\ y.number < x.number
      /\ source[x.id] # "client" =>
           \E z \in revisions : z.id = source[x.id] /\ z.number <= y.number

(* However concurrent requests interleave, the committed rows are numbered   *)
(* 1, 2, 3, ..., the pointer of the section is on the last of them, and    *)
(* every row was written after its base and on top of no older text.       *)
HistoryConsistent == NumbersUnique /\ NumbersGapless /\ LatestIsNewest /\ BaseIsEarlier

(* What makes the numbers unique: a request about to insert computed its    *)
(* number from the rows it saw, and of those that inserted without having   *)
(* committed there is only one, holding the next free number.              *)
NextNumber(n) == /\ ~Taken(n)
                 /\ Taken(n - 1)

NumbersComputed ==
  \A r \in Requests :
    /\ pc[r] = "insert" => number[r] > 0 /\ Taken(number[r] - 1)
    /\ pc[r] = "commit" => number[r] > 0 /\ NextNumber(number[r])

OneUncommitted == \A q, r \in Requests : pc[q] = "commit" /\ pc[r] = "commit" => q = r

WritesOnce == \A r \in Requests :
                (\E x \in revisions : x.id = r) <=> saved[r] = "saved"

PendingUntilSaved ==
  \A r \in Requests : pc[r] \in PcValues \ {"save_usage", "answered"} => saved[r] = "pending"

IInv == /\ TypeOK
        /\ NumbersUnique
        /\ NumbersGapless
        /\ LatestIsNewest
        /\ NumbersComputed
        /\ OneUncommitted
        /\ WritesOnce
        /\ PendingUntilSaved

(* Every request is answered: waiting for another's uncommitted row is      *)
(* never for ever.                                                         *)
EveryoneAnswered == \A r \in Requests : <>(pc[r] = "answered")

(* run_store.py says a failed write is answered with persisted: false.      *)
PersistedIsTrue == \A r \in Requests : persisted[r] = "true" => saved[r] # "lost"

(* The committed revisions, oldest first, as the log of AppendOnlyHistory.  *)
CommittedLog == [n \in 1..Cardinality(revisions) |->
                   (CHOOSE x \in revisions : x.number = n).id]

Answer == [r \in Requests |-> CASE saved[r] = "pending" -> "pending"
                                [] saved[r] = "saved"   -> "stored"
                                [] OTHER                -> "not_stored"]

History == INSTANCE AppendOnlyHistory
             WITH Writers <- Requests, First <- "draft", log <- CommittedLog, answer <- Answer

ImplementsHistory == History!Spec
=============================================================================
