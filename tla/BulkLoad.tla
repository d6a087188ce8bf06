------------------------------ MODULE BulkLoad ------------------------------
(***************************************************************************)
(* Filling the library from an export: import_proposals.py turns the       *)
(* export into a file of records, load_proposals.py ingests that file      *)
(* batch by batch, each in one transaction.  Either script may be stopped  *)
(* at any step, by a failure or a person, and is then run again from the   *)
(* start; the export may be edited in between.                             *)
(*                                                                         *)
(* A proposal is [id, layout, entries]; an entry is [key, length, text].   *)
(* A section is the set of the texts joined in it.                         *)
(***************************************************************************)
EXTENDS Profiles, FiniteSets

CONSTANTS Exports,      \* what the export may hold: sequences of proposals
          Anonymous,    \* a proposal without an id
          FieldMap,     \* --field-map
          MetadataKeys, \* _METADATA
          LongEnough,   \* _MIN_SECTION_CHARS
          LoadProfiles, \* the profile as a batch may read it
          BatchSize,    \* --batch-size
          MaxStarts,    \* bound on the runs of either script
          MaxEdits      \* bound on the edits of the export

(* Batches are of at least one record: range() refuses a step of 0.        *)
ASSUME BatchesAssumption == /\ BatchSize \in Nat \ {0}
                            /\ MaxStarts \in Nat
                            /\ \A e \in Exports : e \in Seq({e[i] : i \in DOMAIN e})

VARIABLES export,  \* the proposals of the input file, << >> before there is one
          corpus,  \* the records in the file of records
          torn,    \* whether that file ends in the middle of a record
          script,  \* "idle", or what runs: "importing" or "loading"
          left,    \* records it has yet to write or ingest
          loaded,  \* {} or the load, with all its records
          totals,  \* what it has counted
          stock,   \* documents in the library, with the load and record they come from
          starts,  \* scripts started
          edits    \* edits of the export

loadVars == <<export, corpus, torn, script, left, loaded, totals, stock, starts, edits>>

NoTotals == [ingested |-> 0, skipped |-> 0]

LoadInit == /\ export = << >>
            /\ corpus = << >> /\ torn = FALSE /\ script = "idle" /\ left = << >>
            /\ loaded = {} /\ totals = NoTotals /\ stock = {} /\ starts = 0 /\ edits = 0

EditExport == /\ edits < MaxEdits /\ script = "idle"
              /\ export' \in Exports \ {export}
              /\ edits' = edits + 1
              /\ UNCHANGED <<corpus, torn, script, left, loaded, totals, stock, starts>>

-----------------------------------------------------------------------------
(* import_proposals.py                                                     *)

IsText(p, e) ==
  e.length > 0 /\ (p.layout = "fields" /\ e.key \notin DOMAIN FieldMap =>
                     e.key \notin MetadataKeys /\ e.length >= LongEnough)

TargetOf(p, e) ==
  IF p.layout = "fields" /\ e.key \in DOMAIN FieldMap THEN FieldMap[e.key] ELSE SlugOf[e.key]

(* Fields of one name are joined; entries of an object or a list replace    *)
(* earlier ones of that name.                                              *)
SectionsOf(p) ==
  LET es == SelectSeq(p.entries, LAMBDA e : IsText(p, e))
      Named(k) == SelectSeq(es, LAMBDA e : TargetOf(p, e) = k)
  IN  [k \in {TargetOf(p, es[i]) : i \in DOMAIN es} |->
         IF p.layout = "fields" THEN {e.text : e \in ToSet(Named(k))} ELSE {Last(Named(k)).text}]

(* A proposal without an id is known by its place in the export.            *)
RecordOf(i) == [id |-> IF export[i].id = Anonymous THEN ToString(i) ELSE export[i].id,
                sections |-> SectionsOf(export[i])]

(* The records with a section, of the first n proposals.                    *)
NormalizedRecords ==
  LET records[n \in 0..Len(export)] ==
        IF n = 0 THEN << >>
        ELSE IF DOMAIN RecordOf(n).sections = {} THEN records[n - 1]
        ELSE Append(records[n - 1], RecordOf(n))
  IN  records[Len(export)]

(* The file is emptied when it is opened.                                   *)
StartImport == /\ script = "idle" /\ starts < MaxStarts /\ export # << >>
               /\ script' = "importing" /\ starts' = starts + 1
               /\ left' = NormalizedRecords
               /\ corpus' = << >> /\ torn' = FALSE
               /\ loaded' = {} /\ totals' = NoTotals
               /\ UNCHANGED <<export, stock, edits>>

WriteJsonl == /\ script = "importing" /\ left # << >>
              /\ corpus' = Append(corpus, Head(left))
              /\ left' = Tail(left)
              /\ UNCHANGED <<export, torn, script, loaded, totals, stock, starts, edits>>

EndImport == /\ script = "importing" /\ left = << >>
             /\ script' = "idle"
             /\ UNCHANGED <<export, corpus, torn, left, loaded, totals, stock, starts, edits>>

-----------------------------------------------------------------------------
(* load_proposals.py                                                       *)

(* A record cut off in the middle makes the script raise before it ingests. *)
StartLoad == /\ script = "idle" /\ starts \in 1..(MaxStarts - 1) /\ ~torn
             /\ script' = "loading" /\ starts' = starts + 1
             /\ left' = corpus
             /\ loaded' = {[records |-> corpus]}
             /\ totals' = NoTotals
             /\ UNCHANGED <<export, corpus, torn, stock, edits>>

(* Mutant: ids are looked up once, when the script starts.                  *)
ExistsAtStart(id) == \E d \in stock : d.id = id /\ d.load < starts

Exists(id) == \E d \in stock : d.id = id

(* Sections with one key in the profile are joined.                         *)
SectionsIn(profile, sections) ==
  [k \in {CanonicalKey(profile, s) : s \in DOMAIN sections} |->
     UNION {sections[s] : s \in {t \in DOMAIN sections : CanonicalKey(profile, t) = k}}]

Batch == SubSeq(left, 1, Min({BatchSize, Len(left)}))

(* Every record of the batch is looked up before any is stored.             *)
Fresh == {i \in DOMAIN Batch : ~Exists(Batch[i].id)}

LoadedDocument(load, profile, i) ==
  [id |-> Batch[i].id, load |-> starts, at |-> Len(load.records) - Len(left) + i,
   sections |-> SectionsIn(profile, Batch[i].sections)]

(* The profile is read again for every batch.                               *)
IngestBatch == /\ script = "loading" /\ left # << >>
               /\ \E profile \in LoadProfiles :
                    stock' = stock \cup {LoadedDocument(load, profile, i) : load \in loaded, i \in Fresh}
               /\ totals' = [ingested |-> totals.ingested + Cardinality(Fresh),
                             skipped  |-> totals.skipped + Len(Batch) - Cardinality(Fresh)]
               /\ left' = SubSeq(left, Len(Batch) + 1, Len(left))
               /\ UNCHANGED <<export, corpus, torn, script, loaded, starts, edits>>

EndLoad == /\ script = "loading" /\ left = << >>
           /\ script' = "idle"
           /\ UNCHANGED <<export, corpus, torn, left, loaded, totals, stock, starts, edits>>

(* A failed batch is rolled back and ends the script, as a kill does.       *)
Stop == /\ script # "idle"
        /\ script' = "idle" /\ left' = << >>
        /\ loaded' = {} /\ totals' = NoTotals
        /\ torn' \in (IF script = "importing" /\ left # << >> THEN BOOLEAN ELSE {torn})
        /\ UNCHANGED <<export, corpus, stock, starts, edits>>

LoadNext == \/ EditExport
            \/ StartImport \/ WriteJsonl \/ EndImport
            \/ StartLoad \/ IngestBatch \/ EndLoad
            \/ Stop

-----------------------------------------------------------------------------
(* Correctness.                                                            *)

TextsIn(sections) == UNION {sections[k] : k \in DOMAIN sections}

(* However often the scripts are stopped and run again, an id is loaded     *)
(* once; only a batch that brings it twice stores it twice.                *)
LoadedOnce ==
  \A d, e \in stock :
    d # e /\ d.id = e.id =>
      d.load = e.load /\ (d.at - 1) \div BatchSize = (e.at - 1) \div BatchSize

(* A load that has ended has every record of its file in the library, with  *)
(* all its texts: unless an earlier load, or a record before it, had its id. *)
LoadedWhole ==
  script = "idle" =>
    \A load \in loaded : \A i \in DOMAIN load.records :
      \E d \in stock :
        /\ d.id = load.records[i].id
        /\ \/ TextsIn(d.sections) = TextsIn(load.records[i].sections)
           \/ d.load < starts
           \/ d.at < i

(* The totals it prints are those of its file and of the library.           *)
TotalsTrue ==
  script = "idle" =>
    \A load \in loaded :
      /\ totals.ingested = Cardinality({d \in stock : d.load = starts})
      /\ totals.ingested + totals.skipped = Len(load.records)

(* The scripts may be run again after anything ("safe to re-run"), and what *)
(* they say they loaded is there.                                          *)
SafeToRerun == LoadedOnce /\ LoadedWhole /\ TotalsTrue
=============================================================================
