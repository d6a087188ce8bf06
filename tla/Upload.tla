------------------------------- MODULE Upload -------------------------------
(***************************************************************************)
(* Proposals uploaded as files (upload_historical_proposals): each file is *)
(* split into sections at its headings (ingestion/documents.py), and the   *)
(* sections are cut into chunks (ingestion/pipeline.py), which Ingestion   *)
(* stores.                                                                 *)
(*                                                                         *)
(* A file is a sequence of lines, of which each is a heading or some       *)
(* sentences.  A sentence is known by its place, [file, line, nth], and    *)
(* has a length; one character separates it from the next.                 *)
(***************************************************************************)
EXTENDS Profiles, FiniteSets, Collections

CONSTANTS Uploads,         \* sequences of files, of lines: [title, lengths]
          Unreadable,      \* a file without text, too large or of another type
          NoTitle,         \* the title of a line that is no heading
          UploadProfiles,  \* what the profile may be when it is loaded
          ChunkSize, ChunkOverlap,  \* 500 and 75
          ShortSection, ShortFront  \* 40 and 400

ASSUME SizesAssumption == /\ ChunkSize \in Nat \ {0}
                          /\ {ChunkOverlap, ShortSection, ShortFront} \subseteq Nat

(* A sentence is stripped and not empty.                                   *)
ASSUME UploadsAssumption ==
  \A u \in Uploads : /\ IsList(u)
                     /\ \A f \in DOMAIN u : u[f] # Unreadable =>
                          /\ IsList(u[f])
                          /\ \A i \in DOMAIN u[f] : u[f][i].lengths \in Seq(Nat \ {0})

VARIABLES upload,   \* the files, << >> before they arrive
          splitBy,  \* {} or the profile the request has loaded
          records,  \* what has been made of the files read so far
          report,   \* ok, or not, of each
          chunks    \* {} or what is handed on to be stored

uploadVars == <<upload, splitBy, records, report, chunks>>

UploadInit == upload = << >> /\ splitBy = {} /\ records = << >> /\ report = << >> /\ chunks = {}

-----------------------------------------------------------------------------
(* Text.                                                                   *)

Size(text) == LET size[n \in 0..Len(text)] == IF n = 0 THEN -1 ELSE size[n - 1] + 1 + text[n].length
              IN  IF text = << >> THEN 0 ELSE size[Len(text)]

Joined(texts) == FlattenSeq(texts)

AllUnder(parts, key) == Joined([i \in DOMAIN parts |-> IF parts[i].key = key THEN parts[i].text ELSE << >>])

(* Parts of one key go together, in the order of the keys' first parts.     *)
Gather(parts) ==
  LET keys == Distinct([i \in DOMAIN parts |-> parts[i].key])
  IN  [n \in DOMAIN keys |-> [key |-> keys[n], text |-> AllUnder(parts, keys[n])]]

-----------------------------------------------------------------------------
(* A file becomes a record.                                                *)

KeyOf(p, lines, i) ==
  LET headings == {h \in 1..i : lines[h].title # NoTitle}
  IN  IF headings = {} THEN "full_document" ELSE CanonicalKey(p, lines[Max(headings)].title)

Sentences(f, lines, i) ==
  IF lines[i].title # NoTitle THEN << >>
  ELSE [k \in DOMAIN lines[i].lengths |-> [file |-> f, line |-> i, nth |-> k, length |-> lines[i].lengths[k]]]

Parts(p, f) == [i \in DOMAIN upload[f] |-> [key |-> KeyOf(p, upload[f], i), text |-> Sentences(f, upload[f], i)]]

(* Headings are dropped, and so are short sections, and what comes before   *)
(* the first heading if it is short and not all there is.                  *)
SplitIntoSections(p, f) ==
  LET all  == Gather(Parts(p, f))
      long == Subsequence(all, {n \in DOMAIN all : Size(all[n].text) >= ShortSection})
  IN  Subsequence(long, {n \in DOMAIN long : \/ Len(long) = 1
                                            \/ long[n].key # "full_document"
                                            \/ Size(long[n].text) >= ShortFront})

(* The keys are looked up again, in the profile as it is now.               *)
ExtractSections(p, sections) ==
  Gather([n \in DOMAIN sections |-> [sections[n] EXCEPT !.key = CanonicalKey(p, @)]])

-----------------------------------------------------------------------------
(* A section becomes chunks, sequences of pieces of sentences.              *)

Piece(s, from, to) == [of |-> s, from |-> from, to |-> to]

ChunkLength(chunk) == Size([i \in DOMAIN chunk |-> [length |-> chunk[i].to - chunk[i].from]])

(* A sentence longer than a chunk is cut; the cuts overlap, and go on even   *)
(* if the overlap is as long as a chunk.                                   *)
Cuts(s) ==
  LET stride == Max({ChunkSize - ChunkOverlap, 1})
      more   == (s.length - ChunkSize + stride - 1) \div stride
      start(k) == k * stride
  IN  [i \in 1..(more + 1) |-> <<Piece(s, start(i - 1), Min({s.length, start(i - 1) + ChunkSize}))>>]

Flushed(state) == IF state.current = << >> THEN state.done ELSE Append(state.done, state.current)

(* Mutant: what was collected is forgotten before a long sentence.          *)
AddUnflushed(state, s) ==
  LET whole == <<Piece(s, 0, s.length)>>
  IN  CASE s.length > ChunkSize -> [done |-> state.done \o Cuts(s), current |-> << >>]
        [] s.length <= ChunkSize /\ ChunkLength(state.current \o whole) <= ChunkSize ->
             [state EXCEPT !.current = @ \o whole]
        [] OTHER -> [done |-> Flushed(state), current |-> whole]

Add(state, s) ==
  LET whole == <<Piece(s, 0, s.length)>>
  IN  CASE s.length > ChunkSize -> [done |-> Flushed(state) \o Cuts(s), current |-> << >>]
        [] s.length <= ChunkSize /\ ChunkLength(state.current \o whole) <= ChunkSize ->
             [state EXCEPT !.current = @ \o whole]
        [] OTHER -> [done |-> Flushed(state), current |-> whole]

SentenceAwareChunks(text) ==
  LET cut[n \in 0..Len(text)] ==
        IF n = 0 THEN [done |-> << >>, current |-> << >>] ELSE Add(cut[n - 1], text[n])
  IN  Flushed(cut[Len(text)])

ChunkRecord(p, sections) ==
  Joined([n \in DOMAIN sections |->
            LET cs == SentenceAwareChunks(sections[n].text)
            IN  [i \in DOMAIN cs |-> [section |-> sections[n].key, index |-> i, text |-> cs[i]]]])

-----------------------------------------------------------------------------
(* The request.                                                            *)

ReceiveFiles == /\ upload = << >>
                /\ \E u \in Uploads : upload' = u
                /\ \E p \in UploadProfiles : splitBy' = {p}
                /\ UNCHANGED <<records, report, chunks>>

NextFile == Len(report) + 1

SplitProfile == CHOOSE p \in splitBy : TRUE

ReadFile == /\ NextFile \in DOMAIN upload
            /\ upload[NextFile] # Unreadable
            /\ records' = Append(records, [file |-> NextFile, sections |-> SplitIntoSections(SplitProfile, NextFile)])
            /\ report' = Append(report, TRUE)
            /\ UNCHANGED <<upload, splitBy, chunks>>

SkipFile == /\ NextFile \in DOMAIN upload
            /\ upload[NextFile] = Unreadable
            /\ report' = Append(report, FALSE)
            /\ UNCHANGED <<upload, splitBy, records, chunks>>

(* Records without a section are left out.                                 *)
HandOn == /\ upload # << >> /\ Len(report) = Len(upload) /\ records # << >> /\ chunks = {}
          /\ \E p \in UploadProfiles :
               chunks' = {[by |-> p, list |-> Joined([n \in DOMAIN records |->
                                                ChunkRecord(p, ExtractSections(p, records[n].sections))])]}
          /\ UNCHANGED <<upload, splitBy, records, report>>

UploadNext == ReceiveFiles \/ ReadFile \/ SkipFile \/ HandOn

-----------------------------------------------------------------------------
(* Correctness.                                                            *)

TextUnder(f, key) == AllUnder(Parts(SplitProfile, f), key)

IsLong(f, key) == Size(TextUnder(f, key)) >= ShortSection

Dropped(f, key) == \/ ~IsLong(f, key)
                   \/ /\ key = "full_document" /\ Size(TextUnder(f, key)) < ShortFront
                      /\ \E i \in DOMAIN upload[f] :
                           LET other == KeyOf(SplitProfile, upload[f], i) IN other # key /\ IsLong(f, other)

(* Every sentence of a readable file is in the chunks, all of it, unless its *)
(* section was dropped for being short; a sentence that fits a chunk is in *)
(* one chunk, in one piece (ingestion/pipeline.py:105).                    *)
NothingLost ==
  \A c \in chunks : \A f \in DOMAIN upload : upload[f] # Unreadable =>
    \A i \in DOMAIN upload[f] : \A s \in ToSet(Sentences(f, upload[f], i)) :
      LET holders == {n \in DOMAIN c.list : \E x \in ToSet(c.list[n].text) : x.of = s}
          pieces  == {x \in UNION {ToSet(c.list[n].text) : n \in holders} : x.of = s}
          covered(at) == \E x \in pieces : x.from <= at /\ at < x.to
      IN  IF Dropped(f, KeyOf(SplitProfile, upload[f], i)) THEN pieces = {}
          ELSE /\ \A at \in {0} \cup {x.to : x \in pieces} : at < s.length => covered(at)
               /\ s.length <= ChunkSize => pieces = {Piece(s, 0, s.length)} /\ Cardinality(holders) = 1

(* Chunks are not too long, not empty, and of one section: the one its       *)
(* headings name now.                                                      *)
ChunksFit ==
  \A c \in chunks : \A k \in ToSet(c.list) :
    /\ ChunkLength(k.text) \in 1..ChunkSize
    /\ \A x \in ToSet(k.text) :
         k.section = CanonicalKey(c.by, KeyOf(SplitProfile, upload[x.of.file], x.of.line))

UploadKept == NothingLost /\ ChunksFit
=============================================================================
