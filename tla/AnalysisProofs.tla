--------------------------- MODULE AnalysisProofs ---------------------------
(***************************************************************************)
(* Theorems about the workflows that analyse what they are given, for any   *)
(* exports, profiles and batches.  Each part has its inductive invariant.   *)
(***************************************************************************)
EXTENDS Analysis, FiniteSetTheorems, SequenceTheorems, WellFoundedInduction, TLAPS

-----------------------------------------------------------------------------
(* Induction over the numbers, in terms of a set of them.                   *)

LEMMA NatSetInduction ==
  ASSUME NEW S, 0 \in S, \A n \in Nat : n \in S => n + 1 \in S
  PROVE  Nat \subseteq S
  <1> SUFFICES ASSUME Nat \ S # {} PROVE FALSE
    OBVIOUS
  <1> DEFINE R == OpToRel(<, Nat)
  <1>1. IsWellFoundedOn(R, Nat)
    BY NatLessThanWellFounded
  <1>2. \A m, n \in Nat : m < n => <<m, n>> \in R
    BY DEF OpToRel
  <1> HIDE DEF R
  <1>3. PICK n \in Nat \ S : \A m \in Nat \ S : ~ (<<m, n>> \in R)
    BY <1>1, WFMin
  <1>4. n # 0 /\ n - 1 \in Nat /\ n - 1 < n
    BY <1>3
  <1>5. n - 1 \in S
    BY <1>2, <1>3, <1>4
  <1>6. QED
    BY <1>3, <1>4, <1>5

-----------------------------------------------------------------------------
(* Bulk loading.                                                           *)

Record(e, i) == [id |-> IF e[i].id = Anonymous THEN ToString(i) ELSE e[i].id,
                 sections |-> SectionsOf(e[i])]

AllRecords == UNION {{Record(e, i) : i \in DOMAIN e} : e \in Exports}

LoadTyped == /\ export \in Exports \cup {<< >>}
             /\ corpus \in Seq(AllRecords)
             /\ left \in Seq(AllRecords)
             /\ script \in {"idle", "importing", "loading"}
             /\ loaded \subseteq [records : Seq(AllRecords)]
             /\ \A l, m \in loaded : l = m
             /\ script = "loading" => loaded # {} /\ starts > 0
             /\ totals \in [ingested : Nat, skipped : Nat]
             /\ starts \in Nat
             /\ IsFiniteSet(stock)
             /\ \A d \in stock : d.load \in 1..starts /\ d.at \in Nat \ {0}

(* How many records of its file a load has ingested.                        *)
Done(load) == Len(load.records) - Len(left)

(* What is left to ingest is the rest of the file, from the next batch on.  *)
LeftIsRest(load) == /\ Len(left) <= Len(load.records)
                    /\ \A k \in 1..Len(left) : left[k] = load.records[Done(load) + k]
                    /\ left # << >> => \E q \in Nat : Done(load) = q * BatchSize

OfThisLoad == {d \in stock : d.load = starts}

CountsTrue(load) == /\ \A d \in OfThisLoad : d.at <= Done(load)
                    /\ totals.ingested = Cardinality(OfThisLoad)
                    /\ totals.ingested + totals.skipped = Done(load)

(* A record is in the library, or was there before, by another of its id.   *)
IsLoaded(load, i) ==
  \E d \in stock : /\ d.id = load.records[i].id
                   /\ \/ TextsIn(d.sections) = TextsIn(load.records[i].sections)
                      \/ d.load < starts
                      \/ d.at < i

Underway == \A load \in loaded : /\ script # "importing"
                                 /\ script = "idle" => left = << >>
                                 /\ LeftIsRest(load)
                                 /\ CountsTrue(load)
                                 /\ \A i \in 1..Done(load) : IsLoaded(load, i)

LoadInv == LoadTyped /\ Underway /\ LoadedOnce

LEMMA LoadInvSound == LoadInv => SafeToRerun
  <1> SUFFICES ASSUME LoadInv, script = "idle", NEW load \in loaded
               PROVE  /\ \A i \in DOMAIN load.records : IsLoaded(load, i)
                      /\ totals.ingested = Cardinality(OfThisLoad)
                      /\ totals.ingested + totals.skipped = Len(load.records)
    BY DEF LoadInv, SafeToRerun, LoadedWhole, TotalsTrue, IsLoaded, OfThisLoad
  <1>1. left = << >> /\ CountsTrue(load) /\ \A i \in 1..Done(load) : IsLoaded(load, i)
    BY DEF LoadInv, Underway
  <1>2. load.records \in Seq(AllRecords)
    BY DEF LoadInv, LoadTyped
  <1>3. Done(load) = Len(load.records) /\ DOMAIN load.records = 1..Len(load.records)
    BY <1>1, <1>2 DEF Done
  <1>4. QED
    BY <1>1, <1>3 DEF CountsTrue

LEMMA InitLoad == LoadInit => LoadInv
  <1> SUFFICES ASSUME LoadInit
               PROVE  LoadInv
    OBVIOUS
  <1>1. IsFiniteSet(stock)
    BY FS_EmptySet DEF LoadInit
  <1>2. LoadTyped
    BY <1>1 DEF LoadInit, LoadTyped, NoTotals
  <1>3. QED
    BY <1>2 DEF LoadInit, LoadInv, Underway, LoadedOnce

(* The records of an export are a sequence: one more for each proposal that *)
(* has a section.                                                          *)
LEMMA RecordsAreSequence ==
  ASSUME export \in Exports
  PROVE  NormalizedRecords \in Seq(AllRecords)
  <1> DEFINE N == Len(export)
             Next1(f, n) == IF n = 0 THEN << >>
                            ELSE IF DOMAIN RecordOf(n).sections = {} THEN f[n - 1]
                            ELSE Append(f[n - 1], RecordOf(n))
             Good(f, n) == /\ f = [m \in 0..n |-> f[m]]
                           /\ \A m \in 0..n : f[m] = Next1(f, m) /\ f[m] \in Seq(AllRecords)
  <1>1. N \in Nat /\ DOMAIN export = 1..N
    BY BatchesAssumption
  <1>2. \A n \in 1..N : RecordOf(n) \in AllRecords
    <2> SUFFICES ASSUME NEW n \in 1..N
                 PROVE  RecordOf(n) \in AllRecords
      OBVIOUS
    <2>1. RecordOf(n) = Record(export, n)
      BY DEF RecordOf, Record
    <2>2. QED
      BY <1>1, <2>1 DEF AllRecords
  <1> DEFINE S == {n \in Nat : n <= N => \E f : Good(f, n)}
  <1>3. 0 \in S
    <2> DEFINE g == [m \in 0..0 |-> << >>]
    <2>1. Good(g, 0)
      OBVIOUS
    <2>2. QED
      BY <2>1
  <1>4. ASSUME NEW n \in Nat, n \in S
        PROVE  n + 1 \in S
    <2> HIDE DEF Good
    <2> SUFFICES ASSUME n + 1 <= N
                 PROVE  \E f : Good(f, n + 1)
      OBVIOUS
    <2>1. n <= N /\ n + 1 \in 1..N
      BY <1>1
    <2>2. PICK f : Good(f, n)
      BY <1>4, <2>1
    <2> USE DEF Good
    <2> DEFINE more == IF DOMAIN RecordOf(n + 1).sections = {} THEN f[n] ELSE Append(f[n], RecordOf(n + 1))
               g == [m \in 0..(n + 1) |-> IF m = n + 1 THEN more ELSE f[m]]
    <2>3. more \in Seq(AllRecords)
      <3>1. f[n] \in Seq(AllRecords)
        BY <2>2, n \in 0..n
      <3>2. RecordOf(n + 1) \in AllRecords
        BY <1>2, <2>1
      <3> HIDE DEF Good
      <3>3. QED
        BY <3>1, <3>2
    <2>4. g[n + 1] = more /\ \A m \in 0..n : g[m] = f[m]
      OBVIOUS
    <2>5. ASSUME NEW m \in 0..n
          PROVE  g[m] = Next1(g, m) /\ g[m] \in Seq(AllRecords)
      <3>1. f[m] = Next1(f, m) /\ f[m] \in Seq(AllRecords)
        BY <2>2
      <3>2. m = 0 \/ (m - 1 \in 0..n /\ g[m - 1] = f[m - 1])
        BY <2>4
      <3>3. g[m] = f[m]
        BY <2>4
      <3> HIDE DEF g
      <3>4. Next1(g, m) = Next1(f, m)
        BY <3>2
      <3>5. QED
        BY <3>1, <3>3, <3>4
    <2>6. g[n + 1] = Next1(g, n + 1)
      <3>1. g[n] = f[n] /\ n + 1 - 1 = n /\ n + 1 # 0
        BY <2>4
      <3>2. g[n + 1] = more
        BY <2>4
      <3> HIDE DEF g
      <3>3. QED
        BY <3>1, <3>2
    <2>7. g = [m \in 0..(n + 1) |-> g[m]]
      OBVIOUS
    <2>8. \A m \in 0..(n + 1) : m \in 0..n \/ m = n + 1
      OBVIOUS
    <2> HIDE DEF g
    <2>9. Good(g, n + 1)
      BY <2>3, <2>4, <2>5, <2>6, <2>7, <2>8
    <2>10. QED
      BY <2>9
  <1> HIDE DEF S
  <1>5. Nat \subseteq S
    BY <1>3, <1>4, NatSetInduction
  <1>6. PICK f : Good(f, N)
    <2> HIDE DEF Good
    <2>1. N \in S /\ N <= N
      BY <1>1, <1>5
    <2>2. QED
      BY <2>1 DEF S
  <1> DEFINE Body(h) == [n \in 0..N |-> IF n = 0 THEN << >>
                                       ELSE IF DOMAIN RecordOf(n).sections = {} THEN h[n - 1]
                                       ELSE Append(h[n - 1], RecordOf(n))]
             r == CHOOSE h : h = Body(h)
  <1>7. f = Body(f)
    BY <1>6
  <1>8. r = Body(r)
    BY <1>7, Zenon
  <1>9. NormalizedRecords = r[N]
    BY DEF NormalizedRecords
  <1> DEFINE T == {n \in Nat : n <= N => r[n] = f[n]}
  <1> HIDE DEF r
  <1>10. 0 \in T
    <2>1. 0 \in 0..N
      BY <1>1
    <2>2. QED
      BY <1>7, <1>8, <2>1
  <1>11. ASSUME NEW n \in Nat, n \in T
         PROVE  n + 1 \in T
    <2> SUFFICES ASSUME n + 1 <= N
                 PROVE  r[n + 1] = f[n + 1]
      OBVIOUS
    <2>1. n + 1 \in 0..N /\ n <= N /\ n + 1 - 1 = n /\ n + 1 # 0
      BY <1>1
    <2>2. r[n] = f[n]
      BY <1>11, <2>1
    <2> DEFINE After(h, k) == IF DOMAIN RecordOf(k).sections = {} THEN h[k - 1]
                              ELSE Append(h[k - 1], RecordOf(k))
    <2>3. /\ r[n + 1] = After(r, n + 1)
          /\ f[n + 1] = After(f, n + 1)
      <3>1. \A h : \A k \in 0..N : k # 0 => Body(h)[k] = After(h, k)
        OBVIOUS
      <3> HIDE DEF Body, After
      <3>2. QED
        BY <1>7, <1>8, <2>1, <3>1
    <2>4. QED
      BY <2>1, <2>2, <2>3
  <1> HIDE DEF T
  <1>12. Nat \subseteq T
    BY <1>10, <1>11, NatSetInduction
  <1>13. r[N] = f[N]
    BY <1>1, <1>12 DEF T
  <1>14. f[N] \in Seq(AllRecords)
    BY <1>1, <1>6
  <1>15. QED
    BY <1>9, <1>13, <1>14

-----------------------------------------------------------------------------

(* A step that leaves the library and the load at hand as they are.         *)
LEMMA LoadUntouched ==
  ASSUME LoadInv, LoadTyped', UNCHANGED <<left, loaded, totals, stock, starts>>,
         loaded # {} => script' # "importing" /\ (script' = "idle" => left = << >>)
  PROVE  LoadInv'
  <1>1. ASSUME NEW load \in loaded
        PROVE  /\ LeftIsRest(load)' /\ CountsTrue(load)'
               /\ \A i \in 1..Done(load)' : IsLoaded(load, i)'
    <2>1. LeftIsRest(load) /\ CountsTrue(load) /\ \A i \in 1..Done(load) : IsLoaded(load, i)
      BY DEF LoadInv, Underway
    <2>2. Done(load)' = Done(load) /\ OfThisLoad' = OfThisLoad
      BY DEF Done, OfThisLoad
    <2>3. \A i : IsLoaded(load, i)' = IsLoaded(load, i)
      BY DEF IsLoaded
    <2>4. LeftIsRest(load)' = LeftIsRest(load)
      BY <2>2 DEF LeftIsRest
    <2>5. CountsTrue(load)' = CountsTrue(load)
      BY <2>2 DEF CountsTrue
    <2>6. QED
      BY <2>1, <2>2, <2>3, <2>4, <2>5
  <1>2. Underway'
    BY <1>1 DEF LoadInv, Underway
  <1>3. LoadedOnce'
    BY DEF LoadInv, LoadedOnce
  <1>4. QED
    BY <1>2, <1>3 DEF LoadInv

(* A step that ends a load, or begins none.                                 *)
LEMMA NoLoadKeeps ==
  ASSUME LoadInv, LoadTyped', loaded' = {}, UNCHANGED stock
  PROVE  LoadInv'
  BY DEF LoadInv, Underway, LoadedOnce

LEMMA StartImportKeeps ==
  ASSUME LoadInv, StartImport
  PROVE  LoadInv'
  <1>1. export \in Exports
    BY DEF LoadInv, LoadTyped, StartImport
  <1>2. left' \in Seq(AllRecords)
    BY <1>1, RecordsAreSequence DEF StartImport
  <1>3. LoadTyped'
    BY <1>2 DEF LoadInv, LoadTyped, StartImport, NoTotals
  <1>4. QED
    BY <1>3, NoLoadKeeps DEF StartImport

LEMMA StopKeeps ==
  ASSUME LoadInv, Stop
  PROVE  LoadInv'
  <1>1. LoadTyped'
    BY DEF LoadInv, LoadTyped, Stop, NoTotals
  <1>2. QED
    BY <1>1, NoLoadKeeps DEF Stop

LEMMA StartLoadKeeps ==
  ASSUME LoadInv, StartLoad
  PROVE  LoadInv'
  <1>0. PICK load : load = [records |-> corpus]
    OBVIOUS
  <1>1. /\ loaded' = {load} /\ left' = corpus /\ load.records = corpus
        /\ corpus \in Seq(AllRecords) /\ starts' = starts + 1 /\ script' = "loading"
        /\ totals'.ingested = 0 /\ totals'.skipped = 0 /\ stock' = stock /\ starts \in Nat
    BY <1>0 DEF StartLoad, LoadInv, LoadTyped, NoTotals
  <1>2. LoadTyped'
    BY <1>0, <1>1 DEF LoadInv, LoadTyped, StartLoad, NoTotals
  <1>3. Done(load)' = 0
    BY <1>1 DEF Done
  <1>4. LeftIsRest(load)'
    <2>1. \E q \in Nat : 0 = q * BatchSize
      BY BatchesAssumption, 0 * BatchSize = 0
    <2>2. QED
      BY <1>1, <1>3, <2>1 DEF LeftIsRest
  <1>5. OfThisLoad' = {}
    BY <1>1 DEF OfThisLoad, LoadInv, LoadTyped
  <1>6. CountsTrue(load)'
    BY <1>1, <1>3, <1>5, FS_EmptySet DEF CountsTrue
  <1>7. Underway'
    BY <1>1, <1>3, <1>4, <1>6 DEF Underway
  <1>8. LoadedOnce'
    BY <1>1 DEF LoadInv, LoadedOnce
  <1>9. QED
    BY <1>2, <1>7, <1>8 DEF LoadInv

LEMMA WritingKeeps ==
  ASSUME LoadInv, EditExport \/ WriteJsonl \/ EndImport \/ EndLoad
  PROVE  LoadInv'
  <1>1. CASE EditExport
    <2>1. LoadTyped'
      BY <1>1 DEF LoadInv, LoadTyped, EditExport
    <2>2. QED
      BY <1>1, <2>1, LoadUntouched DEF EditExport, LoadInv, Underway
  <1>2. CASE WriteJsonl
    <2>1. loaded = {}
      BY <1>2 DEF WriteJsonl, LoadInv, Underway
    <2>2. corpus' \in Seq(AllRecords) /\ left' \in Seq(AllRecords)
      BY <1>2 DEF WriteJsonl, LoadInv, LoadTyped
    <2>3. LoadTyped'
      BY <1>2, <2>2 DEF LoadInv, LoadTyped, WriteJsonl
    <2>4. QED
      BY <1>2, <2>1, <2>3, NoLoadKeeps DEF WriteJsonl
  <1>3. CASE EndImport
    <2>1. LoadTyped'
      BY <1>3 DEF LoadInv, LoadTyped, EndImport
    <2>2. QED
      BY <1>3, <2>1, LoadUntouched DEF EndImport
  <1>4. CASE EndLoad
    <2>1. LoadTyped'
      BY <1>4 DEF LoadInv, LoadTyped, EndLoad
    <2>2. QED
      BY <1>4, <2>1, LoadUntouched DEF EndLoad
  <1>5. QED
    BY <1>1, <1>2, <1>3, <1>4

(* Joining sections under the profile's names loses no text.                *)
LEMMA TextsStay ==
  ASSUME NEW p, NEW sections
  PROVE  TextsIn(SectionsIn(p, sections)) = TextsIn(sections)
  <1> DEFINE Keys == {CanonicalKey(p, s) : s \in DOMAIN sections}
             Under(k) == {t \in DOMAIN sections : CanonicalKey(p, t) = k}
             joined == SectionsIn(p, sections)
  <1>1. TextsIn(joined) = UNION {UNION {sections[s] : s \in Under(k)} : k \in Keys}
    <2>1. joined = [k \in Keys |-> UNION {sections[s] : s \in Under(k)}]
      BY DEF SectionsIn
    <2> HIDE DEF joined
    <2>2. DOMAIN joined = Keys /\ \A k \in Keys : joined[k] = UNION {sections[s] : s \in Under(k)}
      BY <2>1
    <2> HIDE DEF Keys, Under
    <2>3. {joined[k] : k \in Keys} = {UNION {sections[s] : s \in Under(k)} : k \in Keys}
      BY <2>2
    <2>4. QED
      BY <2>2, <2>3 DEF TextsIn
  <1>2. \A k \in Keys : UNION {sections[s] : s \in Under(k)} \subseteq UNION {sections[s] : s \in DOMAIN sections}
    OBVIOUS
  <1>3. \A s \in DOMAIN sections : s \in Under(CanonicalKey(p, s)) /\ CanonicalKey(p, s) \in Keys
    OBVIOUS
  <1>4. UNION {UNION {sections[s] : s \in Under(k)} : k \in Keys} = UNION {sections[s] : s \in DOMAIN sections}
    BY <1>2, <1>3
  <1>5. QED
    BY <1>1, <1>4 DEF TextsIn

(* Places in one batch: q whole batches before them.                        *)
LEMMA SameBatch ==
  ASSUME NEW q \in Nat, NEW r \in 0..(BatchSize - 1)
  PROVE  (q * BatchSize + r) \div BatchSize = q
  <1>1. BatchSize \in Nat \ {0}
    BY BatchesAssumption
  <1> DEFINE a == q * BatchSize + r
             k == a \div BatchSize
             m == a % BatchSize
  <1>2. /\ q * BatchSize \in Nat /\ a \in Nat
    BY <1>1
  <1> HIDE DEF a
  <1>3. k \in Int /\ m \in 0..(BatchSize - 1) /\ a = BatchSize * k + m
    BY <1>1, <1>2
  <1> USE DEF a
  <1> HIDE DEF k, m
  <1>4. ~(k >= q + 1)
    <2> SUFFICES ASSUME k >= q + 1 PROVE FALSE
      OBVIOUS
    <2>1. BatchSize * k >= BatchSize * (q + 1)
      BY <1>1, <1>3
    <2>2. BatchSize * (q + 1) = q * BatchSize + BatchSize
      BY <1>1
    <2> HIDE DEF a
    <2>3. a >= q * BatchSize + BatchSize
      BY <1>1, <1>2, <1>3, <2>1, <2>2
    <2>4. QED
      BY <1>1, <1>2, <2>3 DEF a
  <1>5. ~(k <= q - 1)
    <2> SUFFICES ASSUME k <= q - 1 PROVE FALSE
      OBVIOUS
    <2>1. BatchSize * k <= BatchSize * (q - 1)
      BY <1>1, <1>3
    <2>2. BatchSize * (q - 1) = q * BatchSize - BatchSize
      BY <1>1
    <2>3. QED
      BY <1>1, <1>2, <1>3, <2>1, <2>2
  <1>6. QED
    BY <1>3, <1>4, <1>5 DEF k

(* A batch of a load: what is in it and what is left behind it.             *)
LEMMA BatchTaken ==
  ASSUME LoadInv, left # << >>, NEW load \in loaded, left' = SubSeq(left, Len(Batch) + 1, Len(left))
  PROVE  /\ Len(Batch) \in 1..BatchSize /\ DOMAIN Batch = 1..Len(Batch)
         /\ Done(load) \in Nat /\ Done(load)' = Done(load) + Len(Batch)
         /\ \A i \in 1..Len(Batch) : Batch[i] = load.records[Done(load) + i]
         /\ left' \in Seq(AllRecords) /\ LeftIsRest(load)'
  <1> DEFINE n == Min({BatchSize, Len(left)})
  <1>1. /\ left \in Seq(AllRecords) /\ load.records \in Seq(AllRecords)
        /\ BatchSize \in Nat \ {0} /\ LeftIsRest(load)
    BY BatchesAssumption DEF LoadInv, LoadTyped, Underway
  <1>2. Len(left) \in Nat \ {0}
    BY <1>1
  <1>3. n \in {BatchSize, Len(left)} /\ n <= BatchSize /\ n <= Len(left)
    <2>1. \E x \in {BatchSize, Len(left)} : \A y \in {BatchSize, Len(left)} : x <= y
      BY <1>1, <1>2
    <2>2. n \in {BatchSize, Len(left)} /\ \A y \in {BatchSize, Len(left)} : n <= y
      BY <2>1 DEF Min
    <2>3. QED
      BY <2>2
  <1> HIDE DEF n
  <1>4. n \in Nat /\ n >= 1
    BY <1>1, <1>2, <1>3
  <1>5. Batch = SubSeq(left, 1, n)
    BY DEF Batch, n
  <1>6. /\ Len(Batch) = n /\ DOMAIN Batch = 1..n /\ \A i \in 1..n : Batch[i] = left[i]
    BY <1>1, <1>2, <1>3, <1>4, <1>5
  <1>7. /\ left' \in Seq(AllRecords) /\ Len(left') = Len(left) - n
        /\ \A k \in 1..(Len(left) - n) : left'[k] = left[n + k]
    BY <1>1, <1>2, <1>3, <1>4, <1>6
  <1>8. Done(load) \in Nat /\ Done(load)' = Done(load) + n
    <2>1. Len(load.records) \in Nat /\ Len(left) <= Len(load.records)
      BY <1>1 DEF LeftIsRest
    <2>2. Done(load) = Len(load.records) - Len(left) /\ Done(load)' = Len(load.records) - Len(left')
      BY DEF Done
    <2>3. Len(left') = Len(left) - n
      BY <1>7
    <2>4. \A a, b \in Nat : b <= a => a - b \in Nat /\ a - (b - n) = (a - b) + n
      BY <1>4
    <2>5. QED
      BY <1>2, <2>1, <2>2, <2>3, <2>4, Zenon
  <1>9. \A i \in 1..n : Batch[i] = load.records[Done(load) + i]
    <2>1. \A i \in 1..n : i \in 1..Len(left)
      BY <1>2, <1>3, <1>4
    <2>2. QED
      BY <1>1, <1>6, <2>1 DEF LeftIsRest
  <1>10. LeftIsRest(load)'
    <2>1. Len(left') <= Len(load.records)
      BY <1>1, <1>2, <1>3, <1>4, <1>7 DEF LeftIsRest
    <2>2. ASSUME NEW k \in 1..Len(left')
          PROVE  left'[k] = load.records[Done(load)' + k]
      <3>1. n + k \in 1..Len(left) /\ left'[k] = left[n + k]
        BY <1>2, <1>3, <1>4, <1>7
      <3>2. left[n + k] = load.records[Done(load) + (n + k)]
        BY <3>1, <1>1 DEF LeftIsRest
      <3>3. Done(load) + (n + k) = Done(load)' + k
        BY <1>4, <1>8, <3>1
      <3>4. QED
        BY <3>1, <3>2, <3>3
    <2>3. ASSUME left' # << >>
          PROVE  \E q \in Nat : Done(load)' = q * BatchSize
      <3>1. n = BatchSize
        BY <1>2, <1>3, <1>4, <1>7, <2>3
      <3>2. PICK q \in Nat : Done(load) = q * BatchSize
        BY <1>1 DEF LeftIsRest
      <3>3. (q + 1) * BatchSize = q * BatchSize + BatchSize
        BY <1>1
      <3>4. QED
        BY <1>8, <3>1, <3>2, <3>3
    <2>4. QED
      BY <2>1, <2>2, <2>3 DEF LeftIsRest
  <1>11. QED
    BY <1>3, <1>4, <1>6, <1>7, <1>8, <1>9, <1>10

LEMMA IngestBatchKeeps ==
  ASSUME LoadInv, IngestBatch
  PROVE  LoadInv'
  <1>0. PICK profile \in LoadProfiles :
               stock' = stock \cup {LoadedDocument(load, profile, i) : load \in loaded, i \in Fresh}
    BY DEF IngestBatch
  <1>1. PICK load \in loaded : loaded = {load}
    BY DEF LoadInv, LoadTyped, IngestBatch
  <1> DEFINE n == Len(Batch)
             done == Done(load)
             Doc(i) == LoadedDocument(load, profile, i)
             New == {Doc(i) : i \in Fresh}
  <1>2. /\ n \in 1..BatchSize /\ DOMAIN Batch = 1..n /\ done \in Nat /\ Done(load)' = done + n
        /\ \A i \in 1..n : Batch[i] = load.records[done + i]
        /\ left' \in Seq(AllRecords) /\ LeftIsRest(load)'
    BY BatchTaken DEF IngestBatch
  <1>3. /\ script' = "loading" /\ loaded' = loaded /\ starts' = starts /\ starts \in Nat
        /\ stock' = stock \cup New /\ script = "loading" /\ left # << >>
        /\ totals'.ingested = totals.ingested + Cardinality(Fresh)
        /\ totals'.skipped = totals.skipped + n - Cardinality(Fresh)
        /\ totals' = [ingested |-> totals'.ingested, skipped |-> totals'.skipped]
    BY <1>0, <1>1 DEF IngestBatch, LoadInv, LoadTyped
  <1>4. /\ LeftIsRest(load) /\ CountsTrue(load) /\ \A i \in 1..done : IsLoaded(load, i)
        /\ \A d \in stock : d.load \in 1..starts /\ d.at \in Nat \ {0}
        /\ IsFiniteSet(stock) /\ BatchSize \in Nat \ {0}
        /\ totals.ingested \in Nat /\ totals.skipped \in Nat
    BY BatchesAssumption DEF LoadInv, LoadTyped, Underway
  <1>5. Fresh \subseteq 1..n
    BY <1>2 DEF Fresh
  <1>6. IsFiniteSet(Fresh) /\ Cardinality(Fresh) \in Nat /\ Cardinality(Fresh) <= n
    <2>1. IsFiniteSet(1..n) /\ Cardinality(1..n) = n
      <3> HIDE DEF n
      <3>1. n \in Nat /\ n >= 1
        BY <1>2, <1>4
      <3>2. QED
        BY <3>1, FS_Interval
    <2>2. QED
      BY <1>5, <2>1, FS_Subset, FS_CardinalityType
  <1>7. \A i \in Fresh : /\ Doc(i).id = Batch[i].id /\ Doc(i).load = starts /\ Doc(i).at = done + i
                         /\ TextsIn(Doc(i).sections) = TextsIn(Batch[i].sections)
    BY TextsStay DEF LoadedDocument, Done
  <1> HIDE DEF Doc, done, n
  <1>8. \A i, j \in Fresh : Doc(i) = Doc(j) => i = j
    BY <1>2, <1>5, <1>7
  <1>9. IsFiniteSet(New) /\ Cardinality(New) = Cardinality(Fresh)
    <2> DEFINE f == [i \in Fresh |-> Doc(i)]
    <2>1. f \in Bijection(Fresh, New)
      <3>1. f \in [Fresh -> New] /\ \A i \in Fresh : f[i] = Doc(i)
        OBVIOUS
      <3> HIDE DEF f
      <3>2. f \in Injection(Fresh, New)
        BY <3>1, <1>8 DEF Injection, IsInjective
      <3>3. \A d \in New : \E i \in Fresh : f[i] = d
        BY <3>1
      <3>4. f \in Surjection(Fresh, New)
        BY <3>1, <3>3 DEF Surjection
      <3>5. QED
        BY <3>2, <3>4 DEF Bijection
    <2> HIDE DEF f, New
    <2>2. QED
      BY <1>6, <2>1, FS_Bijection DEF ExistsBijection
  <1>10. OfThisLoad' = OfThisLoad \cup New
    BY <1>3, <1>7 DEF OfThisLoad
  <1>11. OfThisLoad \cap New = {}
    <2>1. \A d \in OfThisLoad : d.at <= done
      BY <1>4 DEF CountsTrue, done
    <2>2. \A d \in New : d.at > done
      BY <1>2, <1>5, <1>7
    <2>3. \A d \in OfThisLoad : d.at \in Nat
      BY <1>4 DEF OfThisLoad
    <2>4. QED
      BY <1>2, <2>1, <2>2, <2>3
  <1> HIDE DEF New
  <1>12. /\ IsFiniteSet(stock') /\ IsFiniteSet(OfThisLoad)
         /\ Cardinality(OfThisLoad') = Cardinality(OfThisLoad) + Cardinality(Fresh)
         /\ Cardinality(OfThisLoad) \in Nat
    <2>1. IsFiniteSet(OfThisLoad)
      BY <1>4, FS_Subset DEF OfThisLoad
    <2>2. Cardinality({}) = 0 /\ Cardinality(OfThisLoad) \in Nat
      BY <2>1, FS_EmptySet, FS_CardinalityType
    <2>3. Cardinality(OfThisLoad \cup New) = Cardinality(OfThisLoad) + Cardinality(New)
      <3>1. Cardinality(OfThisLoad \cup New)
              = Cardinality(OfThisLoad) + Cardinality(New) - Cardinality(OfThisLoad \cap New)
        BY <1>9, <2>1, FS_Union
      <3>2. Cardinality(OfThisLoad \cap New) = 0
        BY <1>11, <2>2
      <3>3. QED
        BY <1>6, <1>9, <2>2, <3>1, <3>2
    <2>4. IsFiniteSet(stock \cup New)
      BY <1>4, <1>9, FS_Union
    <2>5. QED
      BY <1>3, <1>9, <1>10, <2>1, <2>2, <2>3, <2>4
  <1>13. \A d \in stock' : d.load \in 1..starts /\ d.at \in Nat \ {0}
    <2>1. starts >= 1
      BY <1>3 DEF LoadInv, LoadTyped
    <2>2. \A d \in New : d.load = starts /\ d.at \in Nat \ {0}
      BY <1>2, <1>5, <1>7 DEF New
    <2>3. QED
      BY <1>3, <1>4, <2>1, <2>2
  <1>14. totals' \in [ingested : Nat, skipped : Nat]
    <2>1. totals'.ingested \in Nat /\ totals'.skipped \in Nat
      BY <1>2, <1>3, <1>4, <1>6
    <2>2. QED
      BY <1>3, <2>1
  <1>15. LoadTyped'
    <2>1. export' = export /\ corpus' = corpus
      BY DEF IngestBatch
    <2>2. QED
      BY <1>2, <1>3, <1>12, <1>13, <1>14, <2>1 DEF LoadInv, LoadTyped
  <1>16. CountsTrue(load)'
    <2>1. \A d \in OfThisLoad' : d.at <= done + n
      <3>1. \A d \in New : d.at <= done + n
        <4> SUFFICES ASSUME NEW i \in Fresh
                     PROVE  Doc(i).at <= done + n
          BY DEF New
        <4>1. Doc(i).at = done + i /\ i \in 1..n
          BY <1>5, <1>7
        <4>2. QED
          BY <1>2, <4>1
      <3>2. \A d \in OfThisLoad : d.at <= done + n
        BY <1>2, <1>4 DEF CountsTrue, done, OfThisLoad
      <3>3. QED
        BY <1>10, <3>1, <3>2
    <2>2. totals'.ingested = Cardinality(OfThisLoad')
      BY <1>3, <1>4, <1>12 DEF CountsTrue
    <2>3. totals'.ingested + totals'.skipped = done + n
      BY <1>2, <1>3, <1>4, <1>6 DEF CountsTrue, done
    <2>4. QED
      BY <1>2, <2>1, <2>2, <2>3 DEF CountsTrue
  <1>17. ASSUME NEW i \in 1..(done + n)
         PROVE  IsLoaded(load, i)'
    <2>1. CASE i \in 1..done
      <3>1. IsLoaded(load, i)
        BY <1>4, <2>1 DEF done
      <3>2. QED
        BY <1>3, <3>1 DEF IsLoaded
    <2>2. CASE i \notin 1..done
      <3>1. PICK j \in 1..n : i = done + j
        <4>1. n \in Nat /\ done \in Nat /\ i \in Nat /\ i <= done + n /\ i > done
          BY <1>2, <1>4, <1>17, <2>2
        <4>2. i - done \in 1..n /\ i = done + (i - done)
          BY <4>1
        <4>3. QED
          BY <4>2
      <3>2. Batch[j] = load.records[i] /\ j \in DOMAIN Batch
        BY <1>2, <3>1
      <3>3. CASE j \in Fresh
        <4>1. Doc(j) \in stock' /\ Doc(j).id = load.records[i].id
              /\ TextsIn(Doc(j).sections) = TextsIn(load.records[i].sections)
          BY <1>3, <1>7, <3>2, <3>3 DEF New
        <4>2. QED
          BY <4>1 DEF IsLoaded
      <3>4. CASE j \notin Fresh
        <4>1. PICK d \in stock : d.id = load.records[i].id
          BY <3>2, <3>4 DEF Fresh, Exists
        <4>2. d.load < starts \/ d.at < i
          BY <1>2, <1>3, <1>4, <3>1 DEF CountsTrue, OfThisLoad, done
        <4>3. QED
          BY <1>3, <4>1, <4>2 DEF IsLoaded
      <3>5. QED
        BY <3>3, <3>4
    <2>3. QED
      BY <2>1, <2>2
  <1>18. Underway'
    <2>1. \A l \in loaded' : l = load
      BY <1>1, <1>3
    <2>2. QED
      BY <1>2, <1>3, <1>16, <1>17, <2>1 DEF Underway
  <1>19. LoadedOnce'
    <2>1. PICK q \in Nat : done = q * BatchSize
      BY <1>3, <1>4 DEF LeftIsRest, done
    <2>2. \A d \in New : d.load = starts /\ (d.at - 1) \div BatchSize = q
      <3> SUFFICES ASSUME NEW i \in Fresh
                   PROVE  Doc(i).load = starts /\ (Doc(i).at - 1) \div BatchSize = q
        BY DEF New
      <3>1. i - 1 \in 0..(BatchSize - 1) /\ Doc(i).at - 1 = q * BatchSize + (i - 1)
        <4>1. i \in 1..n /\ Doc(i).at = done + i
          BY <1>5, <1>7
        <4>2. QED
          BY <1>2, <1>4, <2>1, <4>1
      <3>2. QED
        BY <1>7, <3>1, SameBatch
    <2>3. \A d \in New, e \in stock : d.id # e.id
      BY <1>7 DEF New, Fresh, Exists
    <2>4. \A d, e \in stock : d # e /\ d.id = e.id =>
            d.load = e.load /\ (d.at - 1) \div BatchSize = (e.at - 1) \div BatchSize
      BY DEF LoadInv, LoadedOnce
    <2>5. QED
      BY <1>3, <2>2, <2>3, <2>4 DEF LoadedOnce
  <1>20. QED
    BY <1>15, <1>18, <1>19 DEF LoadInv

LEMMA LoadStepKeeps == LoadInv /\ [LoadNext]_loadVars => LoadInv'
  <1> SUFFICES ASSUME LoadInv, [LoadNext]_loadVars
               PROVE  LoadInv'
    OBVIOUS
  <1>1. CASE UNCHANGED loadVars
    <2>1. LoadTyped'
      BY <1>1 DEF loadVars, LoadInv, LoadTyped
    <2>2. QED
      BY <1>1, <2>1, LoadUntouched DEF loadVars, LoadInv, Underway
  <1>2. QED
    BY <1>1, WritingKeeps, StartImportKeeps, StartLoadKeeps, IngestBatchKeeps, StopKeeps DEF LoadNext

-----------------------------------------------------------------------------
(* Lists and their parts.                                                  *)

(* Every place has its number, and every number its place, in order.        *)
UpTo(I, i) == {j \in I : j <= i}

LEMMA PlacesInOrder ==
  ASSUME NEW I \in SUBSET Int, IsFiniteSet(I)
  PROVE  /\ Cardinality(I) \in Nat
         /\ \A n \in 1..Cardinality(I) : Place(I, n) \in I
         /\ \A i \in I : \E n \in 1..Cardinality(I) : Place(I, n) = i
         /\ \A m, n \in 1..Cardinality(I) : m < n => Place(I, m) < Place(I, n)
         /\ \A n \in 1..Cardinality(I) : Cardinality(UpTo(I, Place(I, n))) = n
         /\ \A i \in I : Cardinality(UpTo(I, i)) \in 1..Cardinality(I) /\ Place(I, Cardinality(UpTo(I, i))) = i
  <1> DEFINE c == Cardinality(I)
             upTo(i) == UpTo(I, i)
             rank == [i \in I |-> Cardinality(upTo(i))]
  <1>1. c \in Nat
    BY FS_CardinalityType
  <1>2. \A i \in I : IsFiniteSet(upTo(i)) /\ Cardinality(upTo(i)) \in Nat /\ Cardinality(upTo(i)) <= c
    <2> TAKE i \in I
    <2> HIDE DEF upTo
    <2>1. upTo(i) \in SUBSET I
      BY DEF upTo, UpTo
    <2>2. IsFiniteSet(upTo(i)) /\ Cardinality(upTo(i)) <= c
      BY <2>1, FS_Subset
    <2>3. QED
      BY <2>2, FS_CardinalityType
  <1>3. \A i \in I : Cardinality(upTo(i)) # 0
    <2> TAKE i \in I
    <2>1. i \in upTo(i)
      BY DEF UpTo
    <2> HIDE DEF upTo
    <2>2. QED
      BY <1>2, <2>1, FS_EmptySet
  <1>4. \A i, k \in I : i < k => Cardinality(upTo(i)) < Cardinality(upTo(k))
    <2> SUFFICES ASSUME NEW i \in I, NEW k \in I, i < k
                 PROVE  Cardinality(upTo(i)) < Cardinality(upTo(k))
      OBVIOUS
    <2>1. \A j \in I : j \in Int
      OBVIOUS
    <2>2. upTo(i) \in SUBSET upTo(k)
      <3>1. \A j \in I : j <= i => j <= k
        BY <2>1
      <3>2. QED
        BY <3>1 DEF UpTo
    <2>3. k \in upTo(k) /\ k \notin upTo(i)
      BY <2>1 DEF UpTo
    <2> HIDE DEF upTo
    <2>4. Cardinality(upTo(i)) <= Cardinality(upTo(k)) /\ Cardinality(upTo(i)) # Cardinality(upTo(k))
      BY <1>2, <2>2, <2>3, FS_Subset
    <2>5. QED
      BY <1>2, <2>4
  <1> HIDE DEF upTo
  <1>5. rank \in Injection(I, 1..c)
    <2>1. rank \in [I -> 1..c]
      BY <1>1, <1>2, <1>3
    <2>2. \A i, k \in I : rank[i] = rank[k] => i = k
      BY <1>2, <1>4
    <2>3. QED
      BY <2>1, <2>2 DEF Injection, IsInjective
  <1>6. IsFiniteSet(1..c) /\ Cardinality(1..c) = c
    BY <1>1, FS_Interval
  <1> HIDE DEF rank
  <1>7. rank \in Surjection(I, 1..c)
    BY <1>5, <1>6, FS_Injection
  <1> USE DEF rank
  <1>8. \A n \in 1..c : \E i \in I : Cardinality(upTo(i)) = n
    BY <1>7 DEF Surjection
  <1>9. \A n \in 1..c : Place(I, n) \in I /\ Cardinality(upTo(Place(I, n))) = n
    BY <1>8 DEF Place, upTo, UpTo
  <1>10. \A i \in I : Cardinality(upTo(i)) \in 1..c
    BY <1>1, <1>2, <1>3
  <1>11. \A i, k \in I : Cardinality(upTo(i)) <= Cardinality(upTo(k)) => i <= k
    <2>1. \A j \in I : j \in Int
      OBVIOUS
    <2>2. QED
      BY <1>2, <1>4, <2>1
  <1>12. \A i \in I : Place(I, Cardinality(upTo(i))) = i
    <2> TAKE i \in I
    <2>1. PICK n \in 1..c : n = Cardinality(upTo(i))
      BY <1>10
    <2>2. PICK k \in I : k = Place(I, n)
      BY <1>9
    <2>3. Cardinality(upTo(k)) = Cardinality(upTo(i))
      BY <1>9, <2>1, <2>2
    <2>4. k <= i /\ i <= k
      BY <1>2, <1>11, <2>3
    <2>5. QED
      BY <2>1, <2>2, <2>4
  <1>13. ASSUME NEW m \in 1..c, NEW n \in 1..c, m < n
         PROVE  Place(I, m) < Place(I, n)
    <2>1. PICK i \in I, k \in I : i = Place(I, m) /\ k = Place(I, n)
      BY <1>9
    <2>2. Cardinality(upTo(i)) = m /\ Cardinality(upTo(k)) = n
      BY <1>9, <2>1
    <2>3. i <= k /\ i # k
      BY <1>11, <1>13, <2>2
    <2>4. QED
      BY <2>1, <2>3
  <1>14. QED
    BY <1>1, <1>9, <1>10, <1>12, <1>13 DEF upTo

LEMMA SubsequenceIs ==
  ASSUME NEW S, NEW s \in Seq(S), NEW I \in SUBSET DOMAIN s
  PROVE  /\ IsFiniteSet(I) /\ Cardinality(I) \in Nat
         /\ Subsequence(s, I) \in Seq({s[i] : i \in I})
         /\ Len(Subsequence(s, I)) = Cardinality(I)
         /\ DOMAIN Subsequence(s, I) = 1..Cardinality(I)
         /\ \A n \in 1..Cardinality(I) : Place(I, n) \in I /\ Subsequence(s, I)[n] = s[Place(I, n)]
         /\ \A i \in I : \E n \in 1..Cardinality(I) : Place(I, n) = i /\ Subsequence(s, I)[n] = s[i]
         /\ \A m, n \in 1..Cardinality(I) : Place(I, m) = Place(I, n) => m = n
  <1>1. IsFiniteSet(I) /\ I \subseteq Int
    <2>1. DOMAIN s = 1..Len(s) /\ Len(s) \in Nat
      OBVIOUS
    <2>2. IsFiniteSet(DOMAIN s)
      BY <2>1, FS_Interval
    <2>3. QED
      BY <2>1, <2>2, FS_Subset
  <1>2. /\ Cardinality(I) \in Nat
        /\ \A n \in 1..Cardinality(I) : Place(I, n) \in I
        /\ \A i \in I : \E n \in 1..Cardinality(I) : Place(I, n) = i
        /\ \A m, n \in 1..Cardinality(I) : m < n => Place(I, m) < Place(I, n)
    BY <1>1, PlacesInOrder
  <1>3. \A m, n \in 1..Cardinality(I) : Place(I, m) = Place(I, n) => m = n
    <2>1. \A n \in 1..Cardinality(I) : Place(I, n) \in Int
      BY <1>1, <1>2
    <2>2. QED
      BY <1>2, <2>1
  <1>4. Subsequence(s, I) = [n \in 1..Cardinality(I) |-> s[Place(I, n)]]
    BY DEF Subsequence
  <1>5. QED
    BY <1>1, <1>2, <1>3, <1>4

LEMMA ListIs ==
  ASSUME NEW s, IsList(s)
  PROVE  /\ s \in Seq(ToSet(s)) /\ Len(s) \in Nat /\ DOMAIN s = 1..Len(s)
         /\ IsFiniteSet(DOMAIN s) /\ Cardinality(DOMAIN s) = Len(s)
  <1>1. s \in Seq(ToSet(s))
    BY DEF IsList, ToSet
  <1>2. Len(s) \in Nat /\ DOMAIN s = 1..Len(s)
    BY <1>1
  <1>3. QED
    BY <1>1, <1>2, FS_Interval

LEMMA IsListOf ==
  ASSUME NEW S, NEW s \in Seq(S)
  PROVE  IsList(s)
  <1>1. DOMAIN s = 1..Len(s) /\ Len(s) \in Nat /\ s = [i \in 1..Len(s) |-> s[i]]
    OBVIOUS
  <1>2. QED
    BY <1>1 DEF IsList

LEMMA SelectedIs ==
  ASSUME NEW s, IsList(s), NEW I \in SUBSET DOMAIN s
  PROVE  /\ IsList(Subsequence(s, I))
         /\ IsFiniteSet(I) /\ Cardinality(I) \in Nat
         /\ Len(Subsequence(s, I)) = Cardinality(I)
         /\ DOMAIN Subsequence(s, I) = 1..Cardinality(I)
         /\ ToSet(Subsequence(s, I)) = {s[i] : i \in I}
         /\ \A n \in DOMAIN Subsequence(s, I) : Place(I, n) \in I /\ Subsequence(s, I)[n] = s[Place(I, n)]
         /\ \A i \in I : \E n \in DOMAIN Subsequence(s, I) : Place(I, n) = i
         /\ \A m, n \in DOMAIN Subsequence(s, I) : Place(I, m) = Place(I, n) => m = n
  <1>1. s \in Seq(ToSet(s))
    BY ListIs
  <1> DEFINE t == Subsequence(s, I)
  <1>2. /\ IsFiniteSet(I) /\ Cardinality(I) \in Nat
        /\ t \in Seq({s[i] : i \in I})
        /\ Len(t) = Cardinality(I)
        /\ DOMAIN t = 1..Cardinality(I)
        /\ \A n \in 1..Cardinality(I) : Place(I, n) \in I /\ t[n] = s[Place(I, n)]
        /\ \A i \in I : \E n \in 1..Cardinality(I) : Place(I, n) = i /\ t[n] = s[i]
        /\ \A m, n \in 1..Cardinality(I) : Place(I, m) = Place(I, n) => m = n
    BY <1>1, SubsequenceIs
  <1> HIDE DEF t
  <1>3. IsList(t)
    BY <1>2, IsListOf
  <1>4. ToSet(t) = {s[i] : i \in I}
    <2>1. ToSet(t) \subseteq {s[i] : i \in I}
      BY <1>2 DEF ToSet
    <2>2. {s[i] : i \in I} \subseteq ToSet(t)
      BY <1>2 DEF ToSet
    <2>3. QED
      BY <2>1, <2>2
  <1>5. QED
    BY <1>2, <1>3, <1>4 DEF t

DistinctKeys(keys) == IsList(keys) /\ \A i, j \in DOMAIN keys : keys[i] = keys[j] => i = j

LEMMA DistinctIs ==
  ASSUME NEW s, IsList(s)
  PROVE  DistinctKeys(Distinct(s)) /\ ToSet(Distinct(s)) = ToSet(s)
  <1> DEFINE I == {i \in DOMAIN s : \A j \in 1..(i - 1) : s[j] # s[i]}
  <1>1. Len(s) \in Nat /\ DOMAIN s = 1..Len(s)
    BY ListIs
  <1>2. I \in SUBSET DOMAIN s /\ Distinct(s) = Subsequence(s, I)
    BY DEF Distinct
  <1>3. \A i, k \in I : s[i] = s[k] => i = k
    <2> SUFFICES ASSUME NEW i \in I, NEW k \in I, s[i] = s[k], i < k
                 PROVE  FALSE
      BY <1>1
    <2>1. i \in 1..(k - 1)
      BY <1>1
    <2>2. QED
      BY <2>1
  <1>4. \A n \in Nat : n \in DOMAIN s => \E i \in I : s[i] = s[n]
    <2> DEFINE firsts(n) == {m \in DOMAIN s : s[m] = s[n]}
    <2>1. ASSUME NEW n \in DOMAIN s
          PROVE  \E i \in I : s[i] = s[n]
      <3> DEFINE R == OpToRel(<, Nat)
      <3>1. IsWellFoundedOn(R, Nat)
        BY NatLessThanWellFounded
      <3>2. \A a, b \in Nat : a < b => <<a, b>> \in R
        BY DEF OpToRel
      <3> HIDE DEF R
      <3>3. firsts(n) # {} /\ firsts(n) \subseteq Nat
        BY <1>1
      <3>4. PICK i \in firsts(n) : \A m \in firsts(n) : ~ (<<m, i>> \in R)
        BY <3>1, <3>3, WFMin
      <3>5. \A j \in 1..(i - 1) : s[j] # s[i]
        <4> SUFFICES ASSUME NEW j \in 1..(i - 1), s[j] = s[i]
                     PROVE  FALSE
          OBVIOUS
        <4>1. j \in firsts(n) /\ j < i /\ j \in Nat /\ i \in Nat
          BY <1>1, <3>4
        <4>2. QED
          BY <3>2, <3>4, <4>1
      <3>6. QED
        BY <3>4, <3>5
    <2>2. QED
      BY <2>1
  <1>5. \A n \in DOMAIN s : n \in Nat
    BY <1>1
  <1> HIDE DEF I
  <1> DEFINE t == Subsequence(s, I)
  <1>6. /\ IsList(t) /\ ToSet(t) = {s[i] : i \in I}
        /\ \A n \in DOMAIN t : Place(I, n) \in I /\ t[n] = s[Place(I, n)]
        /\ \A m, n \in DOMAIN t : Place(I, m) = Place(I, n) => m = n
    BY <1>2, SelectedIs
  <1> HIDE DEF t
  <1>7. \A m, n \in DOMAIN t : t[m] = t[n] => m = n
    BY <1>3, <1>6
  <1>8. ToSet(t) = ToSet(s)
    <2>1. ToSet(t) \subseteq ToSet(s)
      BY <1>2, <1>6 DEF ToSet
    <2>2. ToSet(s) \subseteq ToSet(t)
      BY <1>4, <1>5, <1>6 DEF ToSet
    <2>3. QED
      BY <2>1, <2>2
  <1>9. QED
    BY <1>2, <1>6, <1>7, <1>8 DEF DistinctKeys, t

LEMMA NotBlankIs ==
  ASSUME NEW s, IsList(s)
  PROVE  IsList(NotBlank(s)) /\ ToSet(NotBlank(s)) = ToSet(s) \ {Blank}
  <1> DEFINE I == {i \in DOMAIN s : s[i] # Blank}
  <1>1. I \in SUBSET DOMAIN s /\ NotBlank(s) = Subsequence(s, I)
    BY DEF NotBlank
  <1>2. {s[i] : i \in I} = ToSet(s) \ {Blank}
    BY DEF ToSet
  <1> HIDE DEF I
  <1>3. QED
    BY <1>1, <1>2, SelectedIs

LEMMA CutIs ==
  ASSUME NEW s, IsList(s), NEW n \in Nat
  PROVE  IsList(Cut(s, n))
  <1>1. s \in Seq(ToSet(s)) /\ Len(s) \in Nat
    BY ListIs
  <1>2. Cut(s, n) \in Seq(ToSet(s))
    BY <1>1 DEF Cut
  <1>3. QED
    BY <1>2, IsListOf

(* What a division by a positive number, rounded down, is worth.            *)
LEMMA Quotient ==
  ASSUME NEW a \in Nat, NEW n \in Nat \ {0}
  PROVE  /\ a \div n \in Nat
         /\ n * (a \div n) <= a /\ a < n * (a \div n) + n
  <1> DEFINE q == a \div n
             r == a % n
  <1>1. q \in Int /\ r \in 0..(n - 1) /\ a = n * q + r
    OBVIOUS
  <1> HIDE DEF q, r
  <1>2. q >= 0
    <2> SUFFICES ASSUME q <= 0 - 1 PROVE FALSE
      BY <1>1
    <2>1. n * q <= n * (0 - 1)
      BY <1>1
    <2>2. QED
      BY <1>1, <2>1
  <1>3. n * q \in Int
    BY <1>1
  <1>4. QED
    BY <1>1, <1>2, <1>3 DEF q

(* What rounding to the nearest is worth.                                   *)
LEMMA RoundedIs ==
  ASSUME NEW n \in Int, NEW d \in Nat \ {0}
  PROVE  Rounded(n, d) \in Int /\ 2 * (d * Rounded(n, d) - n) \in (0 - d)..d
  <1> DEFINE q == n \div d
             r == n % d
  <1>1. q \in Int /\ r \in 0..(d - 1) /\ n = d * q + r
    OBVIOUS
  <1>2. Rounded(n, d) = IF 2 * r > d \/ (2 * r = d /\ q % 2 = 1) THEN q + 1 ELSE q
    BY DEF Rounded
  <1> HIDE DEF q, r
  <1>3. d * (q + 1) = d * q + d /\ d * q \in Int
    BY <1>1
  <1>4. CASE Rounded(n, d) = q + 1 /\ 2 * r >= d
    BY <1>1, <1>3, <1>4
  <1>5. CASE Rounded(n, d) = q /\ 2 * r <= d
    BY <1>1, <1>3, <1>5
  <1>6. QED
    BY <1>1, <1>2, <1>4, <1>5

LEMMA LeastOfSet ==
  ASSUME NEW S \in SUBSET Int, IsFiniteSet(S), S # {}
  PROVE  Min(S) \in S /\ \A x \in S : Min(S) <= x
  <1>1. Cardinality(S) \in Nat /\ Cardinality(S) # 0
    BY FS_CardinalityType, FS_EmptySet
  <1>2. Place(S, 1) \in S /\ \A x \in S : Place(S, 1) <= x
    <2>1. 1 \in 1..Cardinality(S)
      BY <1>1
    <2>2. ASSUME NEW x \in S
          PROVE  Place(S, 1) <= x
      <3>1. PICK n \in 1..Cardinality(S) : Place(S, n) = x
        BY PlacesInOrder
      <3>2. CASE n = 1
        BY <3>1, <3>2
      <3>3. CASE 1 < n
        <4>1. Place(S, 1) < Place(S, n) /\ Place(S, 1) \in Int /\ x \in Int
          BY <2>1, <3>3, PlacesInOrder
        <4>2. QED
          BY <3>1, <4>1, SMT
      <3>4. QED
        BY <1>1, <3>2, <3>3
    <2>3. QED
      BY <2>1, <2>2, PlacesInOrder
  <1>3. QED
    BY <1>2 DEF Min

LEMMA MostOfSet ==
  ASSUME NEW S \in SUBSET Int, IsFiniteSet(S), S # {}
  PROVE  Max(S) \in S /\ \A x \in S : Max(S) >= x
  <1>1. PICK n \in Nat : n = Cardinality(S) /\ n # 0
    BY FS_CardinalityType, FS_EmptySet
  <1>2. Place(S, n) \in S /\ \A x \in S : Place(S, n) >= x
    <2>1. n \in 1..Cardinality(S)
      BY <1>1
    <2>2. ASSUME NEW x \in S
          PROVE  Place(S, n) >= x
      <3>1. PICK m \in 1..Cardinality(S) : Place(S, m) = x
        BY PlacesInOrder
      <3>2. CASE m = n
        BY <3>1, <3>2
      <3>3. CASE m < n
        <4>1. Place(S, m) < Place(S, n) /\ Place(S, n) \in Int /\ x \in Int
          BY <2>1, <3>3, PlacesInOrder
        <4>2. QED
          BY <3>1, <4>1, SMT
      <3>4. QED
        BY <1>1, <3>2, <3>3
    <2>3. QED
      BY <2>1, <2>2, PlacesInOrder
  <1>3. QED
    BY <1>2 DEF Max

-----------------------------------------------------------------------------
(* What a comparison and a set of drafts are worth.                         *)

LEMMA MaxOfOne ==
  ASSUME NEW x \in Int
  PROVE  Max({x}) = x
  BY DEF Max

(* An injection, as a function or by what it does.                          *)
LEMMA InjectionBounds ==
  ASSUME NEW S, NEW T, IsFiniteSet(T), NEW f \in [S -> T],
         \A x, y \in S : f[x] = f[y] => x = y
  PROVE  IsFiniteSet(S) /\ Cardinality(S) \in Nat /\ Cardinality(T) \in Nat /\ Cardinality(S) <= Cardinality(T)
  <1>1. f \in Injection(S, T)
    BY DEF Injection, IsInjective
  <1>2. IsFiniteSet(S) /\ Cardinality(S) <= Cardinality(T)
    BY <1>1, FS_Injection
  <1>3. QED
    BY <1>2, FS_CardinalityType

MatchedIn(matches) == {i \in DOMAIN matches : Matched(matches[i])}

GapsIn(requirements, matches) == {i \in DOMAIN requirements : IsGap(matches, requirements[i])}

(* A requirement with one match is a gap if that is none.                   *)
LEMMA GapOfOneMatch ==
  ASSUME NEW ms, IsList(ms), NEW j \in DOMAIN ms,
         \A i, k \in DOMAIN ms : ms[i].requirement = ms[k].requirement => i = k
  PROVE  IsGap(ms, ms[j].requirement) <=> ~Matched(ms[j])
  <1> DEFINE of == {i \in DOMAIN ms : ms[i].requirement = ms[j].requirement}
  <1>1. of = {j} /\ j \in Int
    BY ListIs
  <1>2. Max(of) = j
    BY <1>1, MaxOfOne
  <1>3. QED
    BY <1>1, <1>2 DEF IsGap

(* A requirement that is no gap was matched, if only by its last match.     *)
LEMMA CoveredIsMatched ==
  ASSUME NEW ms, IsList(ms), NEW r, ~IsGap(ms, r)
  PROVE  \E j \in MatchedIn(ms) : ms[j].requirement = r
  <1> DEFINE of == {j \in DOMAIN ms : ms[j].requirement = r}
  <1>1. of \in SUBSET DOMAIN ms /\ of \in SUBSET Int /\ IsFiniteSet(DOMAIN ms)
    BY ListIs
  <1>2. of # {} /\ Matched(ms[Max(of)])
    BY DEF IsGap
  <1>3. IsFiniteSet(of)
    BY <1>1, FS_Subset
  <1>4. Max(of) \in of
    <2> HIDE DEF of
    <2>1. QED
      BY <1>1, <1>2, <1>3, MostOfSet
  <1>5. QED
    BY <1>2, <1>4 DEF MatchedIn

MatchedOnce(ms) == \A i, j \in DOMAIN ms : ms[i].requirement = ms[j].requirement => i = j

LEMMA FitOfSummary ==
  ASSUME NEW R, IsList(R), R # << >>, NEW ms, IsList(ms),
         \A j \in DOMAIN ms : ms[j].requirement \in ToSet(R),
         \A i, j \in DOMAIN R : R[i] = R[j] => i = j
  PROVE  LET c == Summarize(R, ms)
             fit == Max(c.fit)
             n == Len(R)
         IN  /\ c.gaps = << >> => fit >= 500
             /\ MatchedOnce(ms) => 2 * (n * fit) <= 2000 * (n - Len(c.gaps)) + n
  <1> DEFINE n == Len(R)
             M == MatchedIn(ms)
             G == GapsIn(R, ms)
             full == {i \in M : ms[i].coverage = "full"}
             a == Cardinality(full)
             b == Cardinality(M \ full)
             g == Cardinality(G)
             fit == Rounded(1000 * a + 500 * b, n)
  <1>1. n \in Nat \ {0} /\ DOMAIN R = 1..n /\ IsFiniteSet(DOMAIN R) /\ Cardinality(DOMAIN R) = n
    BY ListIs
  <1>2. IsFiniteSet(DOMAIN ms)
    BY ListIs
  <1>3. IsFiniteSet(M) /\ M \subseteq DOMAIN ms
    BY <1>2, FS_Subset DEF MatchedIn
  <1>4. a \in Nat /\ b \in Nat /\ a + b = Cardinality(M) /\ Cardinality(M) \in Nat
    <2>1. M \cap full = full
      OBVIOUS
    <2>2. full \in SUBSET M
      OBVIOUS
    <2> HIDE DEF M, full
    <2>3. IsFiniteSet(full) /\ IsFiniteSet(M \ full)
      BY <1>3, <2>2, FS_Subset, FS_Difference
    <2>4. Cardinality(M \ full) = Cardinality(M) - Cardinality(full)
      BY <1>3, <2>1, FS_Difference
    <2>5. Cardinality(M) \in Nat /\ Cardinality(full) \in Nat /\ Cardinality(M \ full) \in Nat
      BY <1>3, <2>3, FS_CardinalityType
    <2>6. QED
      BY <2>4, <2>5
  <1>5. G \in SUBSET DOMAIN R
    BY DEF GapsIn
  <1>6. IsFiniteSet(G) /\ g \in Nat
    BY <1>1, <1>5, FS_Subset, FS_CardinalityType
  <1>7. ASSUME MatchedOnce(ms)
        PROVE  a + b <= n - g
    <2> DEFINE rest == DOMAIN R \ G
               f == [j \in M |-> CHOOSE i \in DOMAIN R : R[i] = ms[j].requirement]
    <2>1. IsFiniteSet(rest) /\ Cardinality(rest) = n - g
      <3>1. DOMAIN R \cap G = G
        BY <1>5
      <3> HIDE DEF G
      <3>2. /\ IsFiniteSet(DOMAIN R \ G)
            /\ Cardinality(DOMAIN R \ G) = Cardinality(DOMAIN R) - Cardinality(DOMAIN R \cap G)
        BY <1>1, FS_Difference
      <3>3. QED
        BY <1>1, <3>1, <3>2
    <2>2. \A j \in M : f[j] \in DOMAIN R /\ R[f[j]] = ms[j].requirement
      <3> TAKE j \in M
      <3>1. \E i \in DOMAIN R : R[i] = ms[j].requirement
        BY <1>3 DEF ToSet
      <3>2. QED
        BY <3>1
    <2>3. \A j \in M : f[j] \notin G
      <3> TAKE j \in M
      <3>1. j \in DOMAIN ms /\ Matched(ms[j])
        BY DEF MatchedIn
      <3>2. ~IsGap(ms, ms[j].requirement)
        BY <1>7, <3>1, GapOfOneMatch DEF MatchedOnce
      <3>3. QED
        BY <2>2, <3>2 DEF GapsIn
    <2>4. f \in [M -> rest]
      BY <2>2, <2>3
    <2>5. \A x, y \in M : f[x] = f[y] => x = y
      <3>1. \A x, y \in M : f[x] = f[y] => ms[x].requirement = ms[y].requirement
        BY <2>2
      <3>2. QED
        BY <1>3, <1>7, <3>1 DEF MatchedOnce
    <2> HIDE DEF f, M, rest
    <2>6. Cardinality(M) <= Cardinality(rest)
      BY <2>1, <2>4, <2>5, InjectionBounds
    <2>7. QED
      BY <1>4, <2>1, <2>6
  <1>8. G = {} => a + b >= n
    <2> SUFFICES ASSUME G = {}
                 PROVE  a + b >= n
      OBVIOUS
    <2> DEFINE f == [i \in DOMAIN R |-> CHOOSE j \in M : ms[j].requirement = R[i]]
    <2>1. \A i \in DOMAIN R : \E j \in M : ms[j].requirement = R[i]
      <3> SUFFICES ASSUME NEW i \in DOMAIN R
                   PROVE  \E j \in M : ms[j].requirement = R[i]
        OBVIOUS
      <3>1. ~IsGap(ms, R[i])
        BY DEF GapsIn
      <3>2. QED
        BY <3>1, CoveredIsMatched
    <2>2. \A i \in DOMAIN R : f[i] \in M /\ ms[f[i]].requirement = R[i]
      BY <2>1
    <2>3. f \in [DOMAIN R -> M]
      BY <2>2
    <2>4. \A x, y \in DOMAIN R : f[x] = f[y] => x = y
      BY <2>2
    <2> HIDE DEF f, M
    <2>5. Cardinality(DOMAIN R) <= Cardinality(M)
      BY <1>3, <2>3, <2>4, InjectionBounds
    <2>6. QED
      BY <1>1, <1>4, <2>5
  <1>9. /\ fit \in Int /\ n * fit \in Int
        /\ 2 * (n * fit) <= 2 * (1000 * a + 500 * b) + n
        /\ 2 * (n * fit) >= 2 * (1000 * a + 500 * b) - n
    <2> HIDE DEF n, a, b
    <2>1. PICK x \in Int : x = 1000 * a + 500 * b
      BY <1>4
    <2>2. Rounded(x, n) \in Int /\ 2 * (n * Rounded(x, n) - x) \in (0 - n)..n
      BY <1>1, RoundedIs
    <2>3. fit = Rounded(x, n)
      BY <2>1
    <2> HIDE DEF fit
    <2>4. fit \in Int /\ n * fit \in Int /\ 2 * (n * fit - x) \in (0 - n)..n
      BY <1>1, <2>2, <2>3
    <2>5. QED
      BY <1>1, <2>1, <2>4
  <1>10. Summarize(R, ms).fit = {fit}
    BY DEF Summarize, MatchedIn
  <1>11. Summarize(R, ms).gaps = Subsequence(R, G)
    BY DEF Summarize, GapsIn
  <1>12. Len(Summarize(R, ms).gaps) = g /\ (Summarize(R, ms).gaps = << >> => g = 0)
    <2> HIDE DEF G
    <2>1. Len(Subsequence(R, G)) = Cardinality(G)
      BY <1>5, SelectedIs
    <2>2. QED
      BY <1>11, <2>1
  <1>13. g = 0 => G = {}
    <2> HIDE DEF G
    <2>1. QED
      BY <1>6, FS_EmptySet
  <1> HIDE DEF n, fit, a, b, g, G
  <1>14. Max(Summarize(R, ms).fit) = fit
    BY <1>9, <1>10, MaxOfOne
  <1>15. MatchedOnce(ms) => 2 * (n * fit) <= 2000 * (n - g) + n
    BY <1>1, <1>4, <1>6, <1>7, <1>9
  <1>16. g = 0 => fit >= 500
    <2> SUFFICES ASSUME g = 0, fit <= 499
                 PROVE  FALSE
      BY <1>9
    <2>1. 1000 * a + 500 * b >= 500 * n
      BY <1>1, <1>4, <1>8, <1>13
    <2>2. n * fit <= n * 499
      BY <1>1, <1>9
    <2>3. QED
      BY <1>1, <1>4, <1>9, <2>1, <2>2
  <1>17. QED
    BY <1>12, <1>14, <1>15, <1>16 DEF n

(* Sections of distinct keys that were asked for, each with a word in it,    *)
(* are worth 600 each at least.                                            *)
LEMMA DraftsAreWorth ==
  ASSUME NEW p, NEW sections, IsList(sections), NEW targets, IsList(targets), targets # << >>,
         \A i \in DOMAIN sections : sections[i].key \in ToSet(targets) /\ sections[i].text.words > 0,
         \A i, j \in DOMAIN sections : sections[i].key = sections[j].key => i = j
  PROVE  \E c \in Int : /\ Completeness(p, sections, targets) = {c}
                        /\ 2 * (Len(targets) * c) >= 1200 * Len(sections) - Len(targets)
  <1> DEFINE n == Len(targets)
             Found(i) == SectionFor(p, sections, targets[i])
             P == {i \in DOMAIN targets : \E s \in Found(i) : s.text.words > 0}
             Q == {i \in P : \E s \in Found(i) :
                     /\ 10 * s.text.words >= 7 * Section(p, targets[i]).low
                     /\ 10 * s.text.words <= 13 * Section(p, targets[i]).high}
             a == Cardinality(Q)
             b == Cardinality(P \ Q)
             c == Rounded(1000 * a + 600 * b, n)
             d == Len(sections)
  <1>1. Completeness(p, sections, targets) = {c}
    BY DEF Completeness
  <1>2. n \in Nat \ {0} /\ IsFiniteSet(DOMAIN targets) /\ d \in Nat /\ Cardinality(DOMAIN sections) = d
    BY ListIs
  <1>3. P \in SUBSET DOMAIN targets /\ Q \in SUBSET P
    OBVIOUS
  <1>4. \A k \in DOMAIN sections : \E i \in P : targets[i] = sections[k].key
    <2> SUFFICES ASSUME NEW k \in DOMAIN sections
                 PROVE  \E i \in P : targets[i] = sections[k].key
      OBVIOUS
    <2>1. PICK i \in DOMAIN targets : targets[i] = sections[k].key
      BY DEF ToSet
    <2>2. sections[k] \in ToSet(sections)
      BY DEF ToSet
    <2>3. \E s \in Found(i) : s \in ToSet(sections)
      BY <2>1, <2>2 DEF SectionFor
    <2>4. \A s \in ToSet(sections) : s.text.words > 0
      BY DEF ToSet
    <2>5. QED
      BY <2>1, <2>3, <2>4
  <1> DEFINE f == [k \in DOMAIN sections |-> CHOOSE i \in P : targets[i] = sections[k].key]
  <1> HIDE DEF P, Q, Found
  <1>5. \A k \in DOMAIN sections : f[k] \in P /\ targets[f[k]] = sections[k].key
    BY <1>4
  <1>6. f \in [DOMAIN sections -> P] /\ \A x, y \in DOMAIN sections : f[x] = f[y] => x = y
    BY <1>5
  <1>7. IsFiniteSet(P) /\ IsFiniteSet(Q) /\ IsFiniteSet(P \ Q)
    BY <1>2, <1>3, FS_Subset, FS_Difference
  <1>8. a \in Nat /\ b \in Nat /\ Cardinality(P) = a + b
    <2>1. P \cap Q = Q
      BY <1>3
    <2>2. Cardinality(P \ Q) = Cardinality(P) - Cardinality(Q)
      BY <1>7, <2>1, FS_Difference
    <2>3. Cardinality(P) \in Nat /\ Cardinality(Q) \in Nat /\ Cardinality(P \ Q) \in Nat
      BY <1>7, FS_CardinalityType
    <2>4. QED
      BY <2>2, <2>3
  <1> HIDE DEF f
  <1>9. d <= a + b
    BY <1>2, <1>6, <1>7, <1>8, InjectionBounds
  <1> HIDE DEF a, b, d, n
  <1>10. PICK x \in Int : x = 1000 * a + 600 * b /\ x >= 600 * d
    BY <1>2, <1>8, <1>9
  <1>11. Rounded(x, n) \in Int /\ 2 * (n * Rounded(x, n) - x) \in (0 - n)..n
    BY <1>2, RoundedIs
  <1>12. c = Rounded(x, n)
    BY <1>10
  <1> HIDE DEF c
  <1>13. c \in Int /\ n * c \in Int /\ 2 * (n * c - x) \in (0 - n)..n
    BY <1>2, <1>11, <1>12
  <1>14. 2 * (n * c) >= 1200 * d - n
    BY <1>2, <1>10, <1>13
  <1>15. QED
    BY <1>1, <1>13, <1>14 DEF n, d

-----------------------------------------------------------------------------
(* A bid: what it uses was made from what is behind it in the plan, each    *)
(* section has a key of its own, and a draft has a word.                   *)

PlanTails == { <<"structure_request", "compare_solutions", "generate_proposal_sections", "score_proposal">>,
               <<"compare_solutions", "generate_proposal_sections", "score_proposal">>,
               <<"generate_proposal_sections", "score_proposal">>,
               <<"structure_request", "retrieve_evidence", "compare_solutions", "score_proposal">>,
               <<"retrieve_evidence", "compare_solutions", "score_proposal">>,
               <<"compare_solutions", "score_proposal">>,
               <<"score_proposal">>, << >> }

(* The brief is not read again.                                            *)
Structured == todo # << >> => Head(todo) # "structure_request"

(* A result is used only when what it was made from is behind.              *)
PlanKept == /\ todo \in PlanTails
            /\ \A r, q \in request : r = q
            /\ request \subseteq BidRequests
            /\ request = {} => DOMAIN results = {} /\ answer = {}
            /\ files \in FileSets \cup {FirstFiles}
            /\ "compare_solutions" \in DOMAIN results \/ "generate_proposal_sections" \in DOMAIN results =>
                 Structured
            /\ "generate_proposal_sections" \in DOMAIN results => todo \in {<<"score_proposal">>, << >>}
            /\ Scored \/ answer # {} => todo = << >>
            /\ drafting # {} => todo = <<"generate_proposal_sections", "score_proposal">> /\ request # {}
            /\ IsList(Requirements)

IsDraft(t) == t.words \in Nat \ {0}

(* What validation has found a section to cover.                           *)
Measures(s) == /\ s.key \in DOMAIN measured
               /\ measured[s.key] \subseteq ToSet(Requirements) \cap (s.text.exact \cup s.text.near)

(* Sections are drafted and validated in the order of their keys.           *)
Matching(sections, keys) ==
  /\ IsList(sections) /\ Len(sections) <= Len(keys)
  /\ \A i \in DOMAIN sections : /\ sections[i].key = keys[i]
                                /\ ~sections[i].error => IsDraft(sections[i].text) /\ Measures(sections[i])

DraftingInOrder ==
  /\ \A d, e \in drafting : d = e
  /\ \A d \in drafting :
       /\ d = [keys |-> d.keys, scores |-> d.scores, requirements |-> d.requirements,
               texts |-> d.texts, rendered |-> d.rendered]
       /\ DistinctKeys(d.keys) /\ Len(d.rendered) < Len(d.keys)
       /\ Matching(d.rendered, d.keys)
       /\ d.requirements = Requirements
       /\ \A key \in DOMAIN d.texts : \A t \in d.texts[key] : IsDraft(t)

SectionsInOrder ==
  "generate_proposal_sections" \in DOMAIN results =>
    LET g == results["generate_proposal_sections"]
    IN  DistinctKeys(g.requested) /\ Matching(g.sections, g.requested) /\ Len(g.sections) = Len(g.requested)

BidInv == /\ PlanKept /\ DraftingInOrder /\ SectionsInOrder
          /\ FitExplained /\ CoverageMonotone /\ DraftedCounts /\ SavedAsAnswered

LEMMA TailsOfPlan ==
  ASSUME NEW t \in PlanTails, t # << >>
  PROVE  /\ Tail(t) \in PlanTails
         /\ Tail(t) # << >> => Head(Tail(t)) # "structure_request"
         /\ Head(t) = "score_proposal" => Tail(t) = << >>
         /\ Head(t) = "generate_proposal_sections" => /\ t = <<"generate_proposal_sections", "score_proposal">>
                                                      /\ Tail(t) = <<"score_proposal">>
  <1>1. \A a, b, c, d : /\ Head(<<a, b, c, d>>) = a /\ Tail(<<a, b, c, d>>) = <<b, c, d>>
                        /\ Head(<<a, b, c>>) = a /\ Tail(<<a, b, c>>) = <<b, c>>
                        /\ Head(<<a, b>>) = a /\ Tail(<<a, b>>) = <<b>>
                        /\ Head(<<a>>) = a /\ Tail(<<a>>) = << >>
    OBVIOUS
  <1>2. CASE t = <<"structure_request", "compare_solutions", "generate_proposal_sections", "score_proposal">>
    <2>1. Tail(t) = <<"compare_solutions", "generate_proposal_sections", "score_proposal">>
      BY <1>1, <1>2
    <2>2. QED
      BY <1>1, <1>2, <2>1 DEF PlanTails
  <1>3. CASE t = <<"compare_solutions", "generate_proposal_sections", "score_proposal">>
    <2>1. Tail(t) = <<"generate_proposal_sections", "score_proposal">>
      BY <1>1, <1>3
    <2>2. QED
      BY <1>1, <1>3, <2>1 DEF PlanTails
  <1>4. CASE t = <<"generate_proposal_sections", "score_proposal">>
    <2>1. Tail(t) = <<"score_proposal">>
      BY <1>1, <1>4
    <2>2. QED
      BY <1>1, <1>4, <2>1 DEF PlanTails
  <1>5. CASE t = <<"structure_request", "retrieve_evidence", "compare_solutions", "score_proposal">>
    <2>1. Tail(t) = <<"retrieve_evidence", "compare_solutions", "score_proposal">>
      BY <1>1, <1>5
    <2>2. QED
      BY <1>1, <1>5, <2>1 DEF PlanTails
  <1>6. CASE t = <<"retrieve_evidence", "compare_solutions", "score_proposal">>
    <2>1. Tail(t) = <<"compare_solutions", "score_proposal">>
      BY <1>1, <1>6
    <2>2. QED
      BY <1>1, <1>6, <2>1 DEF PlanTails
  <1>7. CASE t = <<"compare_solutions", "score_proposal">>
    <2>1. Tail(t) = <<"score_proposal">>
      BY <1>1, <1>7
    <2>2. QED
      BY <1>1, <1>7, <2>1 DEF PlanTails
  <1>8. CASE t = <<"score_proposal">>
    BY <1>1, <1>8 DEF PlanTails
  <1>9. QED
    BY <1>2, <1>3, <1>4, <1>5, <1>6, <1>7, <1>8 DEF PlanTails

LEMMA ProfileIsLists ==
  ASSUME files \in FileSets \cup {FirstFiles}, Profile # NotFound
  PROVE  IsList(Profile.sections) /\ IsList(Profile.default_sections)
  BY BidsAssumption DEF Profile

(* The sections to draft have one key each.                                 *)
LEMMA PlannedIs ==
  ASSUME PlanKept, request # {}, Profile # NotFound
  PROVE  DistinctKeys(Planned(Profile))
  <1> DEFINE p == Profile
             names == IF Payload.sections # << >> THEN NotBlank(Payload.sections) ELSE DefaultSections(p)
             keys == [i \in DOMAIN names |-> CanonicalKey(p, names[i])]
  <1>1. IsList(p.sections) /\ IsList(p.default_sections)
    BY ProfileIsLists DEF PlanKept
  <1>2. Payload \in BidRequests
    BY DEF PlanKept, Payload
  <1>3. IsList(Payload.sections)
    BY <1>2, BidsAssumption
  <1>4. \E n \in Nat : DOMAIN DefaultSections(p) = 1..n
    <2> HIDE DEF p
    <2>1. CASE p.default_sections # << >>
      BY <1>1, <2>1, ListIs DEF DefaultSections
    <2>2. CASE p.default_sections = << >> /\ p.sections = << >>
      <3>1. DOMAIN DefaultSections(p) = 1..1
        BY <2>2 DEF DefaultSections
      <3>2. QED
        BY <3>1
    <2>3. CASE p.default_sections = << >> /\ p.sections # << >>
      <3>1. Len(p.sections) \in Nat /\ DOMAIN p.sections = 1..Len(p.sections)
        BY <1>1, ListIs
      <3>2. DOMAIN DefaultSections(p) = DOMAIN p.sections \cap (1..4)
        BY <2>3 DEF DefaultSections
      <3>3. DOMAIN p.sections \cap (1..4) = 1..(IF Len(p.sections) < 4 THEN Len(p.sections) ELSE 4)
        BY <3>1
      <3>4. QED
        BY <3>1, <3>2, <3>3
    <2>4. QED
      BY <2>1, <2>2, <2>3
  <1>5. \E n \in Nat : DOMAIN names = 1..n
    BY <1>3, <1>4, NotBlankIs, ListIs
  <1> HIDE DEF names, p
  <1>6. IsList(keys)
    <2>1. PICK n \in Nat : DOMAIN names = 1..n
      BY <1>5
    <2>2. DOMAIN keys = 1..n /\ keys = [i \in 1..n |-> keys[i]]
      BY <2>1
    <2> HIDE DEF keys
    <2>3. keys \in Seq({keys[i] : i \in DOMAIN keys})
      BY <2>2
    <2>4. QED
      BY <2>3 DEF IsList
  <1> HIDE DEF keys
  <1>7. Planned(Profile) = Distinct(keys)
    BY DEF Planned, keys, names, p
  <1>8. QED
    BY <1>6, <1>7, DistinctIs

LEMMA InitBid == BidInit => BidInv
  <1> SUFFICES ASSUME BidInit
               PROVE  BidInv
    OBVIOUS
  <1>1. DOMAIN results = {}
    BY DEF BidInit
  <1>2. IsList(Requirements)
    <2>1. Requirements = << >> /\ << >> \in Seq({})
      BY <1>1 DEF Requirements
    <2>2. QED
      BY <2>1, IsListOf
  <1>3. PlanKept
    BY <1>1, <1>2 DEF BidInit, PlanKept, PlanTails, Scored, Structured
  <1>4. Sections = << >> /\ Rows = {}
    BY <1>1 DEF Sections, Rows
  <1>5. QED
    BY <1>1, <1>3, <1>4 DEF BidInit, BidInv, DraftingInOrder, SectionsInOrder, FitExplained, CoverageMonotone, DraftedCounts,
         SavedAsAnswered, Scored

-----------------------------------------------------------------------------

LEMMA ResultsKeep ==
  ASSUME BidInv, UNCHANGED <<results, measured>>
  PROVE  /\ SectionsInOrder' /\ FitExplained' /\ CoverageMonotone' /\ DraftedCounts'
         /\ UNCHANGED <<answer, saved>> => SavedAsAnswered'
         /\ Requirements' = Requirements /\ Scored' = Scored /\ Sections' = Sections /\ Rows' = Rows
  <1>1. Requirements' = Requirements /\ Scored' = Scored /\ Score' = Score /\ Comparison' = Comparison
        /\ Sections' = Sections /\ Rows' = Rows /\ Drafted' = Drafted
    BY DEF Requirements, Scored, Score, Comparison, Sections, Rows, Drafted
  <1>2. \A s : Measures(s)' = Measures(s)
    BY <1>1 DEF Measures
  <1>3. SectionsInOrder'
    BY <1>2 DEF BidInv, SectionsInOrder, Matching
  <1>4. FitExplained'
    BY <1>1 DEF BidInv, FitExplained
  <1>5. CoverageMonotone'
    BY <1>1 DEF BidInv, CoverageMonotone
  <1>6. DraftedCounts'
    BY <1>1 DEF BidInv, DraftedCounts
  <1>7. UNCHANGED <<answer, saved>> => SavedAsAnswered'
    BY <1>1 DEF BidInv, SavedAsAnswered
  <1>8. QED
    BY <1>1, <1>3, <1>4, <1>5, <1>6, <1>7

LEMMA DraftingKeeps ==
  ASSUME BidInv, UNCHANGED <<results, measured, drafting>>
  PROVE  DraftingInOrder'
  <1>1. Requirements' = Requirements
    BY DEF Requirements
  <1>2. \A s : Measures(s)' = Measures(s)
    BY <1>1 DEF Measures
  <1>3. QED
    BY <1>1, <1>2 DEF BidInv, DraftingInOrder, Matching

LEMMA ReceiveKeeps ==
  ASSUME BidInv, Receive
  PROVE  BidInv'
  <1>1. PICK r \in BidRequests : request' = {r} /\ todo' = Plan(r.kind)
    BY DEF Receive
  <1>2. request = {} /\ DOMAIN results = {} /\ answer = {} /\ drafting = {}
    BY DEF Receive, BidInv, PlanKept
  <1>3. UNCHANGED <<files, results, drafting, measured, answer, saved>>
    BY DEF Receive
  <1>4. Plan(r.kind) \in PlanTails
    BY DEF Plan, PlanTails
  <1>5. PlanKept'
    BY <1>1, <1>2, <1>3, <1>4, ResultsKeep DEF BidInv, PlanKept, Scored
  <1>6. QED
    BY <1>3, <1>5, ResultsKeep, DraftingKeeps DEF BidInv

LEMMA EditFilesKeeps ==
  ASSUME BidInv, EditFiles
  PROVE  BidInv'
  <1>1. UNCHANGED <<request, todo, results, drafting, measured, answer, saved>> /\ files' \in FileSets
    BY DEF EditFiles
  <1>2. PlanKept'
    BY <1>1, ResultsKeep DEF BidInv, PlanKept, Structured
  <1>3. QED
    BY <1>1, <1>2, ResultsKeep, DraftingKeeps DEF BidInv

-----------------------------------------------------------------------------
(* Tools that end, with a result or without.                               *)

PlanTools == {"structure_request", "compare_solutions", "generate_proposal_sections", "retrieve_evidence", "score_proposal"}

(* A tool at the head of the plan ends, and touches no other's result.      *)
Ends(tool) ==
  /\ tool \in PlanTools /\ todo # << >> /\ Head(todo) = tool
  /\ answer = {} /\ drafting' = {} /\ request # {}
  /\ DOMAIN results' \ {tool} = DOMAIN results \ {tool}
  /\ \A t \in DOMAIN results \ {tool} : results'[t] = results[t]
  /\ todo' \in {todo, Tail(todo), << >>}
  /\ tool \in DOMAIN results' => todo' = Tail(todo)
  /\ UNCHANGED <<files, request, answer, saved>>

LEMMA OthersKept ==
  ASSUME BidInv, NEW tool, Ends(tool)
  PROVE  /\ ~Scored
         /\ tool # "score_proposal" => ~Scored'
         /\ tool # "structure_request" => Requirements' = Requirements
         /\ tool = "structure_request" => /\ "compare_solutions" \notin DOMAIN results \cup DOMAIN results'
                                          /\ "generate_proposal_sections" \notin DOMAIN results \cup DOMAIN results'
         /\ tool # "generate_proposal_sections" => Sections' = Sections /\ Rows' = Rows /\ Drafted' = Drafted
  <1>1. ~Scored
    BY DEF BidInv, PlanKept, Ends
  <1>2. tool # "score_proposal" => ~Scored'
    BY <1>1 DEF Ends, Scored
  <1>3. tool # "structure_request" => Requirements' = Requirements
    BY DEF Requirements, Ends
  <1>4. tool = "structure_request" => /\ "compare_solutions" \notin DOMAIN results
                                      /\ "generate_proposal_sections" \notin DOMAIN results
    BY DEF BidInv, PlanKept, Structured, Ends
  <1>5. tool # "generate_proposal_sections" => Sections' = Sections
    BY DEF Sections, Ends
  <1>6. Sections' = Sections => Rows' = Rows /\ Drafted' = Drafted
    BY DEF Rows, Drafted
  <1>7. QED
    BY <1>1, <1>2, <1>3, <1>4, <1>5, <1>6 DEF Ends

LEMMA PlanGoesOn ==
  ASSUME BidInv, NEW tool, Ends(tool), IsList(Requirements')
  PROVE  PlanKept' /\ DraftingInOrder' /\ SavedAsAnswered'
  <1>1. todo \in PlanTails /\ todo # << >>
    BY DEF BidInv, PlanKept, Ends
  <1>2. /\ Tail(todo) \in PlanTails
        /\ Tail(todo) # << >> => Head(Tail(todo)) # "structure_request"
        /\ Head(todo) = "score_proposal" => Tail(todo) = << >>
        /\ Head(todo) = "generate_proposal_sections" => Tail(todo) = <<"score_proposal">>
    BY <1>1, TailsOfPlan
  <1>3. todo' \in PlanTails
    BY <1>1, <1>2 DEF Ends, PlanTails
  <1>4. "compare_solutions" \in DOMAIN results' \/ "generate_proposal_sections" \in DOMAIN results' => Structured'
    <2>1. CASE tool = "structure_request"
      BY <2>1, OthersKept
    <2>2. CASE tool # "structure_request"
      <3>1. Head(todo) # "structure_request"
        BY <2>2 DEF Ends
      <3>2. todo' # << >> => Head(todo') # "structure_request"
        BY <1>2, <3>1 DEF Ends
      <3>3. QED
        BY <3>2 DEF Structured
    <2>3. QED
      BY <2>1, <2>2
  <1>5. Scored' => todo' = << >>
    BY <1>2, OthersKept DEF Scored, Ends
  <1>6. "generate_proposal_sections" \in DOMAIN results' => todo' \in {<<"score_proposal">>, << >>}
    <2>1. CASE tool = "generate_proposal_sections"
      <3>1. Tail(todo) = <<"score_proposal">>
        BY <1>2, <2>1 DEF Ends
      <3>2. QED
        BY <2>1, <3>1 DEF Ends
    <2>2. CASE tool # "generate_proposal_sections" /\ "generate_proposal_sections" \in DOMAIN results'
      <3>1. "generate_proposal_sections" \in DOMAIN results
        BY <2>2 DEF Ends
      <3>2. todo = <<"score_proposal">> /\ Head(todo) = "score_proposal"
        BY <3>1 DEF BidInv, PlanKept, Ends
      <3>3. Tail(todo) = << >>
        BY <1>2, <3>2
      <3>4. QED
        BY <3>2, <3>3 DEF Ends
    <2>3. QED
      BY <2>1, <2>2
  <1>7. PlanKept'
    BY <1>3, <1>4, <1>5, <1>6 DEF BidInv, PlanKept, Ends
  <1>8. DraftingInOrder'
    BY DEF DraftingInOrder, Ends
  <1>9. SavedAsAnswered'
    BY DEF SavedAsAnswered, Ends
  <1>10. QED
    BY <1>7, <1>8, <1>9

(* A tool that fails leaves no result.                                      *)
LEMMA FailureKeeps ==
  ASSUME BidInv, NEW tool, Ends(tool), tool \notin DOMAIN results',
         tool # "generate_proposal_sections" => UNCHANGED measured
  PROVE  BidInv'
  <1>1. IsList(Requirements')
    <2>1. CASE tool # "structure_request"
      BY <2>1, OthersKept DEF BidInv, PlanKept
    <2>2. CASE tool = "structure_request"
      <3>1. Requirements' = << >> /\ << >> \in Seq({})
        BY <2>2 DEF Requirements
      <3>2. QED
        BY <3>1, IsListOf
    <2>3. QED
      BY <2>1, <2>2
  <1>2. PlanKept' /\ DraftingInOrder' /\ SavedAsAnswered'
    BY <1>1, PlanGoesOn
  <1>3. ~Scored'
    BY OthersKept DEF Scored
  <1>4. FitExplained'
    <2>1. CASE "compare_solutions" \notin DOMAIN results'
      BY <2>1 DEF FitExplained
    <2>2. CASE "compare_solutions" \in DOMAIN results'
      <3>1. Requirements' = Requirements
        BY <2>2, OthersKept
      <3>2. Comparison' = Comparison /\ "compare_solutions" \in DOMAIN results
        BY <2>2 DEF Comparison, Ends
      <3>3. QED
        BY <3>1, <3>2 DEF BidInv, FitExplained
    <2>3. QED
      BY <2>1, <2>2
  <1>5. SectionsInOrder'
    <2>1. CASE "generate_proposal_sections" \notin DOMAIN results'
      BY <2>1 DEF SectionsInOrder
    <2>2. CASE "generate_proposal_sections" \in DOMAIN results'
      <3>1. Requirements' = Requirements
        BY <2>2, OthersKept
      <3>2. /\ results'["generate_proposal_sections"] = results["generate_proposal_sections"]
            /\ "generate_proposal_sections" \in DOMAIN results
        BY <2>2 DEF Ends
      <3>3. \A s : Measures(s)' = Measures(s)
        BY <2>2, <3>1 DEF Measures
      <3>4. QED
        BY <3>2, <3>3 DEF BidInv, SectionsInOrder, Matching
    <2>3. QED
      BY <2>1, <2>2
  <1>6. CoverageMonotone' /\ DraftedCounts'
    BY <1>3 DEF CoverageMonotone, DraftedCounts
  <1>7. QED
    BY <1>2, <1>4, <1>5, <1>6 DEF BidInv

LEMMA ToolFailsEnds ==
  ASSUME NEW tool \in PlanTools, Runs(tool), ToolFails(tool), UNCHANGED <<files, request, drafting, answer, saved>>
  PROVE  Ends(tool) /\ tool \notin DOMAIN results'
  <1>1. /\ DOMAIN results' = DOMAIN results \ {tool}
        /\ \A t \in DOMAIN results \ {tool} : results'[t] = results[t]
    BY DEF ToolFails
  <1>2. QED
    BY <1>1 DEF Ends, Runs, ToolFails

LEMMA FailuresKeep ==
  ASSUME BidInv, StepFails \/ NothingPlanned
  PROVE  BidInv'
  <1>1. PICK tool \in PlanTools : Runs(tool) /\ ToolFails(tool)
    BY DEF StepFails, NothingPlanned, PlanTools
  <1>2. UNCHANGED <<files, request, drafting, measured, answer, saved>>
    BY DEF StepFails, NothingPlanned
  <1>3. Ends(tool) /\ tool \notin DOMAIN results'
    BY <1>1, <1>2, ToolFailsEnds
  <1>4. QED
    BY <1>2, <1>3, FailureKeeps

-----------------------------------------------------------------------------
(* Tools that succeed.                                                     *)

LEMMA SucceedsEnds ==
  ASSUME NEW tool \in PlanTools, Runs(tool), NEW output, Succeeds(tool, output),
         UNCHANGED <<files, request, drafting, answer, saved>>
  PROVE  Ends(tool) /\ tool \in DOMAIN results' /\ results'[tool] = output
  <1>1. /\ DOMAIN results' = DOMAIN results \cup {tool}
        /\ results'[tool] = output
        /\ \A t \in DOMAIN results \ {tool} : results'[t] = results[t]
    BY DEF Succeeds, Put, Over
  <1>2. QED
    BY <1>1 DEF Ends, Runs, Succeeds

LEMMA StructureRequestKeeps ==
  ASSUME BidInv, StructureRequest
  PROVE  BidInv'
  <1> DEFINE tool == "structure_request"
  <1>1. PICK output : Succeeds(tool, output) /\ IsList(output)
    <2>1. CASE \E brief \in Briefs : Succeeds("structure_request", FromModel(brief))
      <3>1. PICK brief \in Briefs : Succeeds("structure_request", FromModel(brief))
        BY <2>1
      <3>2. IsList(FromModel(brief))
        BY BidsAssumption, NotBlankIs, CutIs DEF FromModel
      <3>3. QED
        BY <3>1, <3>2
    <2>2. CASE Succeeds("structure_request", Heuristic(Payload.statements))
      <3>1. Payload \in BidRequests
        BY DEF BidInv, PlanKept, Payload, StructureRequest, Runs
      <3>2. IsList(Payload.statements)
        BY <3>1, BidsAssumption
      <3>3. IsList(Heuristic(Payload.statements))
        BY <3>2, BidsAssumption, DistinctIs, CutIs DEF Heuristic, DistinctKeys
      <3>4. QED
        BY <2>2, <3>3
    <2>3. QED
      BY <2>1, <2>2 DEF StructureRequest
  <1>2. tool \in PlanTools /\ Runs(tool) /\ UNCHANGED <<files, request, drafting, answer, saved>>
    BY DEF StructureRequest, PlanTools
  <1>3. Ends(tool) /\ tool \in DOMAIN results' /\ results'[tool] = output
    BY <1>1, <1>2, SucceedsEnds
  <1>4. Requirements' = output
    BY <1>3 DEF Requirements
  <1>5. PlanKept' /\ DraftingInOrder' /\ SavedAsAnswered'
    BY <1>1, <1>3, <1>4, PlanGoesOn
  <1>6. ~Scored' /\ "compare_solutions" \notin DOMAIN results' /\ "generate_proposal_sections" \notin DOMAIN results'
    BY <1>3, OthersKept
  <1>7. QED
    BY <1>5, <1>6 DEF BidInv, FitExplained, SectionsInOrder, CoverageMonotone, DraftedCounts

(* A tool whose result is neither the brief nor the sections.              *)
LEMMA SectionsKeep ==
  ASSUME BidInv, NEW tool, Ends(tool), UNCHANGED measured,
         tool \notin {"structure_request", "generate_proposal_sections"}
  PROVE  PlanKept' /\ DraftingInOrder' /\ SavedAsAnswered' /\ SectionsInOrder'
  <1>1. Requirements' = Requirements
    BY OthersKept
  <1>2. PlanKept' /\ DraftingInOrder' /\ SavedAsAnswered'
    BY <1>1, PlanGoesOn DEF BidInv, PlanKept
  <1>3. \A s : Measures(s)' = Measures(s)
    BY <1>1 DEF Measures
  <1>4. "generate_proposal_sections" \in DOMAIN results' =>
          /\ results'["generate_proposal_sections"] = results["generate_proposal_sections"]
          /\ "generate_proposal_sections" \in DOMAIN results
    BY DEF Ends
  <1>5. SectionsInOrder'
    BY <1>3, <1>4 DEF BidInv, SectionsInOrder, Matching
  <1>6. QED
    BY <1>2, <1>5

LEMMA RetrieveEvidenceKeeps ==
  ASSUME BidInv, RetrieveEvidence
  PROVE  BidInv'
  <1> DEFINE tool == "retrieve_evidence"
  <1>1. PICK output : Succeeds(tool, output)
    BY DEF RetrieveEvidence
  <1>2. tool \in PlanTools /\ Runs(tool) /\ UNCHANGED <<files, request, drafting, measured, answer, saved>>
    BY DEF RetrieveEvidence, PlanTools
  <1>3. Ends(tool)
    BY <1>1, <1>2, SucceedsEnds
  <1>4. PlanKept' /\ DraftingInOrder' /\ SavedAsAnswered' /\ SectionsInOrder'
    BY <1>2, <1>3, SectionsKeep
  <1>5. ~Scored' /\ Requirements' = Requirements
    BY <1>3, OthersKept
  <1>6. /\ Comparison' = Comparison
        /\ "compare_solutions" \in DOMAIN results' => "compare_solutions" \in DOMAIN results
    BY <1>3 DEF Comparison, Ends
  <1>7. FitExplained'
    BY <1>5, <1>6 DEF BidInv, FitExplained
  <1>8. QED
    BY <1>4, <1>5, <1>7 DEF BidInv, CoverageMonotone, DraftedCounts

LEMMA MatchesOfNeeds ==
  ASSUME NEW R, IsList(R), NEW ms,
         \/ \E c \in Comparisons : ms = FromCatalogue(Profile, R, c)
         \/ ms = KeywordMatches(Profile, R)
  PROVE  IsList(ms) /\ \A j \in DOMAIN ms : ms[j].requirement \in ToSet(R)
  <1>1. CASE ms = KeywordMatches(Profile, R)
    <2>1. DOMAIN R = 1..Len(R) /\ Len(R) \in Nat
      BY ListIs
    <2>2. DOMAIN ms = DOMAIN R /\ ms = [i \in DOMAIN R |-> ms[i]]
      BY <1>1 DEF KeywordMatches
    <2>3. \A j \in DOMAIN ms : ms[j].requirement = R[j]
      BY <1>1 DEF KeywordMatches
    <2>4. ms \in Seq({ms[i] : i \in DOMAIN ms})
      BY <2>1, <2>2
    <2>5. QED
      BY <2>2, <2>3, <2>4 DEF IsList, ToSet
  <1>2. CASE \E c \in Comparisons : ms = FromCatalogue(Profile, R, c)
    <2>1. PICK c \in Comparisons : ms = FromCatalogue(Profile, R, c)
      BY <1>2
    <2> DEFINE I == {i \in DOMAIN c : c[i].id \in DOMAIN R}
               known == Subsequence(c, I)
    <2>2. IsList(c)
      BY BidsAssumption
    <2>3. I \in SUBSET DOMAIN c /\ \A i \in I : c[i].id \in DOMAIN R
      OBVIOUS
    <2>4. /\ ms = [i \in DOMAIN known |-> ms[i]]
          /\ \A j \in DOMAIN known : ms[j].requirement = R[known[j].id]
      BY <2>1, Zenon DEF FromCatalogue
    <2> HIDE DEF I
    <2>5. IsList(known) /\ \A n \in DOMAIN known : Place(I, n) \in I /\ known[n] = c[Place(I, n)]
      BY <2>2, <2>3, SelectedIs
    <2> HIDE DEF known
    <2>6. DOMAIN known = 1..Len(known) /\ Len(known) \in Nat
      BY <2>5, ListIs
    <2>7. ms \in Seq({ms[i] : i \in DOMAIN ms})
      BY <2>4, <2>6
    <2>8. \A j \in DOMAIN ms : ms[j].requirement \in ToSet(R)
      BY <2>3, <2>4, <2>5 DEF ToSet
    <2>9. QED
      BY <2>7, <2>8 DEF IsList
  <1>3. QED
    BY <1>1, <1>2

LEMMA CompareSolutionsKeeps ==
  ASSUME BidInv, CompareSolutions
  PROVE  BidInv'
  <1> DEFINE tool == "compare_solutions"
             R == NotBlank(Requirements)
  <1>1. PICK output : /\ Succeeds(tool, output)
                      /\ \/ output.fit = {}
                         \/ \E ms : /\ output = Summarize(R, ms) /\ R # << >>
                                    /\ \/ \E c \in Comparisons : ms = FromCatalogue(Profile, R, c)
                                       \/ ms = KeywordMatches(Profile, R)
    <2>1. NoComparison(Profile).fit = {}
      BY DEF NoComparison
    <2>2. QED
      BY <2>1 DEF CompareSolutions
  <1>2. tool \in PlanTools /\ Runs(tool) /\ UNCHANGED <<files, request, drafting, measured, answer, saved>>
    BY DEF CompareSolutions, PlanTools
  <1>3. Ends(tool) /\ tool \in DOMAIN results' /\ results'[tool] = output
    BY <1>1, <1>2, SucceedsEnds
  <1>4. PlanKept' /\ DraftingInOrder' /\ SavedAsAnswered' /\ SectionsInOrder'
    BY <1>2, <1>3, SectionsKeep
  <1>5. ~Scored' /\ Requirements' = Requirements
    BY <1>3, OthersKept
  <1>6. Comparison' = output
    BY <1>3 DEF Comparison
  <1>7. IsList(R)
    BY NotBlankIs DEF BidInv, PlanKept
  <1>8. FitExplained'
    <2>1. CASE output.fit = {}
      BY <1>6, <2>1 DEF FitExplained
    <2>2. ASSUME NEW ms, output = Summarize(R, ms), R # << >>,
                 \/ \E c \in Comparisons : ms = FromCatalogue(Profile, R, c)
                 \/ ms = KeywordMatches(Profile, R)
          PROVE  FitExplained'
      <3>1. IsList(ms) /\ \A j \in DOMAIN ms : ms[j].requirement \in ToSet(R)
        BY <1>7, <2>2, MatchesOfNeeds
      <3>2. output.matches = ms
        BY <2>2 DEF Summarize
      <3> DEFINE single == \A i, j \in DOMAIN R : R[i] = R[j] => i = j
                 Good == LET fit == Max(output.fit)
                             n == Len(R)
                         IN  /\ output.gaps = << >> => fit >= 500
                             /\ MatchedOnce(ms) => 2 * (n * fit) <= 2000 * (n - Len(output.gaps)) + n
      <3>3. single => Good
        BY <1>7, <2>2, <3>1, FitOfSummary
      <3>4. NotBlank(Requirements)' = R
        BY <1>5
      <3> HIDE DEF R
      <3>5. QED
        BY <1>6, <3>2, <3>3, <3>4 DEF FitExplained, IsInjective, MatchedOnce
    <2>3. QED
      BY <1>1, <2>1, <2>2
  <1>9. QED
    BY <1>4, <1>5, <1>8 DEF BidInv, CoverageMonotone, DraftedCounts

-----------------------------------------------------------------------------
(* Drafting.                                                               *)

LEMMA PlanSectionsKeeps ==
  ASSUME BidInv, PlanSections
  PROVE  BidInv'
  <1> DEFINE keys == Planned(Profile)
  <1>1. PICK scores : drafting' = {[keys |-> keys, scores |-> scores, requirements |-> Requirements,
                                    texts |-> << >>, rendered |-> << >>]}
    BY DEF PlanSections
  <1>2. UNCHANGED <<files, request, todo, results, measured, answer, saved>>
    BY DEF PlanSections
  <1>3. request # {} /\ Profile # NotFound /\ keys # << >> /\ Runs("generate_proposal_sections")
    BY DEF PlanSections, Runs
  <1>4. DistinctKeys(keys)
    BY <1>3, PlannedIs DEF BidInv
  <1> HIDE DEF keys
  <1>5. todo = <<"generate_proposal_sections", "score_proposal">>
    BY <1>3, TailsOfPlan DEF BidInv, PlanKept, Runs
  <1>6. /\ SectionsInOrder' /\ FitExplained' /\ CoverageMonotone' /\ DraftedCounts' /\ SavedAsAnswered'
        /\ Requirements' = Requirements /\ Scored' = Scored
    BY <1>2, ResultsKeep
  <1>7. PlanKept'
    BY <1>2, <1>3, <1>5, <1>6 DEF BidInv, PlanKept, Structured
  <1>8. DraftingInOrder'
    <2>1. Len(keys) \in Nat \ {0}
      BY <1>3, <1>4, ListIs DEF DistinctKeys
    <2>2. IsList(<< >>)
      <3>1. << >> \in Seq({})
        OBVIOUS
      <3>2. QED
        BY <3>1, IsListOf
    <2> SUFFICES ASSUME NEW d \in drafting'
                 PROVE  /\ d = [keys |-> d.keys, scores |-> d.scores, requirements |-> d.requirements,
                                texts |-> d.texts, rendered |-> d.rendered]
                        /\ DistinctKeys(d.keys) /\ Len(d.rendered) < Len(d.keys)
                        /\ Matching(d.rendered, d.keys)'
                        /\ d.requirements = Requirements'
                        /\ \A key \in DOMAIN d.texts : \A t \in d.texts[key] : IsDraft(t)
      BY <1>1 DEF DraftingInOrder
    <2>3. d = [keys |-> keys, scores |-> scores, requirements |-> Requirements, texts |-> << >>, rendered |-> << >>]
      BY <1>1
    <2>4. /\ d.keys = keys /\ d.requirements = Requirements /\ d.texts = << >> /\ d.rendered = << >>
          /\ d.scores = scores
      BY <2>3
    <2>5. Matching(d.rendered, d.keys)'
      BY <2>1, <2>2, <2>4 DEF Matching
    <2>6. Len(d.rendered) < Len(d.keys)
      BY <2>1, <2>4
    <2>7. QED
      BY <1>4, <1>6, <2>3, <2>4, <2>5, <2>6
  <1>9. QED
    BY <1>6, <1>7, <1>8 DEF BidInv

LEMMA DraftSectionKeeps ==
  ASSUME BidInv, DraftSection
  PROVE  BidInv'
  <1>0. PICK d \in drafting : \E key \in ToSet(d.keys) :
          \/ \E text \in Texts \cup {TemplateDraft(d.requirements)} :
               drafting' = {[d EXCEPT !.texts = Put(@, key, {text})]}
          \/ drafting' = {[d EXCEPT !.texts = Put(@, key, {TemplateDraft(d.requirements)})]}
          \/ drafting' = {[d EXCEPT !.texts = Put(@, key, {})]}
    BY DEF DraftSection
  <1>1. PICK key, draft : /\ draft \subseteq Texts \cup {TemplateDraft(d.requirements)}
                          /\ drafting' = {[d EXCEPT !.texts = Put(d.texts, key, draft)]}
    <2>1. PICK key \in ToSet(d.keys) :
          \/ \E text \in Texts \cup {TemplateDraft(d.requirements)} :
               drafting' = {[d EXCEPT !.texts = Put(d.texts, key, {text})]}
          \/ drafting' = {[d EXCEPT !.texts = Put(d.texts, key, {TemplateDraft(d.requirements)})]}
          \/ drafting' = {[d EXCEPT !.texts = Put(d.texts, key, {})]}
      BY <1>0
    <2>2. QED
      BY <2>1
  <1>2. UNCHANGED <<files, request, todo, results, measured, answer, saved>>
    BY DEF DraftSection
  <1>3. /\ d = [keys |-> d.keys, scores |-> d.scores, requirements |-> d.requirements,
                texts |-> d.texts, rendered |-> d.rendered]
        /\ DistinctKeys(d.keys) /\ Len(d.rendered) < Len(d.keys) /\ Matching(d.rendered, d.keys)
        /\ d.requirements = Requirements
        /\ \A k \in DOMAIN d.texts : \A t \in d.texts[k] : IsDraft(t)
    BY DEF BidInv, DraftingInOrder
  <1>4. /\ SectionsInOrder' /\ FitExplained' /\ CoverageMonotone' /\ DraftedCounts' /\ SavedAsAnswered'
        /\ Requirements' = Requirements /\ Scored' = Scored
    BY <1>2, ResultsKeep
  <1>5. PlanKept'
    BY <1>1, <1>2, <1>4 DEF BidInv, PlanKept, Structured
  <1>6. \A t \in draft : IsDraft(t)
    BY <1>1, BidsAssumption DEF IsDraft, TemplateDraft
  <1>7. DraftingInOrder'
    <2> DEFINE texts == Put(d.texts, key, draft)
               e == [d EXCEPT !.texts = texts]
    <2>1. \A k \in DOMAIN texts : \A t \in texts[k] : IsDraft(t)
      BY <1>3, <1>6 DEF Put, Over
    <2> HIDE DEF texts
    <2>2. drafting' = {e}
      BY <1>1 DEF texts
    <2>3. e = [keys |-> d.keys, scores |-> d.scores, requirements |-> d.requirements,
               texts |-> texts, rendered |-> d.rendered]
      BY <1>3
    <2>4. \A s : Measures(s)' = Measures(s)
      BY <1>2, <1>4 DEF Measures
    <2>5. Matching(d.rendered, d.keys)'
      BY <1>3, <2>4 DEF Matching
    <2>6. /\ e.keys = d.keys /\ e.requirements = d.requirements /\ e.texts = texts /\ e.rendered = d.rendered
          /\ e.scores = d.scores
      BY <2>3
    <2> HIDE DEF e
    <2>7. QED
      BY <1>3, <1>4, <2>1, <2>2, <2>3, <2>5, <2>6 DEF DraftingInOrder
  <1>8. QED
    BY <1>4, <1>5, <1>7 DEF BidInv

(* One more section validated, in the place of its key.                     *)
LEMMA OneMoreInPlace ==
  ASSUME NEW sections, NEW keys, DistinctKeys(keys), Matching(sections, keys), Len(sections) < Len(keys),
         NEW item, item.key = keys[Len(sections) + 1],
         Requirements' = Requirements,
         \A k \in DOMAIN measured : k # item.key => k \in DOMAIN measured' /\ measured'[k] = measured[k],
         ~item.error => /\ IsDraft(item.text) /\ item.key \in DOMAIN measured'
                        /\ measured'[item.key] \subseteq ToSet(Requirements) \cap (item.text.exact \cup item.text.near)
  PROVE  Matching(Append(sections, item), keys)' /\ Len(Append(sections, item)) = Len(sections) + 1
  <1> DEFINE more == Append(sections, item)
             n == Len(sections) + 1
  <1>1. /\ IsList(sections) /\ Len(sections) \in Nat /\ DOMAIN sections = 1..Len(sections)
        /\ Len(keys) \in Nat /\ DOMAIN keys = 1..Len(keys)
    BY ListIs DEF Matching, DistinctKeys
  <1>2. IsList(more) /\ Len(more) = n /\ DOMAIN more = 1..n /\ more[n] = item
        /\ \A i \in DOMAIN sections : more[i] = sections[i]
    <2>1. sections \in Seq(ToSet(sections) \cup {item}) /\ item \in ToSet(sections) \cup {item}
      <3>1. sections \in Seq(ToSet(sections))
        BY <1>1, ListIs
      <3>2. QED
        BY <3>1
    <2>2. more \in Seq(ToSet(sections) \cup {item}) /\ Len(more) = n /\ more[n] = item
          /\ \A i \in 1..Len(sections) : more[i] = sections[i]
      BY <2>1
    <2> HIDE DEF more
    <2>3. IsList(more)
      BY <2>2, IsListOf
    <2>4. DOMAIN more = 1..n
      BY <2>2
    <2>5. QED
      BY <1>1, <2>2, <2>3, <2>4
  <1> HIDE DEF more
  <1>3. ASSUME NEW i \in DOMAIN more
        PROVE  more[i].key = keys[i] /\ (~more[i].error => IsDraft(more[i].text) /\ Measures(more[i])')
    <2>1. CASE i = n
      BY <1>2, <2>1 DEF Measures
    <2>2. CASE i # n
      <3>1. i \in DOMAIN sections /\ more[i] = sections[i]
        BY <1>1, <1>2, <2>2
      <3>2. sections[i].key = keys[i] /\ (~sections[i].error => IsDraft(sections[i].text) /\ Measures(sections[i]))
        BY <3>1 DEF Matching
      <3>3. keys[i] # item.key
        BY <1>1, <3>1 DEF DistinctKeys
      <3>4. Measures(sections[i]) => Measures(sections[i])'
        BY <3>2, <3>3 DEF Measures
      <3>5. QED
        BY <3>1, <3>2, <3>4 DEF Measures
    <2>3. QED
      BY <2>1, <2>2
  <1>4. Matching(more, keys)'
    BY <1>1, <1>2, <1>3 DEF Matching
  <1>5. QED
    BY <1>2, <1>4 DEF more

LEMMA ValidateSectionKeeps ==
  ASSUME BidInv, ValidateSection
  PROVE  BidInv'
  <1> DEFINE tool == "generate_proposal_sections"
  <1>1. PICK d \in drafting :
          LET n    == Len(d.rendered) + 1
              key  == d.keys[n]
              text == d.texts[key]
              item == [key |-> key, scores |-> d.scores[key], error |-> text = {},
                       text |-> IF text = {} THEN NoText ELSE CHOOSE t \in text : TRUE]
              rendered == Append(d.rendered, item)
          IN  /\ DOMAIN d.texts = ToSet(d.keys)
              /\ measured' = IF text = {} THEN measured
                             ELSE Put(measured, key, Covered(d.requirements, item.text, embeddings'))
              /\ IF n < Len(d.keys)
                 THEN drafting' = {[d EXCEPT !.rendered = rendered]} /\ UNCHANGED <<results, todo>>
                 ELSE /\ drafting' = {}
                      /\ IF \E i \in DOMAIN rendered : ~rendered[i].error
                         THEN Succeeds(tool, [sections |-> rendered, requested |-> d.keys])
                         ELSE ToolFails(tool)
    BY ZenonT(60) DEF ValidateSection
  <1>2. UNCHANGED <<files, request, answer, saved>>
    BY Zenon DEF ValidateSection
  <1>3. /\ d = [keys |-> d.keys, scores |-> d.scores, requirements |-> d.requirements,
                texts |-> d.texts, rendered |-> d.rendered]
        /\ DistinctKeys(d.keys) /\ Len(d.rendered) < Len(d.keys) /\ Matching(d.rendered, d.keys)
        /\ d.requirements = Requirements
        /\ \A k \in DOMAIN d.texts : \A t \in d.texts[k] : IsDraft(t)
    BY DEF BidInv, DraftingInOrder
  <1>4. todo = <<tool, "score_proposal">> /\ request # {} /\ tool \notin DOMAIN results /\ answer = {} /\ ~Scored
    BY DEF BidInv, PlanKept
  <1>5. Head(todo) = tool /\ todo # << >>
    BY <1>4
  <1> DEFINE n == Len(d.rendered) + 1
             key == d.keys[n]
             text == d.texts[key]
             item == [key |-> key, scores |-> d.scores[key], error |-> text = {},
                      text |-> IF text = {} THEN NoText ELSE CHOOSE t \in text : TRUE]
             rendered == Append(d.rendered, item)
             output == [sections |-> rendered, requested |-> d.keys]
  <1>6. /\ item.key = key /\ (item.error <=> text = {})
        /\ text # {} => item.text \in text
    OBVIOUS
  <1>7. /\ DOMAIN d.texts = ToSet(d.keys)
        /\ text = {} => measured' = measured
        /\ text # {} => measured' = Put(measured, key, Covered(d.requirements, item.text, embeddings'))
    BY <1>1, ZenonT(60)
  <1>8. /\ n < Len(d.keys) => drafting' = {[d EXCEPT !.rendered = rendered]} /\ UNCHANGED <<results, todo>>
        /\ ~(n < Len(d.keys)) => drafting' = {} /\ (Succeeds(tool, output) \/ ToolFails(tool))
    BY <1>1, Zenon
  <1> HIDE DEF item
  <1>9. n \in DOMAIN d.keys /\ n <= Len(d.keys) /\ Len(d.keys) \in Nat /\ Len(d.rendered) \in Nat
    BY <1>3, ListIs DEF DistinctKeys, Matching
  <1>10. Requirements' = Requirements
    <2>1. CASE n < Len(d.keys)
      BY <1>8, <2>1 DEF Requirements
    <2>2. CASE ~(n < Len(d.keys)) /\ Succeeds(tool, output)
      BY <2>2 DEF Requirements, Succeeds, Put, Over
    <2>3. CASE ~(n < Len(d.keys)) /\ ToolFails(tool)
      BY <2>3 DEF Requirements, ToolFails
    <2>4. QED
      BY <1>8, <2>1, <2>2, <2>3
  <1>11. \A k \in DOMAIN measured : k # item.key => k \in DOMAIN measured' /\ measured'[k] = measured[k]
    BY <1>6, <1>7 DEF Put, Over
  <1>12. ~item.error => /\ IsDraft(item.text) /\ item.key \in DOMAIN measured'
                        /\ measured'[item.key] \subseteq ToSet(Requirements) \cap (item.text.exact \cup item.text.near)
    <2> SUFFICES ASSUME text # {}
                 PROVE  /\ IsDraft(item.text) /\ key \in DOMAIN measured'
                        /\ measured'[key] \subseteq ToSet(Requirements) \cap (item.text.exact \cup item.text.near)
      BY <1>6
    <2>1. key \in DOMAIN d.texts
      BY <1>7, <1>9 DEF ToSet
    <2>2. IsDraft(item.text)
      BY <1>3, <1>6, <2>1
    <2>3. key \in DOMAIN measured' /\ measured'[key] = Covered(d.requirements, item.text, embeddings')
      BY <1>7 DEF Put, Over
    <2>4. QED
      BY <1>3, <2>2, <2>3 DEF Covered
  <1> HIDE DEF key, text
  <1>13. Matching(rendered, d.keys)' /\ Len(rendered) = n
    <2>1. item.key = d.keys[Len(d.rendered) + 1]
      BY <1>6 DEF key
    <2>2. QED
      BY <1>3, <1>10, <1>11, <1>12, <2>1, OneMoreInPlace
  <1> HIDE DEF rendered
  <1>14. CASE n < Len(d.keys)
    <2>1. drafting' = {[d EXCEPT !.rendered = rendered]} /\ UNCHANGED <<results, todo>>
      BY <1>8, <1>14
    <2>2. PlanKept'
      BY <1>2, <1>4, <1>10, <2>1 DEF BidInv, PlanKept, Scored, Structured
    <2>3. PICK e : e = [d EXCEPT !.rendered = rendered]
      OBVIOUS
    <2>4. /\ e = [keys |-> d.keys, scores |-> d.scores, requirements |-> d.requirements,
                  texts |-> d.texts, rendered |-> rendered]
          /\ drafting' = {e}
      BY <1>3, <2>1, <2>3
    <2>5. /\ e.keys = d.keys /\ e.requirements = d.requirements /\ e.texts = d.texts /\ e.rendered = rendered
          /\ e.scores = d.scores
      BY <2>4
    <2>6. DraftingInOrder'
      BY <1>3, <1>10, <1>13, <1>14, <2>4, <2>5 DEF DraftingInOrder
    <2>7. ~Scored' /\ tool \notin DOMAIN results'
      BY <1>4, <2>1 DEF Scored
    <2>8. FitExplained'
      <3>1. Comparison' = Comparison
        BY <2>1 DEF Comparison
      <3>2. QED
        BY <1>10, <2>1, <3>1 DEF BidInv, FitExplained
    <2>9. SavedAsAnswered'
      BY <1>2, <1>4 DEF SavedAsAnswered
    <2>10. QED
      BY <2>2, <2>6, <2>7, <2>8, <2>9 DEF BidInv, SectionsInOrder, CoverageMonotone, DraftedCounts
  <1>15. CASE ~(n < Len(d.keys)) /\ ToolFails(tool)
    <2>1. /\ DOMAIN results' = DOMAIN results \ {tool}
          /\ \A t \in DOMAIN results \ {tool} : results'[t] = results[t]
      BY <1>15 DEF ToolFails
    <2>2. Ends(tool) /\ tool \notin DOMAIN results'
      BY <1>2, <1>4, <1>5, <1>8, <1>15, <2>1 DEF Ends, PlanTools, ToolFails
    <2>3. QED
      BY <2>2, FailureKeeps
  <1>16. CASE ~(n < Len(d.keys)) /\ Succeeds(tool, output)
    <2>1. /\ DOMAIN results' = DOMAIN results \cup {tool}
          /\ results'[tool] = output
          /\ \A t \in DOMAIN results \ {tool} : results'[t] = results[t]
      BY <1>16 DEF Succeeds, Put, Over
    <2>2. Ends(tool)
      BY <1>2, <1>4, <1>5, <1>8, <1>16, <2>1 DEF Ends, PlanTools, Succeeds
    <2>3. PlanKept' /\ DraftingInOrder' /\ SavedAsAnswered'
      BY <1>10, <2>2, PlanGoesOn DEF BidInv, PlanKept
    <2>4. ~Scored'
      BY <2>2, OthersKept
    <2>5. FitExplained'
      <3>1. /\ Comparison' = Comparison
            /\ "compare_solutions" \in DOMAIN results' => "compare_solutions" \in DOMAIN results
        BY <2>1 DEF Comparison
      <3>2. QED
        BY <1>10, <3>1 DEF BidInv, FitExplained
    <2>6. SectionsInOrder'
      <3>1. n = Len(d.keys)
        BY <1>9, <1>16
      <3>2. output.sections = rendered /\ output.requested = d.keys
        OBVIOUS
      <3> HIDE DEF output, n
      <3>3. QED
        BY <1>3, <1>13, <2>1, <3>1, <3>2 DEF SectionsInOrder
    <2>7. QED
      BY <2>3, <2>4, <2>5, <2>6 DEF BidInv, CoverageMonotone, DraftedCounts
  <1>17. QED
    BY <1>8, <1>14, <1>15, <1>16

-----------------------------------------------------------------------------
(* Scoring and answering.                                                  *)

LEMMA DraftedIs ==
  ASSUME BidInv, "generate_proposal_sections" \in DOMAIN results
  PROVE  LET keys == results["generate_proposal_sections"].requested
         IN  /\ IsList(Drafted) /\ DistinctKeys(keys) /\ Len(keys) = Len(Sections)
             /\ Drafted # << >> => keys # << >>
             /\ \A n \in DOMAIN Drafted : /\ Drafted[n].key \in ToSet(keys)
                                          /\ IsDraft(Drafted[n].text) /\ Measures(Drafted[n])
             /\ \A m, n \in DOMAIN Drafted : Drafted[m].key = Drafted[n].key => m = n
             /\ \A i, j \in DOMAIN Sections : Sections[i].key = Sections[j].key => i = j
  <1>1. PICK keys, sections : /\ keys = results["generate_proposal_sections"].requested
                              /\ sections = results["generate_proposal_sections"].sections
    OBVIOUS
  <1>2. DistinctKeys(keys) /\ Matching(sections, keys) /\ Len(sections) = Len(keys)
    BY <1>1 DEF BidInv, SectionsInOrder
  <1>3. Sections = sections
    BY <1>1 DEF Sections
  <1>4. /\ Len(sections) \in Nat /\ DOMAIN sections = 1..Len(sections) /\ IsList(sections)
        /\ Len(keys) \in Nat /\ DOMAIN keys = 1..Len(keys) /\ IsList(keys)
    BY <1>2, ListIs DEF DistinctKeys, Matching
  <1>5. /\ Rows \in SUBSET DOMAIN sections /\ \A i \in Rows : ~sections[i].error
        /\ Drafted = Subsequence(sections, Rows)
    BY <1>3 DEF Rows, Drafted
  <1>6. PICK parts : parts = Drafted
    OBVIOUS
  <1>7. /\ IsList(parts) /\ Len(parts) = Cardinality(Rows) /\ Cardinality(Rows) \in Nat
        /\ DOMAIN parts = 1..Cardinality(Rows)
        /\ \A n \in DOMAIN parts : Place(Rows, n) \in Rows /\ parts[n] = sections[Place(Rows, n)]
        /\ \A m, n \in DOMAIN parts : Place(Rows, m) = Place(Rows, n) => m = n
    BY <1>4, <1>5, <1>6, SelectedIs
  <1>8. \A i \in DOMAIN sections : i \in DOMAIN keys /\ sections[i].key = keys[i]
    BY <1>2, <1>4 DEF Matching
  <1>9. \A i, j \in DOMAIN sections : sections[i].key = sections[j].key => i = j
    BY <1>2, <1>8 DEF DistinctKeys
  <1>10. ASSUME NEW n \in DOMAIN parts
         PROVE  parts[n].key \in ToSet(keys) /\ IsDraft(parts[n].text) /\ Measures(parts[n])
    <2>1. PICK i \in Rows : i = Place(Rows, n) /\ parts[n] = sections[i]
      BY <1>7
    <2>2. i \in DOMAIN sections /\ ~sections[i].error
      BY <1>5
    <2>3. QED
      BY <1>2, <1>8, <2>1, <2>2 DEF Matching, ToSet
  <1>11. \A m, n \in DOMAIN parts : parts[m].key = parts[n].key => m = n
    BY <1>5, <1>7, <1>9
  <1>12. parts # << >> => keys # << >>
    <2> SUFFICES ASSUME keys = << >>, parts # << >>
                 PROVE  FALSE
      OBVIOUS
    <2>1. Len(keys) = 0 /\ DOMAIN sections = {}
      BY <1>2, <1>4
    <2>2. Rows = {} /\ DOMAIN parts = {}
      BY <1>5, <1>7, <2>1
    <2>3. Len(parts) = 0 /\ parts \in Seq(ToSet(parts))
      BY <1>7, <2>2, ListIs
    <2>4. QED
      BY <2>3
  <1>13. QED
    BY <1>1, <1>2, <1>3, <1>6, <1>7, <1>9, <1>10, <1>11, <1>12

(* What the proposal as a whole covers.                                     *)
LEMMA AssembledCovers ==
  ASSUME NEW parts, NEW s \in ToSet(parts), NEW requirements, NEW semantic,
         NEW by, by \subseteq ToSet(requirements) \cap (s.text.exact \cup s.text.near)
  PROVE  by \cap (IF semantic THEN by ELSE s.text.exact) \subseteq Covered(requirements, Assembled(parts), semantic)
  <1>1. s.text.exact \subseteq Assembled(parts).exact /\ s.text.near \subseteq Assembled(parts).near
    BY DEF Assembled
  <1>2. CASE semantic
    BY <1>1, <1>2 DEF Covered
  <1>3. CASE ~semantic
    BY <1>1, <1>3 DEF Covered
  <1>4. QED
    BY <1>2, <1>3

LEMMA ScoreProposalKeeps ==
  ASSUME BidInv, ScoreProposal
  PROVE  BidInv'
  <1> DEFINE tool == "score_proposal"
             g == "generate_proposal_sections"
  <1>1. PICK quality :
          LET components == Components(Profile, embeddings', quality)
          IN  Succeeds("score_proposal",
                    [components |-> components, composite |-> Composite(components, Profile.weights),
                     weights |-> Profile.weights,
                     covered |-> Covered(Requirements, Document, embeddings'), semantic |-> embeddings'])
    BY DEF ScoreProposal
  <1>2. PICK output, composite :
          /\ Succeeds(tool, output)
          /\ output = [components |-> Components(Profile, embeddings', quality), composite |-> composite,
                       weights |-> Profile.weights,
                       covered |-> Covered(Requirements, Document, embeddings'), semantic |-> embeddings']
    BY <1>1
  <1>3. tool \in PlanTools /\ Runs(tool) /\ UNCHANGED <<files, request, drafting, measured, answer, saved>>
    BY DEF ScoreProposal, PlanTools
  <1>4. Ends(tool) /\ tool \in DOMAIN results' /\ results'[tool] = output
    BY <1>2, <1>3, SucceedsEnds
  <1>5. PlanKept' /\ DraftingInOrder' /\ SavedAsAnswered' /\ SectionsInOrder'
    BY <1>3, <1>4, SectionsKeep
  <1>6. Requirements' = Requirements /\ Sections' = Sections /\ Rows' = Rows /\ Drafted' = Drafted
    BY <1>4, OthersKept
  <1>7. FitExplained'
    <2>1. /\ Comparison' = Comparison
          /\ "compare_solutions" \in DOMAIN results' => "compare_solutions" \in DOMAIN results
      BY <1>4 DEF Comparison, Ends
    <2>2. QED
      BY <1>6, <2>1 DEF BidInv, FitExplained
  <1>8. Score' = output
    BY <1>4 DEF Score
  <1>9. Drafted = << >> => ToSet(Drafted) = {}
    BY DEF ToSet
  <1>10. Drafted # << >> => g \in DOMAIN results
    <2> SUFFICES ASSUME g \notin DOMAIN results
                 PROVE  Drafted = << >>
      OBVIOUS
    <2>1. Sections = << >> /\ Rows = {}
      BY DEF Sections, Rows
    <2>2. Drafted = [n \in 1..0 |-> Sections[Place(Rows, n)]]
      BY <2>1, FS_EmptySet DEF Drafted, Subsequence
    <2>3. QED
      BY <2>2
  <1>11. CoverageMonotone'
    <2> SUFFICES ASSUME NEW s \in ToSet(Drafted)
                 PROVE  measured[s.key] \cap (IF output.semantic THEN measured[s.key] ELSE s.text.exact)
                          \subseteq output.covered
      BY <1>3, <1>6, <1>8 DEF CoverageMonotone
    <2>1. Drafted # << >> /\ g \in DOMAIN results
      BY <1>9, <1>10
    <2>2. Measures(s)
      BY <2>1, DraftedIs DEF ToSet
    <2>3. Document = Assembled(Drafted)
      BY <2>1 DEF Document
    <2>4. output.semantic = embeddings' /\ output.covered = Covered(Requirements, Assembled(Drafted), embeddings')
      BY <1>2, <2>3
    <2>5. QED
      BY <2>2, <2>4, AssembledCovers DEF Measures
  <1>12. DraftedCounts'
    <2> SUFFICES ASSUME Drafted # << >>
                 PROVE  LET n == Len(results[g].requested)
                            k == Cardinality({i \in DOMAIN Drafted : Drafted[i].text.words > 0})
                        IN  2 * (n * Max(output.components.completeness)) >= 1200 * k - n
      <3>1. g \in DOMAIN results /\ g # tool => results'[g] = results[g]
        BY <1>4 DEF Ends
      <3>2. QED
        BY <1>6, <1>8, <1>10, <3>1 DEF DraftedCounts
    <2>1. PICK keys : keys = results[g].requested
      OBVIOUS
    <2>2. /\ IsList(Drafted) /\ DistinctKeys(keys) /\ keys # << >>
          /\ \A n \in DOMAIN Drafted : Drafted[n].key \in ToSet(keys) /\ IsDraft(Drafted[n].text)
          /\ \A m, n \in DOMAIN Drafted : Drafted[m].key = Drafted[n].key => m = n
      BY <1>10, <2>1, DraftedIs
    <2>3. {i \in DOMAIN Drafted : Drafted[i].text.words > 0} = DOMAIN Drafted
      <3>1. \A i \in DOMAIN Drafted : Drafted[i].text.words \in Nat /\ Drafted[i].text.words > 0
        BY <2>2 DEF IsDraft
      <3>2. QED
        BY <3>1
    <2>4. Cardinality(DOMAIN Drafted) = Len(Drafted)
      BY <2>2, ListIs
    <2>5. PICK c \in Int : /\ Completeness(Profile, Drafted, keys) = {c}
                           /\ 2 * (Len(keys) * c) >= 1200 * Len(Drafted) - Len(keys)
      <3>1. IsList(Drafted) /\ IsList(keys) /\ keys # << >>
        BY <2>2 DEF DistinctKeys
      <3>2. \A i \in DOMAIN Drafted : Drafted[i].key \in ToSet(keys) /\ Drafted[i].text.words > 0
        BY <2>2 DEF IsDraft
      <3>3. \A i, j \in DOMAIN Drafted : Drafted[i].key = Drafted[j].key => i = j
        BY <2>2
      <3>4. QED
        BY <3>1, <3>2, <3>3, DraftsAreWorth
    <2>6. output.components.completeness = {c}
      BY <1>2, <2>1, <2>5 DEF Components
    <2>7. Max(output.components.completeness) = c
      BY <2>5, <2>6, MaxOfOne
    <2>8. Cardinality({i \in DOMAIN Drafted : Drafted[i].text.words > 0}) = Len(Drafted)
      BY <2>3, <2>4
    <2>9. Len(Drafted) \in Nat /\ Len(keys) \in Nat
      BY <2>2, ListIs DEF DistinctKeys
    <2>10. PICK k \in Nat, n \in Nat : k = Len(Drafted) /\ n = Len(keys)
      BY <2>9
    <2>11. 2 * (n * c) >= 1200 * k - n
      BY <2>5, <2>10
    <2>12. /\ k = Cardinality({i \in DOMAIN Drafted : Drafted[i].text.words > 0})
           /\ n = Len(results[g].requested)
      BY <2>1, <2>8, <2>10
    <2>13. QED
      BY <2>7, <2>11, <2>12
  <1>13. QED
    BY <1>5, <1>7, <1>11, <1>12 DEF BidInv

LEMMA AnswerKeeps ==
  ASSUME BidInv, Answer
  PROVE  BidInv'
  <1> DEFINE keyed(i) == {j \in Rows : Sections[j].key = Sections[i].key}
  <1>1. PICK persisted, ids, status :
          /\ ids = [i \in DOMAIN Sections |-> IF persisted /\ keyed(i) # {} THEN {Max(keyed(i))} ELSE {}]
          /\ answer' = {[status |-> status, persisted |-> persisted, ids |-> ids]}
          /\ saved' = IF persisted THEN Rows ELSE {}
    BY DEF Answer
  <1>2. UNCHANGED <<files, request, todo, results, drafting, measured>> /\ todo = << >> /\ request # {}
    BY DEF Answer
  <1>3. /\ SectionsInOrder' /\ FitExplained' /\ CoverageMonotone' /\ DraftedCounts'
        /\ Requirements' = Requirements /\ Scored' = Scored /\ Sections' = Sections /\ Rows' = Rows
    BY <1>2, ResultsKeep
  <1>4. PlanKept'
    BY <1>2, <1>3 DEF BidInv, PlanKept, Structured
  <1>5. DraftingInOrder'
    BY <1>2, DraftingKeeps
  <1>6. Rows \subseteq DOMAIN Sections /\ Rows \subseteq Int
        /\ \A i, j \in DOMAIN Sections : Sections[i].key = Sections[j].key => i = j
    <2>1. CASE "generate_proposal_sections" \in DOMAIN results
      <3>1. \A i, j \in DOMAIN Sections : Sections[i].key = Sections[j].key => i = j
        BY <2>1, DraftedIs
      <3>2. IsList(Sections)
        BY <2>1 DEF BidInv, SectionsInOrder, Matching, Sections
      <3>3. QED
        BY <3>1, <3>2, ListIs DEF Rows
    <2>2. CASE "generate_proposal_sections" \notin DOMAIN results
      BY <2>2 DEF Rows, Sections
    <2>3. QED
      BY <2>1, <2>2
  <1>7. \A i \in DOMAIN Sections : keyed(i) = IF i \in Rows THEN {i} ELSE {}
    BY <1>6
  <1> HIDE DEF keyed
  <1>8. \A i \in Rows : Max({i}) = i
    BY <1>6, MaxOfOne
  <1>9. persisted => \A i \in DOMAIN Sections : ids[i] = IF i \in Rows THEN {i} ELSE {}
    BY <1>1, <1>7, <1>8
  <1>10. persisted => UNION {ids[i] : i \in DOMAIN ids} = Rows /\ \A i \in Rows : ids[i] = {i}
    <2>1. DOMAIN ids = DOMAIN Sections
      BY <1>1
    <2>2. QED
      BY <1>6, <1>9, <2>1
  <1>11. SavedAsAnswered'
    <2> SUFFICES ASSUME NEW a \in answer', a.persisted
                 PROVE  UNION {a.ids[i] : i \in DOMAIN a.ids} = saved' /\ \A i \in Rows : a.ids[i] = {i}
      BY <1>3 DEF SavedAsAnswered
    <2>1. a.ids = ids /\ persisted /\ saved' = Rows
      BY <1>1
    <2>2. UNION {a.ids[i] : i \in DOMAIN a.ids} = UNION {ids[i] : i \in DOMAIN ids}
      BY <2>1
    <2>3. QED
      BY <1>10, <2>1, <2>2
  <1>12. QED
    BY <1>3, <1>4, <1>5, <1>11 DEF BidInv

LEMMA RaiseKeeps ==
  ASSUME BidInv, Raise
  PROVE  BidInv'
  <1>1. /\ answer' = {[status |-> "raised", persisted |-> FALSE, ids |-> << >>]}
        /\ todo' = << >> /\ DOMAIN results' = {} /\ drafting' = {} /\ UNCHANGED <<files, request>> /\ request # {}
    BY DEF Raise
  <1>2. IsList(Requirements')
    <2>1. Requirements' = << >> /\ << >> \in Seq({})
      BY <1>1 DEF Requirements
    <2>2. QED
      BY <2>1, IsListOf
  <1>3. PlanKept'
    BY <1>1, <1>2 DEF BidInv, PlanKept, PlanTails, Scored, Structured
  <1>4. \A a \in answer' : ~a.persisted
    BY <1>1
  <1>5. QED
    BY <1>1, <1>3, <1>4 DEF BidInv, DraftingInOrder, SectionsInOrder, FitExplained, CoverageMonotone, DraftedCounts,
         SavedAsAnswered, Scored

(* What a bid uses was made from what is behind it in the plan.             *)
LEMMA BidStepKeeps == BidInv /\ [BidNext]_bidVars => BidInv'
  <1> SUFFICES ASSUME BidInv, [BidNext]_bidVars
               PROVE  BidInv'
    OBVIOUS
  <1>1. CASE UNCHANGED bidVars
    <2>1. UNCHANGED <<files, request, todo, results, drafting, measured, answer, saved>>
      BY <1>1 DEF bidVars
    <2>2. /\ SectionsInOrder' /\ FitExplained' /\ CoverageMonotone' /\ DraftedCounts' /\ SavedAsAnswered'
          /\ Requirements' = Requirements /\ Scored' = Scored
      BY <2>1, ResultsKeep
    <2>3. PlanKept'
      BY <2>1, <2>2 DEF BidInv, PlanKept, Structured
    <2>4. QED
      BY <2>1, <2>2, <2>3, DraftingKeeps DEF BidInv
  <1>2. CASE Receive
    BY <1>2, ReceiveKeeps
  <1>3. CASE EditFiles
    BY <1>3, EditFilesKeeps
  <1>4. CASE StructureRequest
    BY <1>4, StructureRequestKeeps
  <1>5. CASE CompareSolutions
    BY <1>5, CompareSolutionsKeeps
  <1>6. CASE RetrieveEvidence
    BY <1>6, RetrieveEvidenceKeeps
  <1>7. CASE StepFails \/ NothingPlanned
    BY <1>7, FailuresKeep
  <1>8. CASE PlanSections
    BY <1>8, PlanSectionsKeeps
  <1>9. CASE DraftSection
    BY <1>9, DraftSectionKeeps
  <1>10. CASE ValidateSection
    BY <1>10, ValidateSectionKeeps
  <1>11. CASE ScoreProposal
    BY <1>11, ScoreProposalKeeps
  <1>12. CASE Answer
    BY <1>12, AnswerKeeps
  <1>13. CASE Raise
    BY <1>13, RaiseKeeps
  <1>14. QED
    BY <1>1, <1>2, <1>3, <1>4, <1>5, <1>6, <1>7, <1>8, <1>9, <1>10, <1>11, <1>12, <1>13 DEF BidNext

-----------------------------------------------------------------------------
(* Scores, stages and roles.                                               *)

(* The least number of a set is its first.                                  *)
LEMMA ValuesFinite ==
  ASSUME NEW I, IsFiniteSet(I), NEW f
  PROVE  IsFiniteSet({f[i] : i \in I})
  <1> DEFINE T == {f[i] : i \in I}
             g == [i \in I |-> f[i]]
  <1>1. g \in Surjection(I, T)
    BY DEF Surjection
  <1> HIDE DEF g, T
  <1>2. QED
    BY <1>1, FS_Surjection DEF T

LEMMA StageForFits ==
  ASSUME NEW p, IsList(p.stages), \A s \in ToSet(p.stages) : s.max \in Int, NEW buyer, buyer.score \in Int,
         buyer.stage = StageFor(p.stages, buyer.score)
  PROVE  StageFits(buyer, p)
  <1> DEFINE stages == p.stages
             fitting == {i \in DOMAIN stages : buyer.score <= stages[i].max}
             maxima == [i \in DOMAIN stages |-> stages[i].max]
             least == Min({stages[i].max : i \in fitting})
             most == Max({stages[i].max : i \in DOMAIN stages})
  <1>1. IsFiniteSet(DOMAIN stages) /\ DOMAIN stages \subseteq Int /\ \A i \in DOMAIN stages : stages[i].max \in Int
    <2>1. IsFiniteSet(DOMAIN stages) /\ Len(stages) \in Nat /\ DOMAIN stages = 1..Len(stages)
      BY ListIs
    <2>2. \A i \in DOMAIN stages : stages[i] \in ToSet(stages)
      BY DEF ToSet
    <2>3. QED
      BY <2>1, <2>2
  <1>2. fitting \in SUBSET DOMAIN stages /\ IsFiniteSet(fitting)
    BY <1>1, FS_Subset
  <1>3. {stages[i].max : i \in fitting} = {maxima[i] : i \in fitting}
        /\ {stages[i].max : i \in DOMAIN stages} = {maxima[i] : i \in DOMAIN stages}
    OBVIOUS
  <1>4. IsFiniteSet({stages[i].max : i \in fitting}) /\ IsFiniteSet({stages[i].max : i \in DOMAIN stages})
    <2> HIDE DEF fitting, maxima, stages
    <2>1. IsFiniteSet({maxima[i] : i \in fitting})
      BY <1>2, ValuesFinite
    <2>2. IsFiniteSet({maxima[i] : i \in DOMAIN stages})
      BY <1>1, ValuesFinite
    <2>3. QED
      BY <1>3, <2>1, <2>2
  <1>5. CASE stages = << >>
    BY <1>5 DEF StageFor, StageFits
  <1>6. CASE stages # << >> /\ fitting = {}
    <2>1. DOMAIN stages # {}
      BY <1>6, ListIs
    <2>2. most \in {stages[i].max : i \in DOMAIN stages} /\ \A x \in {stages[i].max : i \in DOMAIN stages} : most >= x
      <3>1. {stages[i].max : i \in DOMAIN stages} \in SUBSET Int /\ {stages[i].max : i \in DOMAIN stages} # {}
        BY <1>1, <2>1
      <3>2. QED
        BY <1>4, <3>1, MostOfSet
    <2> DEFINE K == {i \in DOMAIN stages : stages[i].max = most}
    <2>3. buyer.stage = stages[Max(K)].name
      BY <1>6 DEF StageFor
    <2> HIDE DEF most
    <2>4. K \in SUBSET Int /\ K # {} /\ K \in SUBSET DOMAIN stages
      BY <1>1, <2>2
    <2>5. IsFiniteSet(K)
      BY <1>1, <2>4, FS_Subset
    <2>6. Max(K) \in K
      <3> HIDE DEF K
      <3>1. QED
        BY <2>4, <2>5, MostOfSet
    <2>7. PICK k \in DOMAIN stages : stages[k].max = most /\ buyer.stage = stages[k].name
      BY <2>3, <2>6
    <2>8. \A s \in ToSet(p.stages) : s.max <= stages[k].max
      BY <1>1, <2>2, <2>7 DEF ToSet
    <2>9. {s \in ToSet(p.stages) : s.max >= buyer.score} = {}
      BY <1>1, <1>6 DEF ToSet
    <2>10. QED
      BY <2>7, <2>8, <2>9 DEF StageFits, ToSet
  <1>7. CASE stages # << >> /\ fitting # {}
    <2>1. least \in {stages[i].max : i \in fitting} /\ \A x \in {stages[i].max : i \in fitting} : least <= x
      <3>1. {stages[i].max : i \in fitting} \in SUBSET Int /\ {stages[i].max : i \in fitting} # {}
        BY <1>1, <1>7
      <3>2. QED
        BY <1>4, <3>1, LeastOfSet
    <2> DEFINE K == {i \in fitting : stages[i].max = least}
    <2>2. buyer.stage = stages[Min(K)].name
      BY <1>7 DEF StageFor
    <2> HIDE DEF least
    <2>3. K \in SUBSET Int /\ K # {} /\ K \in SUBSET fitting
      BY <1>1, <2>1
    <2>4. IsFiniteSet(K)
      BY <1>2, <2>3, FS_Subset
    <2>5. Min(K) \in K
      <3> HIDE DEF K
      <3>1. QED
        BY <2>3, <2>4, LeastOfSet
    <2>6. PICK k \in fitting : stages[k].max = least /\ buyer.stage = stages[k].name
      BY <2>2, <2>5
    <2>7. stages[k] \in ToSet(p.stages) /\ stages[k].max >= buyer.score
      BY <1>1 DEF ToSet
    <2>8. \A s \in ToSet(p.stages) : s.max >= buyer.score => stages[k].max <= s.max
      BY <1>1, <2>1, <2>6 DEF ToSet
    <2>9. QED
      BY <2>6, <2>7, <2>8 DEF StageFits
  <1>8. QED
    BY <1>5, <1>6, <1>7

LEMMA PercentIs ==
  ASSUME NEW raw \in Int
  PROVE  Percent(raw) \in 0..100
  <1>1. PICK n \in Int : n = IF raw \in 1..1000 THEN 100 * raw ELSE raw
    OBVIOUS
  <1>2. PICK x \in Int : x = Rounded(n, 1000)
    <2>1. 1000 \in Nat \ {0}
      OBVIOUS
    <2>2. QED
      BY <2>1, RoundedIs
  <1>3. Percent(raw) = IF x < 0 THEN 0 ELSE IF x > 100 THEN 100 ELSE x
    BY <1>1, <1>2 DEF Percent
  <1>4. QED
    BY <1>2, <1>3

(* A score of a hundred on a scale of ten.                                  *)
LEMMA RatingIs ==
  ASSUME NEW score \in 0..100
  PROVE  Rounded(score, 10) \in 0..10 /\ 10 * Rounded(score, 10) - score \in -5..5
  <1>1. PICK x \in Int : x = Rounded(score, 10) /\ 2 * (10 * x - score) \in (0 - 10)..10
    <2>1. score \in Int /\ 10 \in Nat \ {0}
      OBVIOUS
    <2>2. Rounded(score, 10) \in Int /\ 2 * (10 * Rounded(score, 10) - score) \in (0 - 10)..10
      BY <2>1, RoundedIs
    <2>3. QED
      BY <2>2
  <1>2. 10 * x - score \in -5..5
    BY <1>1
  <1>3. x \in 0..10
    BY <1>2
  <1>4. QED
    BY <1>1, <1>2, <1>3

LEMMA RecognisedIs ==
  ASSUME NEW roles, IsList(roles), NEW categories
  PROVE  IsList(Recognised(roles, categories)) /\ ToSet(Recognised(roles, categories)) \subseteq ToSet(categories)
  <1> DEFINE I == {i \in DOMAIN roles : roles[i] \in ToSet(categories)}
  <1>1. I \in SUBSET DOMAIN roles /\ \A i \in I : roles[i] \in ToSet(categories)
    OBVIOUS
  <1>2. Recognised(roles, categories) = Distinct(Subsequence(roles, I))
    BY DEF Recognised
  <1> HIDE DEF I
  <1>3. IsList(Subsequence(roles, I)) /\ ToSet(Subsequence(roles, I)) = {roles[i] : i \in I}
    BY <1>1, SelectedIs
  <1>4. QED
    BY <1>1, <1>2, <1>3, DistinctIs DEF DistinctKeys

LEMMA MissingIs ==
  ASSUME NEW p, IsList(p.categories), NEW identified, NEW named, named = << >>
  PROVE  ToSet(Missing(p, identified, named)) = ToSet(p.categories) \ ToSet(identified)
  <1> DEFINE I == {i \in DOMAIN p.categories : p.categories[i] \notin ToSet(identified)}
  <1>1. I \in SUBSET DOMAIN p.categories /\ Missing(p, identified, named) = Subsequence(p.categories, I)
    BY DEF Missing
  <1>2. {p.categories[i] : i \in I} = ToSet(p.categories) \ ToSet(identified)
    BY DEF ToSet
  <1> HIDE DEF I
  <1>3. QED
    BY <1>1, <1>2, SelectedIs

LEMMA RolesAreSplit ==
  ASSUME NEW p \in DealProfiles, NEW a \in Buyers
  PROVE  RolesSplit(Roles(p, a), p) /\ RolesSplit(NoRoles(p), p)
  <1> DEFINE spoken == Recognised(a.identified, p.categories)
             people == [i \in DOMAIN a.people |-> Choice(a.people[i], ToSet(p.categories), DefaultCategory(p))]
             identified == IF spoken # << >> THEN spoken ELSE Distinct(people)
             named == Recognised(a.missing, p.categories)
  <1>1. IsList(p.categories) /\ IsList(a.identified) /\ IsList(a.people) /\ IsList(a.missing)
    BY DealsAssumption
  <1>2. NoRoles(p).identified = << >> /\ NoRoles(p).missing = p.categories
    BY DEF NoRoles
  <1>3. ToSet(<< >>) = {}
    BY DEF ToSet
  <1>4. RolesSplit(NoRoles(p), p)
    BY <1>2, <1>3 DEF RolesSplit
  <1>5. Roles(p, a) = [identified |-> identified, missing |-> Missing(p, identified, named), named |-> named]
    BY DEF Roles
  <1>6. ToSet(spoken) \subseteq ToSet(p.categories)
    BY <1>1, RecognisedIs
  <1>7. p.categories # << >> => DefaultCategory(p) \in ToSet(p.categories)
    <2> SUFFICES ASSUME p.categories # << >>
                 PROVE  Head(p.categories) \in ToSet(p.categories)
      BY DEF DefaultCategory
    <2>1. 1 \in DOMAIN p.categories /\ Head(p.categories) = p.categories[1]
      BY <1>1, ListIs
    <2>2. QED
      BY <2>1 DEF ToSet
  <1>8. p.categories = << >> => ToSet(p.categories) = {} /\ DefaultCategory(p) = "Stakeholder"
    BY <1>3 DEF DefaultCategory
  <1>9. IsList(people) /\ ToSet(people) \subseteq ToSet(p.categories) \cup {DefaultCategory(p)}
    <2>1. \A i \in DOMAIN people : people[i] \in ToSet(p.categories) \cup {DefaultCategory(p)}
      BY DEF Choice
    <2>2. PICK n \in Nat : DOMAIN people = 1..n
      BY <1>1, ListIs
    <2>3. people = [i \in 1..n |-> people[i]]
      BY <2>2
    <2> HIDE DEF people
    <2>4. people \in Seq({people[i] : i \in DOMAIN people})
      BY <2>2, <2>3
    <2>5. QED
      BY <2>1, <2>4 DEF IsList, ToSet
  <1> HIDE DEF people, spoken, named
  <1>10. ToSet(Distinct(people)) = ToSet(people)
    BY <1>9, DistinctIs
  <1>11. ToSet(identified) \subseteq ToSet(p.categories) \cup {DefaultCategory(p)}
    BY <1>6, <1>9, <1>10
  <1>12. p.categories # << >> => ToSet(identified) \subseteq ToSet(p.categories)
    BY <1>7, <1>11
  <1>13. p.categories = << >> => ToSet(identified) \subseteq {"Stakeholder"}
    BY <1>8, <1>11
  <1> HIDE DEF identified
  <1>14. named = << >> => ToSet(Missing(p, identified, named)) = ToSet(p.categories) \ ToSet(identified)
    BY <1>1, MissingIs
  <1>15. RolesSplit(Roles(p, a), p)
    <2>1. PICK roles : roles = Roles(p, a)
      OBVIOUS
    <2>2. /\ roles.identified = identified /\ roles.named = named
          /\ roles.missing = Missing(p, identified, named)
      BY <1>5, <2>1
    <2>3. CASE p.categories # << >>
      BY <1>12, <1>14, <2>1, <2>2, <2>3 DEF RolesSplit
    <2>4. CASE p.categories = << >>
      BY <1>8, <1>13, <1>14, <2>1, <2>2, <2>4 DEF RolesSplit
    <2>5. QED
      BY <2>3, <2>4
  <1>16. QED
    BY <1>4, <1>15

-----------------------------------------------------------------------------
(* A conversation.                                                         *)

(* What the analysis of the buyer says, for one profile.                    *)
BuyerIs(b) == b.score \in 0..100 /\ \E p \in DealProfiles : RolesSplit(b.roles, p) /\ StageFits(b, p)

(* What the analysis of the fit says, for one profile.                      *)
FitIs(f) == f.score \in 0..100 /\ \E p \in DealProfiles : FitOf(f, p)

DealInv == /\ talk \subseteq Talks /\ (talk = {} => agenda = << >>)
           /\ "detect_intent_fields" \in DOMAIN heard =>
                "problem_statement" \notin DOMAIN heard["detect_intent_fields"]
           /\ "analyze_buyer_intelligence" \in DOMAIN heard => BuyerIs(heard["analyze_buyer_intelligence"])
           /\ "analyze_product_fit" \in DOMAIN heard => FitIs(heard["analyze_product_fit"])
           /\ talk = {} => DOMAIN heard = {} /\ deal = {}
           /\ DealSound

LEMMA InitDeal == DealInit => DealInv
  BY DEF DealInit, DealInv, DealSound

LEMMA HeardKeeps ==
  ASSUME DealInv, NEW tool, Due(tool), NEW output, Heard(tool, output),
         tool = "detect_intent_fields" => "problem_statement" \notin DOMAIN output,
         tool = "analyze_buyer_intelligence" => BuyerIs(output),
         tool = "analyze_product_fit" => FitIs(output)
  PROVE  DealInv'
  <1>1. /\ DOMAIN heard' = DOMAIN heard \cup {tool} /\ heard'[tool] = output
        /\ \A t \in DOMAIN heard \ {tool} : heard'[t] = heard[t]
    BY DEF Heard, Put, Over
  <1>2. deal' = {} /\ talk' = talk /\ talk # {}
    BY DEF Heard, Due, DealInv
  <1>3. \A f : FitIs(f) => FitIs(f)'
    BY <1>2 DEF FitIs, FitOf, Transcript
  <1>4. \A t \in DOMAIN heard' : t = tool \/ (t \in DOMAIN heard /\ heard'[t] = heard[t])
    BY <1>1
  <1>5. "analyze_product_fit" \in DOMAIN heard' => FitIs(heard["analyze_product_fit"])'
    <2> SUFFICES ASSUME "analyze_product_fit" \in DOMAIN heard'
                 PROVE  FitIs(heard["analyze_product_fit"])'
      OBVIOUS
    <2>1. PICK f : f = heard'["analyze_product_fit"]
      OBVIOUS
    <2>2. FitIs(f)
      BY <1>1, <1>4, <2>1 DEF DealInv
    <2>3. \E p \in DealProfiles : StageFits(f, p) /\ FitOf(f, p)'
      BY <1>3, <2>2 DEF FitIs, FitOf
    <2>4. f.score \in 0..100
      BY <2>2 DEF FitIs
    <2>5. QED
      BY <2>1, <2>3, <2>4 DEF FitIs
  <1>6. "analyze_buyer_intelligence" \in DOMAIN heard' => BuyerIs(heard["analyze_buyer_intelligence"])'
    <2> SUFFICES ASSUME "analyze_buyer_intelligence" \in DOMAIN heard'
                 PROVE  BuyerIs(heard["analyze_buyer_intelligence"])'
      OBVIOUS
    <2>1. PICK b : b = heard'["analyze_buyer_intelligence"]
      OBVIOUS
    <2>2. BuyerIs(b)
      BY <1>1, <1>4, <2>1 DEF DealInv
    <2>3. QED
      BY <2>1, <2>2 DEF BuyerIs
  <1>7. "detect_intent_fields" \in DOMAIN heard' =>
          "problem_statement" \notin DOMAIN heard'["detect_intent_fields"]
    BY <1>1, <1>4 DEF DealInv
  <1>8. DealSound'
    BY <1>2 DEF DealSound
  <1>9. QED
    BY <1>2, <1>5, <1>6, <1>7, <1>8 DEF DealInv

LEMMA DetectKeeps ==
  ASSUME DealInv, Detect
  PROVE  DealInv'
  <1>1. Transcript \in Talks /\ Due("detect_intent_fields")
    BY DEF Detect, Due, DealInv, Transcript
  <1>2. "problem_statement" \notin DOMAIN Transcript.overview
    BY <1>1, DealsAssumption
  <1>3. \A overview : DOMAIN Dated(overview) = DOMAIN overview
    BY DEF Dated
  <1>4. \A said : DOMAIN Overview(said) = DOMAIN Transcript.overview
    BY DEF Overview
  <1>5. PICK output : Heard("detect_intent_fields", output) /\ "problem_statement" \notin DOMAIN output
    BY <1>2, <1>3, <1>4 DEF Detect
  <1>6. QED
    BY <1>1, <1>5, HeardKeeps

LEMMA AnalyzeBuyerKeeps ==
  ASSUME DealInv, AnalyzeBuyer
  PROVE  DealInv'
  <1> DEFINE tool == "analyze_buyer_intelligence"
  <1>1. Transcript \in Talks /\ Due(tool)
    BY DEF AnalyzeBuyer, Due, DealInv, Transcript
  <1>2. PICK p, score, roles, gaps : /\ p \in DealProfiles /\ score \in 0..100 /\ RolesSplit(roles, p)
                                     /\ Heard(tool, Readiness(p, score, roles, gaps))
    <2>1. PICK p \in DealProfiles :
            \/ \E a \in Buyers : Heard(tool, Readiness(p, Percent(a.score), Roles(p, a), NotBlank(a.gaps)))
            \/ Heard(tool, Readiness(p, IF Transcript.points > 100 THEN 100 ELSE Transcript.points, NoRoles(p), << >>))
      BY DEF AnalyzeBuyer
    <2>2. CASE \E a \in Buyers : Heard(tool, Readiness(p, Percent(a.score), Roles(p, a), NotBlank(a.gaps)))
      <3>1. PICK a \in Buyers : Heard(tool, Readiness(p, Percent(a.score), Roles(p, a), NotBlank(a.gaps)))
        BY <2>2
      <3>2. Percent(a.score) \in 0..100 /\ RolesSplit(Roles(p, a), p)
        BY DealsAssumption, PercentIs, RolesAreSplit
      <3>3. QED
        BY <3>1, <3>2
    <2>3. CASE Heard(tool, Readiness(p, IF Transcript.points > 100 THEN 100 ELSE Transcript.points, NoRoles(p), << >>))
      <3>1. PICK score : score = IF Transcript.points > 100 THEN 100 ELSE Transcript.points
        OBVIOUS
      <3>2. Transcript.points \in Nat
        BY <1>1, DealsAssumption
      <3>3. score \in 0..100
        BY <3>1, <3>2
      <3>4. RolesSplit(NoRoles(p), p)
        <4>1. NoRoles(p).identified = << >> /\ NoRoles(p).missing = p.categories /\ ToSet(<< >>) = {}
          BY DEF NoRoles, ToSet
        <4>2. QED
          BY <4>1 DEF RolesSplit
      <3>5. QED
        BY <2>3, <3>1, <3>3, <3>4
    <2>4. QED
      BY <2>1, <2>2, <2>3
  <1>3. PICK b : b = Readiness(p, score, roles, gaps)
    OBVIOUS
  <1>4. b.score = score /\ b.stage = StageFor(p.stages, score) /\ b.roles = roles
    BY <1>3 DEF Readiness
  <1>5. StageFits(b, p)
    <2>1. IsList(p.stages) /\ (\A s \in ToSet(p.stages) : s.max \in Int) /\ b.score \in Int
      BY <1>2, <1>4, DealsAssumption
    <2>2. b.stage = StageFor(p.stages, b.score)
      BY <1>4
    <2>3. QED
      BY <2>1, <2>2, StageForFits
  <1>6. BuyerIs(b)
    BY <1>2, <1>4, <1>5 DEF BuyerIs
  <1>7. QED
    BY <1>1, <1>2, <1>3, <1>6, HeardKeeps

LEMMA MentionedIs ==
  ASSUME NEW p, IsList(p.offerings)
  PROVE  /\ Len(Mentioned(p)) \in Nat
         /\ ToSet(Mentioned(p)) = {o \in ToSet(p.offerings) : Transcript.mentions[o] > 0}
  <1> DEFINE I == {i \in DOMAIN p.offerings : Transcript.mentions[p.offerings[i]] > 0}
  <1>1. I \in SUBSET DOMAIN p.offerings /\ Mentioned(p) = Subsequence(p.offerings, I)
    BY DEF Mentioned
  <1>2. {p.offerings[i] : i \in I} = {o \in ToSet(p.offerings) : Transcript.mentions[o] > 0}
    BY DEF ToSet
  <1> HIDE DEF I
  <1>3. QED
    BY <1>1, <1>2, SelectedIs

LEMMA AnalyzeFitKeeps ==
  ASSUME DealInv, AnalyzeFit
  PROVE  DealInv'
  <1> DEFINE tool == "analyze_product_fit"
  <1>1. Due(tool)
    BY DEF AnalyzeFit
  <1>2. PICK p, mode, score, matches :
          /\ p \in DealProfiles /\ Heard(tool, Fit(p, mode, score, matches))
          /\ score \in 0..100
          /\ mode = "heuristic" => score = FitScore(matches) /\ matches = Mentioned(p)
    <2>1. PICK p \in DealProfiles :
            \/ \E a \in Fits : Heard(tool, Fit(p, "llm", Percent(a.score), NotBlank(a.matches)))
            \/ Heard(tool, Fit(p, "heuristic", FitScore(Mentioned(p)), Mentioned(p)))
      BY DEF AnalyzeFit
    <2>2. CASE \E a \in Fits : Heard(tool, Fit(p, "llm", Percent(a.score), NotBlank(a.matches)))
      <3>1. PICK a \in Fits : Heard(tool, Fit(p, "llm", Percent(a.score), NotBlank(a.matches)))
        BY <2>2
      <3>2. Percent(a.score) \in 0..100
        BY DealsAssumption, PercentIs
      <3>3. "llm" # "heuristic"
        OBVIOUS
      <3>4. QED
        BY <3>1, <3>2, <3>3
    <2>3. CASE Heard(tool, Fit(p, "heuristic", FitScore(Mentioned(p)), Mentioned(p)))
      <3>1. PICK n \in Nat : n = Len(Mentioned(p))
        BY DealsAssumption, MentionedIs
      <3>2. FitScore(Mentioned(p)) = IF 20 * n > 100 THEN 100 ELSE 20 * n
        BY <3>1 DEF FitScore
      <3>3. FitScore(Mentioned(p)) \in 0..100
        BY <3>2
      <3>4. QED
        BY <2>3, <3>3
    <2>4. QED
      BY <2>1, <2>2, <2>3
  <1>3. PICK f : f = Fit(p, mode, score, matches)
    OBVIOUS
  <1>4. f.score = score /\ f.stage = StageFor(p.stages, score) /\ f.mode = mode /\ f.matches = matches
    BY <1>3 DEF Fit
  <1>5. StageFits(f, p)
    <2>1. IsList(p.stages) /\ (\A s \in ToSet(p.stages) : s.max \in Int) /\ f.score \in Int
      BY <1>2, <1>4, DealsAssumption
    <2>2. f.stage = StageFor(p.stages, f.score)
      BY <1>4
    <2>3. QED
      BY <2>1, <2>2, StageForFits
  <1>6. FitOf(f, p)
    BY <1>2, <1>4, <1>5, MentionedIs, DealsAssumption DEF FitOf
  <1>7. FitIs(f)
    BY <1>2, <1>4, <1>6 DEF FitIs
  <1>8. QED
    BY <1>1, <1>2, <1>3, <1>7, HeardKeeps

LEMMA RespondKeeps ==
  ASSUME DealInv, Respond
  PROVE  DealInv'
  <1> DEFINE detect == "detect_intent_fields"
             frame == "frame_business_problem"
             analyze == "analyze_buyer_intelligence"
             framing == Given(frame, << >>)
             overview == Framed(Basics, framing)
             buyer == Given(analyze, << >>)
  <1>1. PICK fit, rating :
          /\ deal' = {[overview |-> overview, buyer |-> buyer, rating |-> rating, fit |-> fit]}
          /\ fit = Given("analyze_product_fit", << >>)
          /\ rating = IF buyer = << >> THEN 0 ELSE Rounded(buyer.score, 10)
    BY DEF Respond
  <1>2. UNCHANGED <<talk, agenda, heard>>
    BY DEF Respond
  <1>3. \A k \in DOMAIN framing : Stated(framing[k]) => k \in DOMAIN overview /\ overview[k] = framing[k]
    BY DEF Framed, Over, Stated
  <1>4. \A k \in DOMAIN Basics : /\ k \in DOMAIN overview
                                 /\ overview[k] = Basics[k] \/ Stated(overview[k])
    BY DEF Framed, Over, Stated
  <1>5. detect \in DOMAIN heard =>
          \A k \in DOMAIN heard[detect] : k \in DOMAIN Basics /\ Basics[k] = heard[detect][k]
    BY DEF DealInv, Basics, Over
  <1>6. frame \in DOMAIN heard => framing = heard[frame]
    BY DEF Given
  <1> HIDE DEF framing, overview
  <1>7. \A d \in deal' : FoundIsKept(d)
    BY <1>1, <1>3, <1>4, <1>5, <1>6 DEF FoundIsKept
  <1>8. buyer # << >> => analyze \in DOMAIN heard /\ BuyerIs(buyer)
    BY DEF Given, DealInv
  <1> HIDE DEF buyer
  <1>9. \A d \in deal' : ReadinessAgrees(d)
    <2> SUFFICES ASSUME NEW d \in deal', d.buyer # << >>
                 PROVE  /\ d.rating \in 0..10 /\ 10 * d.rating - d.buyer.score \in -5..5
                        /\ \E p \in DealProfiles : RolesSplit(d.buyer.roles, p) /\ StageFits(d.buyer, p)
      BY DEF ReadinessAgrees
    <2>1. d.buyer = buyer /\ d.rating = Rounded(buyer.score, 10)
      BY <1>1
    <2>2. BuyerIs(buyer)
      BY <1>8, <2>1
    <2>3. QED
      BY <2>1, <2>2, RatingIs DEF BuyerIs
  <1>10. \A d \in deal' : FitAgrees(d)
    BY <1>1 DEF FitAgrees, FitIs, Given, DealInv
  <1>11. talk' = talk /\ heard' = heard /\ talk # {}
    BY <1>2 DEF Respond
  <1>12. \A d : FitAgrees(d) => FitAgrees(d)'
    BY <1>11 DEF FitAgrees, FitOf, Transcript
  <1>13. \A d : FoundIsKept(d) => FoundIsKept(d)'
    BY <1>11 DEF FoundIsKept
  <1>14. \A d : ReadinessAgrees(d) => ReadinessAgrees(d)'
    BY DEF ReadinessAgrees
  <1>15. DealSound'
    BY <1>7, <1>9, <1>10, <1>12, <1>13, <1>14 DEF DealSound
  <1>16. \A f : FitIs(f) => FitIs(f)'
    BY <1>11 DEF FitIs, FitOf, Transcript
  <1>17. QED
    BY <1>2, <1>11, <1>15, <1>16 DEF DealInv, BuyerIs

LEMMA DealStepKeeps == DealInv /\ [DealNext]_dealVars => DealInv'
  <1> SUFFICES ASSUME DealInv, [DealNext]_dealVars
               PROVE  DealInv'
    OBVIOUS
  <1>1. CASE UNCHANGED <<talk, heard, deal>> /\ (talk' = {} => agenda' = << >>)
    <2>1. \A d : /\ FoundIsKept(d) => FoundIsKept(d)'
                 /\ ReadinessAgrees(d) => ReadinessAgrees(d)'
                 /\ FitAgrees(d) => FitAgrees(d)'
      BY <1>1 DEF FoundIsKept, ReadinessAgrees, FitAgrees, FitOf, Transcript
    <2>2. DealSound'
      BY <1>1, <2>1 DEF DealInv, DealSound
    <2>3. \A f : FitIs(f) => FitIs(f)'
      BY <1>1 DEF FitIs, FitOf, Transcript
    <2>4. QED
      BY <1>1, <2>2, <2>3 DEF DealInv, BuyerIs
  <1>2. CASE UNCHANGED dealVars
    BY <1>1, <1>2 DEF dealVars, DealInv
  <1>3. CASE Listen
    <2>1. talk' # {} /\ talk' \subseteq Talks /\ DOMAIN heard' = {} /\ deal' = {}
      BY <1>3 DEF Listen, DealInv
    <2>2. DealSound'
      BY <2>1 DEF DealSound
    <2>3. QED
      BY <2>1, <2>2 DEF DealInv
  <1>4. CASE AgentFails
    BY <1>1, <1>4 DEF AgentFails, Due, DealInv
  <1>5. CASE Detect
    BY <1>5, DetectKeeps
  <1>6. CASE Frame
    <2>1. PICK output : Due("frame_business_problem") /\ Heard("frame_business_problem", output)
      BY <1>6 DEF Frame
    <2>2. QED
      BY <2>1, HeardKeeps
  <1>7. CASE AnalyzeBuyer
    BY <1>7, AnalyzeBuyerKeeps
  <1>8. CASE AnalyzeFit
    BY <1>8, AnalyzeFitKeeps
  <1>9. CASE Respond
    BY <1>9, RespondKeeps
  <1>10. QED
    BY <1>2, <1>3, <1>4, <1>5, <1>6, <1>7, <1>8, <1>9 DEF DealNext

-----------------------------------------------------------------------------
(* Market research.                                                        *)

HitIs(h) == /\ DOMAIN h = {"solutions", "sources", "facts"}
            /\ IsList(h.solutions) /\ IsFiniteSet(h.sources)

HitsKnown(hs) == /\ hs = [c \in DOMAIN hs |-> hs[c]]
                 /\ IsFiniteSet(DOMAIN hs) /\ DOMAIN hs \subseteq Int
                 /\ \A c \in DOMAIN hs : HitIs(hs[c])

ResearchInv == /\ HitsKnown(hits)
               /\ IsList(queries) /\ \A tags \in ToSet(queries) : IsList(tags)

Above(c) == {d \in DOMAIN hits : Before(d, c)}

(* The companies are put in a total order.                                  *)
LEMMA BeforeOrders ==
  ASSUME HitsKnown(hits)
  PROVE  /\ \A a \in DOMAIN hits : ~Before(a, a)
         /\ \A a, b \in DOMAIN hits : a # b => Before(a, b) \/ Before(b, a)
         /\ \A a, b, c \in DOMAIN hits : Before(a, b) /\ Before(b, c) => Before(a, c)
  <1>1. \A c \in DOMAIN hits : /\ Len(hits[c].solutions) \in Nat
                               /\ Cardinality(hits[c].sources) \in Nat
                               /\ c \in Int
    BY ListIs, FS_CardinalityType DEF HitsKnown, HitIs
  <1>2. QED
    BY <1>1 DEF Before

LEMMA AboveIs ==
  ASSUME HitsKnown(hits), NEW c \in DOMAIN hits
  PROVE  /\ IsFiniteSet(Above(c)) /\ Cardinality(Above(c)) \in Nat
         /\ Cardinality(Above(c)) < Cardinality(DOMAIN hits)
  <1>1. Above(c) \in SUBSET DOMAIN hits /\ c \notin Above(c) /\ IsFiniteSet(DOMAIN hits)
    BY BeforeOrders DEF Above, HitsKnown
  <1>2. /\ IsFiniteSet(Above(c)) /\ Cardinality(Above(c)) <= Cardinality(DOMAIN hits)
        /\ Cardinality(Above(c)) # Cardinality(DOMAIN hits)
    BY <1>1, FS_Subset
  <1>3. Cardinality(Above(c)) \in Nat /\ Cardinality(DOMAIN hits) \in Nat
    BY <1>1, <1>2, FS_CardinalityType
  <1>4. QED
    BY <1>2, <1>3

(* A company has more before it than those that are before it.              *)
LEMMA AboveGrows ==
  ASSUME HitsKnown(hits), NEW a \in DOMAIN hits, NEW b \in DOMAIN hits, Before(a, b)
  PROVE  Cardinality(Above(a)) < Cardinality(Above(b))
  <1>1. Above(a) \in SUBSET Above(b) /\ a \in Above(b) /\ a \notin Above(a)
    BY BeforeOrders DEF Above
  <1>2. /\ IsFiniteSet(Above(b)) /\ Cardinality(Above(a)) \in Nat /\ Cardinality(Above(b)) \in Nat
    BY AboveIs
  <1>3. Cardinality(Above(a)) <= Cardinality(Above(b)) /\ Cardinality(Above(a)) # Cardinality(Above(b))
    BY <1>1, <1>2, FS_Subset
  <1>4. QED
    BY <1>2, <1>3

(* The ranking has each company once, after those that are before it.       *)
LEMMA RankingIs ==
  ASSUME HitsKnown(hits)
  PROVE  /\ IsList(Ranking) /\ Len(Ranking) = Cardinality(DOMAIN hits) /\ Len(Ranking) \in Nat
         /\ DOMAIN Ranking = 1..Len(Ranking)
         /\ \A n \in DOMAIN Ranking : Ranking[n] \in DOMAIN hits /\ Cardinality(Above(Ranking[n])) = n - 1
         /\ \A c \in DOMAIN hits : \E n \in DOMAIN Ranking : Ranking[n] = c
         /\ \A m, n \in DOMAIN Ranking : m < n => Before(Ranking[m], Ranking[n])
  <1> DEFINE D == DOMAIN hits
             N == Cardinality(D)
             place == [c \in D |-> Cardinality(Above(c)) + 1]
  <1>1. N \in Nat /\ IsFiniteSet(D)
    BY FS_CardinalityType DEF HitsKnown
  <1>2. \A c \in D : Cardinality(Above(c)) \in Nat /\ Cardinality(Above(c)) < N
    BY AboveIs
  <1>3. \A a, b \in D : Cardinality(Above(a)) = Cardinality(Above(b)) => a = b
    <2>1. \A a, b \in D : Before(a, b) => Cardinality(Above(a)) < Cardinality(Above(b))
      BY AboveGrows
    <2>2. QED
      BY <1>2, <2>1, BeforeOrders
  <1>4. place \in Injection(D, 1..N)
    <2>1. place \in [D -> 1..N]
      BY <1>1, <1>2
    <2>2. \A a, b \in D : place[a] = place[b] => a = b
      BY <1>2, <1>3
    <2>3. QED
      BY <2>1, <2>2 DEF Injection, IsInjective
  <1>5. IsFiniteSet(1..N) /\ Cardinality(1..N) = N
    BY <1>1, FS_Interval
  <1> HIDE DEF place
  <1>6. place \in Surjection(D, 1..N)
    BY <1>4, <1>5, FS_Injection
  <1> USE DEF place
  <1>7. \A n \in 1..N : \E c \in D : Cardinality(Above(c)) = n - 1
    <2> TAKE n \in 1..N
    <2>1. PICK c \in D : place[c] = n
      BY <1>6 DEF Surjection
    <2>2. place[c] = Cardinality(Above(c)) + 1
      OBVIOUS
    <2>3. QED
      BY <1>2, <2>1, <2>2
  <1>8. Ranking = [n \in 1..N |-> CHOOSE c \in D : Cardinality(Above(c)) = n - 1]
    BY DEF Ranking, Above
  <1> HIDE DEF place, D
  <1>9. Ranking \in Seq(D) /\ Len(Ranking) = N /\ DOMAIN Ranking = 1..N
    BY <1>1, <1>7, <1>8
  <1>10. \A n \in 1..N : Ranking[n] \in D /\ Cardinality(Above(Ranking[n])) = n - 1
    BY <1>7, <1>8
  <1>11. \A c \in D : \E n \in 1..N : Ranking[n] = c
    <2> TAKE c \in D
    <2>1. Cardinality(Above(c)) + 1 \in 1..N
      BY <1>1, <1>2
    <2>2. PICK n \in 1..N : n = Cardinality(Above(c)) + 1
      BY <2>1
    <2>3. Cardinality(Above(Ranking[n])) = Cardinality(Above(c))
      BY <1>2, <1>10, <2>2
    <2>4. QED
      BY <1>3, <1>10, <2>3
  <1>12. ASSUME NEW m \in 1..N, NEW n \in 1..N, m < n
         PROVE  Before(Ranking[m], Ranking[n])
    <2>1. PICK a \in D, b \in D : a = Ranking[m] /\ b = Ranking[n]
      BY <1>10
    <2>2. Cardinality(Above(a)) < Cardinality(Above(b))
      BY <1>10, <1>12, <2>1
    <2>3. a # b /\ ~Before(b, a)
      <3>1. Before(b, a) => Cardinality(Above(b)) < Cardinality(Above(a))
        BY AboveGrows DEF D
      <3>2. QED
        BY <1>2, <2>2, <3>1
    <2>4. QED
      BY <2>1, <2>3, BeforeOrders DEF D
  <1>13. IsList(Ranking)
    BY <1>9, IsListOf
  <1>14. QED
    BY <1>1, <1>9, <1>10, <1>11, <1>12, <1>13 DEF D

LEMMA FirstIs ==
  ASSUME NEW s, IsList(s), NEW n \in Nat
  PROVE  /\ IsList(First(s, n)) /\ DOMAIN First(s, n) = 1..Len(First(s, n))
         /\ Len(First(s, n)) = IF Len(s) < n THEN Len(s) ELSE n
         /\ Len(First(s, n)) \in Nat
         /\ \A i \in DOMAIN First(s, n) : i \in DOMAIN s /\ First(s, n)[i] = s[i]
  <1>1. s \in Seq(ToSet(s)) /\ Len(s) \in Nat /\ DOMAIN s = 1..Len(s)
    BY ListIs
  <1>2. PICK k \in 0..Len(s) : k = IF Len(s) < n THEN Len(s) ELSE n
    <2>1. \A l \in Nat : \E k \in 0..l : k = IF l < n THEN l ELSE n
      <3> TAKE l \in Nat
      <3>1. CASE l < n
        BY <3>1
      <3>2. CASE ~(l < n)
        BY <3>2
      <3>3. QED
        BY <3>1, <3>2
    <2>2. QED
      BY <1>1, <2>1
  <1>3. First(s, n) = SubSeq(s, 1, k)
    BY <1>2 DEF First
  <1>4. /\ SubSeq(s, 1, k) \in Seq(ToSet(s)) /\ Len(SubSeq(s, 1, k)) = k
        /\ \A i \in 1..k : SubSeq(s, 1, k)[i] = s[i]
    BY <1>1
  <1>5. IsList(First(s, n)) /\ DOMAIN First(s, n) = 1..k
    <2>1. IsList(SubSeq(s, 1, k))
      BY <1>4, IsListOf
    <2>2. DOMAIN SubSeq(s, 1, k) = 1..k
      BY <1>4
    <2>3. QED
      BY <1>3, <2>1, <2>2
  <1>6. QED
    BY <1>1, <1>2, <1>3, <1>4, <1>5

(* The answer: the first of the candidates that are not rejected.           *)
Kept(rej) == {i \in DOMAIN Candidates : Candidates[i] \notin rej}

LEMMA CandidatesAre ==
  ASSUME HitsKnown(hits)
  PROVE  /\ IsList(Candidates) /\ DOMAIN Candidates = 1..Len(Candidates)
         /\ Len(Candidates) = IF Len(Ranking) < 2 * MaxCompanies THEN Len(Ranking) ELSE 2 * MaxCompanies
         /\ Len(Candidates) \in Nat
         /\ \A i \in DOMAIN Candidates : i \in DOMAIN Ranking /\ Candidates[i] = Ranking[i]
  <1>1. 2 * MaxCompanies \in Nat
    BY SearchesAssumption
  <1>2. IsList(Ranking)
    BY RankingIs
  <1>3. QED
    BY <1>1, <1>2, FirstIs DEF Candidates

LEMMA AnswerOrdered ==
  ASSUME HitsKnown(hits), NEW rej, NEW kept, kept = Subsequence(Candidates, Kept(rej))
  PROVE  /\ IsList(kept) /\ DOMAIN kept = 1..Len(kept) /\ Len(kept) \in Nat
         /\ ToSet(kept) \subseteq DOMAIN hits
         /\ \A m, n \in DOMAIN kept : m < n => Before(kept[m], kept[n])
         /\ \A i \in Kept(rej) : \E n \in DOMAIN kept : kept[n] = Ranking[i]
  <1> DEFINE I == Kept(rej)
  <1>1. IsList(Candidates) /\ I \in SUBSET DOMAIN Candidates /\ I \in SUBSET Int
    BY CandidatesAre DEF Kept
  <1>2. \A i \in I : i \in DOMAIN Ranking /\ Candidates[i] = Ranking[i]
    BY <1>1, CandidatesAre
  <1> HIDE DEF I
  <1>3. /\ IsList(kept) /\ IsFiniteSet(I)
        /\ DOMAIN kept = 1..Cardinality(I)
        /\ \A n \in DOMAIN kept : Place(I, n) \in I /\ kept[n] = Candidates[Place(I, n)]
        /\ \A i \in I : \E n \in DOMAIN kept : Place(I, n) = i
    BY <1>1, SelectedIs DEF I
  <1>4. \A m, n \in DOMAIN kept : m < n => Place(I, m) < Place(I, n)
    BY <1>1, <1>3, PlacesInOrder
  <1>5. \A n \in DOMAIN kept : kept[n] = Ranking[Place(I, n)] /\ Place(I, n) \in DOMAIN Ranking
    BY <1>2, <1>3
  <1>6. \A m, n \in DOMAIN kept : m < n => Before(kept[m], kept[n])
    BY <1>4, <1>5, RankingIs
  <1>7. ToSet(kept) \subseteq DOMAIN hits
    BY <1>5, RankingIs DEF ToSet
  <1>8. \A i \in I : \E n \in DOMAIN kept : kept[n] = Ranking[i]
    BY <1>3, <1>5
  <1>9. QED
    BY <1>3, <1>6, <1>7, <1>8, ListIs DEF I

(* Companies that an ordered answer lists are as many as it has places.      *)
LEMMA AsManyAsPlaces ==
  ASSUME NEW s, IsList(s), \A m, n \in DOMAIN s : s[m] = s[n] => m = n
  PROVE  Cardinality(ToSet(s)) = Len(s)
  <1>1. s \in Seq(ToSet(s)) /\ Len(s) \in Nat /\ DOMAIN s = 1..Len(s)
        /\ IsFiniteSet(DOMAIN s) /\ Cardinality(DOMAIN s) = Len(s)
    BY ListIs
  <1>2. s \in [DOMAIN s -> ToSet(s)]
    BY <1>1
  <1>3. s \in Surjection(DOMAIN s, ToSet(s)) /\ s \in Injection(DOMAIN s, ToSet(s))
    BY <1>2 DEF Surjection, Injection, IsInjective, ToSet
  <1>4. QED
    BY <1>1, <1>3, FS_Surjection

LEMMA ScreeningLosesNone ==
  ASSUME HitsKnown(hits), NEW rej, NEW c \in DOMAIN hits, c \notin rej,
         NEW answered, answered = Answered(Subsequence(Candidates, Kept(rej))), c \notin ToSet(answered)
  PROVE  \/ Cardinality({r \in ToSet(answered) : Before(r, c)}) = MaxCompanies
         \/ Cardinality(Above(c)) >= 2 * MaxCompanies
  <1>1. MaxCompanies \in Nat
    BY SearchesAssumption
  <1>2. PICK k \in DOMAIN Ranking : Ranking[k] = c /\ Cardinality(Above(c)) = k - 1
    BY RankingIs
  <1>3. PICK l \in Nat : l = Len(Ranking) /\ DOMAIN Ranking = 1..l
    BY RankingIs
  <1>4. PICK cut \in Nat : /\ cut = Len(Candidates) /\ cut = IF l < 2 * MaxCompanies THEN l ELSE 2 * MaxCompanies
                           /\ DOMAIN Candidates = 1..cut
                           /\ \A i \in DOMAIN Candidates : Candidates[i] = Ranking[i]
    BY <1>3, CandidatesAre, Zenon
  <1>5. CASE k > cut
    <2>1. k - 1 >= 2 * MaxCompanies
      <3>1. k \in 1..l
        BY <1>3
      <3>2. CASE l < 2 * MaxCompanies
        BY <1>4, <1>5, <3>1, <3>2
      <3>3. CASE ~(l < 2 * MaxCompanies)
        BY <1>1, <1>4, <1>5, <3>1, <3>3
      <3>4. QED
        BY <3>2, <3>3
    <2>2. QED
      BY <1>2, <2>1
  <1>6. CASE k <= cut
    <2>1. k \in DOMAIN Candidates /\ Candidates[k] = c
      <3>1. k \in 1..cut
        BY <1>3, <1>6
      <3>2. QED
        BY <1>2, <1>4, <3>1
    <2>2. k \in Kept(rej)
      BY <2>1 DEF Kept
    <2>3. PICK kept : kept = Subsequence(Candidates, Kept(rej))
      OBVIOUS
    <2>4. /\ IsList(kept) /\ DOMAIN kept = 1..Len(kept) /\ Len(kept) \in Nat
          /\ \A m, n \in DOMAIN kept : m < n => Before(kept[m], kept[n])
          /\ ToSet(kept) \subseteq DOMAIN hits
      BY <2>3, AnswerOrdered
    <2>5. PICK n \in DOMAIN kept : kept[n] = c
      BY <1>2, <2>2, <2>3, AnswerOrdered
    <2>6. answered = First(kept, MaxCompanies)
      BY <2>3 DEF Answered
    <2>7. /\ IsList(answered) /\ DOMAIN answered = 1..Len(answered)
          /\ Len(answered) = IF Len(kept) < MaxCompanies THEN Len(kept) ELSE MaxCompanies
          /\ \A i \in DOMAIN answered : i \in DOMAIN kept /\ answered[i] = kept[i]
      BY <1>1, <2>4, <2>6, FirstIs
    <2>8. n \notin DOMAIN answered
      BY <2>5, <2>7 DEF ToSet
    <2>9. Len(answered) = MaxCompanies /\ n > MaxCompanies
      <3>1. PICK e \in Nat : e = Len(kept) /\ DOMAIN kept = 1..e
        BY <2>4, Zenon
      <3>2. DOMAIN answered = 1..(IF e < MaxCompanies THEN e ELSE MaxCompanies)
        BY <2>7, <3>1
      <3>3. n \in 1..e
        BY <3>1
      <3>4. ~(e < MaxCompanies)
        BY <2>8, <3>2, <3>3
      <3>5. QED
        BY <1>1, <2>7, <2>8, <3>1, <3>2, <3>3, <3>4
    <2>10. \A r \in ToSet(answered) : Before(r, c)
      <3>1. \A i \in DOMAIN answered : i \in DOMAIN kept /\ i < n
        BY <1>1, <2>4, <2>7, <2>9
      <3>2. QED
        BY <2>4, <2>5, <2>7, <3>1 DEF ToSet
    <2>11. \A i, j \in DOMAIN answered : answered[i] = answered[j] => i = j
      <3>1. \A i \in DOMAIN kept : kept[i] \in DOMAIN hits
        BY <2>4 DEF ToSet
      <3>2. \A i, j \in DOMAIN kept : kept[i] = kept[j] => i = j
        BY <2>4, <3>1, BeforeOrders
      <3>3. QED
        BY <2>7, <3>2
    <2>12. Cardinality(ToSet(answered)) = MaxCompanies
      BY <2>7, <2>9, <2>11, AsManyAsPlaces
    <2>13. {r \in ToSet(answered) : Before(r, c)} = ToSet(answered)
      BY <2>10
    <2>14. QED
      BY <2>12, <2>13
  <1>7. QED
    BY <1>3, <1>4, <1>5, <1>6

(* A hit that grows into another.                                          *)
Grows(h, g) == /\ \A f \in Facts : h.facts[f] # Nothing => g.facts[f] = h.facts[f]
               /\ IsPrefix(h.solutions, g.solutions)
               /\ h.sources \subseteq g.sources

AllGrow(hs, gs) == \A c \in DOMAIN hs : c \in DOMAIN gs /\ Grows(hs[c], gs[c])

LEMMA PrefixOfMore ==
  ASSUME NEW S, NEW s \in Seq(S), NEW t \in Seq(S)
  PROVE  IsPrefix(s, s \o t) /\ IsPrefix(s, s)
  <1>1. /\ Len(s) \in Nat /\ Len(t) \in Nat /\ s \o t \in Seq(S) /\ Len(s \o t) = Len(s) + Len(t)
        /\ \A i \in 1..Len(s) : (s \o t)[i] = s[i]
    OBVIOUS
  <1>2. /\ SubSeq(s, 1, Len(s)) = [i \in 1..Len(s) |-> s[i]]
        /\ SubSeq(s \o t, 1, Len(s)) = [i \in 1..Len(s) |-> (s \o t)[i]]
    BY <1>1
  <1>3. SubSeq(s, 1, Len(s)) = SubSeq(s \o t, 1, Len(s))
    BY <1>1, <1>2
  <1>4. QED
    BY <1>1, <1>3 DEF IsPrefix

LEMMA ListsJoin ==
  ASSUME NEW s, IsList(s), NEW t, IsList(t)
  PROVE  IsList(s \o t) /\ IsPrefix(s, s \o t) /\ IsPrefix(s, s)
  <1>1. PICK S : S = ToSet(s) \cup ToSet(t)
    OBVIOUS
  <1>2. s \in Seq(ToSet(s)) /\ t \in Seq(ToSet(t))
    BY ListIs
  <1>3. s \in Seq(S) /\ t \in Seq(S)
    BY <1>1, <1>2
  <1>4. s \o t \in Seq(S)
    BY <1>3
  <1>5. QED
    BY <1>3, <1>4, PrefixOfMore, IsListOf

LEMMA AddedIs ==
  ASSUME NEW s, IsList(s), NEW xs, IsList(xs)
  PROVE  IsList(AddNew(s, xs)) /\ IsPrefix(s, AddNew(s, xs))
  <1>1. PICK I \in SUBSET DOMAIN xs : AddNew(s, xs) = s \o Subsequence(xs, I)
    BY DEF AddNew
  <1>2. IsList(Subsequence(xs, I))
    BY SelectedIs
  <1>3. QED
    BY <1>1, <1>2, ListsJoin

LEMMA MergedGrows ==
  ASSUME NEW h, HitIs(h), NEW tags, IsList(tags), NEW pages, NEW at, IsFiniteSet(at)
  PROVE  HitIs(Merged(h, tags, pages, at)) /\ Grows(h, Merged(h, tags, pages, at))
  <1>1. PICK addresses : addresses = {pages[i].href : i \in at}
    OBVIOUS
  <1>2. IsFiniteSet(addresses)
    <2>1. PICK hrefs : hrefs = [i \in at |-> pages[i].href]
      OBVIOUS
    <2>2. addresses = {hrefs[i] : i \in at}
      BY <1>1, <2>1
    <2>3. QED
      BY <2>2, ValuesFinite
  <1>3. PICK solutions : solutions = AddNew(h.solutions, tags)
    OBVIOUS
  <1>4. IsList(solutions) /\ IsPrefix(h.solutions, solutions)
    BY <1>3, AddedIs DEF HitIs
  <1>5. PICK sources : sources = h.sources \cup addresses
    OBVIOUS
  <1>6. IsFiniteSet(sources)
    BY <1>2, <1>5, FS_Union DEF HitIs
  <1>7. PICK facts : facts = FillFrom(h.facts, pages, at)
    OBVIOUS
  <1>8. \A f \in Facts : h.facts[f] # Nothing => facts[f] = h.facts[f]
    BY <1>7 DEF FillFrom, Fill
  <1>9. Merged(h, tags, pages, at) = [solutions |-> solutions, sources |-> sources, facts |-> facts]
    BY <1>1, <1>3, <1>5, <1>7 DEF Merged
  <1>10. QED
    BY <1>4, <1>5, <1>6, <1>8, <1>9 DEF HitIs, Grows

LEMMA LearnGrows ==
  ASSUME NEW h, HitIs(h), NEW found
  PROVE  /\ HitIs([h EXCEPT !.facts = Fill(@, found)])
         /\ Grows(h, [h EXCEPT !.facts = Fill(@, found)])
  <1>1. PICK facts : facts = Fill(h.facts, found)
    OBVIOUS
  <1>2. \A f \in Facts : h.facts[f] # Nothing => facts[f] = h.facts[f]
    BY <1>1 DEF Fill
  <1>3. PICK g : g = [h EXCEPT !.facts = facts]
    OBVIOUS
  <1>4. g.facts = facts /\ g.solutions = h.solutions /\ g.sources = h.sources /\ DOMAIN g = DOMAIN h
    BY <1>3 DEF HitIs
  <1>5. IsPrefix(h.solutions, h.solutions)
    BY ListsJoin DEF HitIs
  <1>6. HitIs(g) /\ Grows(h, g)
    BY <1>2, <1>4, <1>5 DEF HitIs, Grows
  <1>7. QED
    BY <1>1, <1>3, <1>6

LEMMA EnrichedGrows ==
  ASSUME NEW h, HitIs(h), NEW pages, IsList(pages), NEW g,
         g = [h EXCEPT !.facts   = FillFrom(@, pages, DOMAIN pages),
                       !.sources = @ \cup {p.href : p \in ToSet(pages)}]
  PROVE  HitIs(g) /\ Grows(h, g)
  <1>1. PICK facts : facts = FillFrom(h.facts, pages, DOMAIN pages)
    OBVIOUS
  <1>2. \A f \in Facts : h.facts[f] # Nothing => facts[f] = h.facts[f]
    BY <1>1, Zenon DEF FillFrom, Fill
  <1>3. PICK addresses : addresses = {p.href : p \in ToSet(pages)}
    OBVIOUS
  <1>4. IsFiniteSet(addresses)
    <2>1. PICK hrefs : hrefs = [i \in DOMAIN pages |-> pages[i].href]
      OBVIOUS
    <2>2. addresses = {hrefs[i] : i \in DOMAIN pages}
      BY <1>3, <2>1 DEF ToSet
    <2>3. QED
      BY <2>2, ListIs, ValuesFinite
  <1>5. PICK sources : sources = h.sources \cup addresses
    OBVIOUS
  <1>6. IsFiniteSet(sources)
    BY <1>4, <1>5, FS_Union DEF HitIs
  <1>7. g.facts = facts /\ g.solutions = h.solutions /\ g.sources = sources /\ DOMAIN g = DOMAIN h
    BY <1>1, <1>3, <1>5 DEF HitIs
  <1>8. IsPrefix(h.solutions, h.solutions)
    BY ListsJoin DEF HitIs
  <1>9. QED
    BY <1>2, <1>5, <1>6, <1>7, <1>8 DEF HitIs, Grows

LEMMA OneGrows ==
  ASSUME NEW hs, HitsKnown(hs), NEW c, NEW h, c \in DOMAIN hs => HitIs(h) /\ Grows(hs[c], h),
         NEW gs, gs = [hs EXCEPT ![c] = h]
  PROVE  HitsKnown(gs) /\ AllGrow(hs, gs)
  <1>1. /\ DOMAIN gs = DOMAIN hs /\ gs = [d \in DOMAIN hs |-> gs[d]]
        /\ \A d \in DOMAIN hs : gs[d] = IF d = c THEN h ELSE hs[d]
    BY DEF HitsKnown
  <1>2. \A d \in DOMAIN hs : Grows(hs[d], hs[d])
    BY ListsJoin DEF HitsKnown, HitIs, Grows
  <1>3. \A d \in DOMAIN hs : HitIs(gs[d]) /\ Grows(hs[d], gs[d])
    BY <1>1, <1>2 DEF HitsKnown
  <1>4. QED
    BY <1>1, <1>3 DEF HitsKnown, AllGrow

LEMMA ShortLists ==
  /\ IsList(<< >>) /\ ToSet(<< >>) = {}
  /\ \A x : IsList(<<x>>)
  <1>1. << >> \in Seq({}) /\ DOMAIN << >> = {}
    OBVIOUS
  <1>2. IsList(<< >>)
    BY <1>1, IsListOf
  <1>3. ASSUME NEW x PROVE IsList(<<x>>)
    <2>1. <<x>> \in Seq({x})
      OBVIOUS
    <2>2. QED
      BY <2>1, IsListOf
  <1>4. QED
    BY <1>1, <1>2, <1>3 DEF ToSet

LEMMA QueriesAreLists ==
  ASSUME NEW offerings, IsList(offerings), offerings # << >>, NEW summary
  PROVE  IsList(Queries(offerings, summary)) /\ \A tags \in ToSet(Queries(offerings, summary)) : IsList(tags)
  <1>1. PICK three, two : three = First(offerings, 3) /\ two = First(offerings, 2)
    OBVIOUS
  <1>2. /\ IsList(three) /\ IsList(two) /\ Len(three) \in Nat
        /\ \A i \in 1..Len(three) : i \in DOMAIN offerings
        /\ 1 \in DOMAIN offerings
    BY <1>1, FirstIs, ListIs
  <1>3. \A i \in DOMAIN offerings : IsList(<<offerings[i]>>)
    BY ShortLists
  <1>4. PICK S : S = {three, two} \cup {<<offerings[i]>> : i \in DOMAIN offerings}
    OBVIOUS
  <1>5. \A tags \in S : IsList(tags)
    BY <1>2, <1>3, <1>4
  <1>6. PICK each : each = [i \in 1..Len(three) |-> <<offerings[i]>>]
    OBVIOUS
  <1>7. each \in Seq(S)
    BY <1>2, <1>4, <1>6
  <1>8. <<three>> \in Seq(S) /\ <<two>> \in Seq(S) /\ << >> \in Seq(S)
        /\ << <<offerings[1]>>, <<offerings[1]>> >> \in Seq(S)
    BY <1>2, <1>4
  <1>9. Queries(offerings, summary) = (IF Len(offerings) >= 2 THEN <<three>> \o each
                                       ELSE << <<offerings[1]>>, <<offerings[1]>> >>)
                                      \o (IF summary THEN <<two>> ELSE << >>)
    BY <1>1, <1>6 DEF Queries
  <1>10. <<three>> \o each \in Seq(S)
    BY <1>7, <1>8
  <1>11. Queries(offerings, summary) \in Seq(S)
    BY <1>8, <1>9, <1>10
  <1>12. IsList(Queries(offerings, summary))
    BY <1>11, IsListOf
  <1>13. ToSet(Queries(offerings, summary)) \subseteq S
    BY <1>11 DEF ToSet
  <1>14. QED
    BY <1>5, <1>12, <1>13

LEMMA QueriesStay ==
  ASSUME IsList(queries), queries # << >>, \A tags \in ToSet(queries) : IsList(tags)
  PROVE  /\ IsList(Head(queries)) /\ IsList(Tail(queries))
         /\ \A tags \in ToSet(Tail(queries)) : IsList(tags)
  <1>1. queries \in Seq(ToSet(queries))
    BY ListIs
  <1>2. Head(queries) \in ToSet(queries) /\ Tail(queries) \in Seq(ToSet(queries))
    BY <1>1
  <1>3. IsList(Tail(queries)) /\ ToSet(Tail(queries)) \subseteq ToSet(queries)
    <2>1. IsList(Tail(queries))
      BY <1>2, IsListOf
    <2>2. ASSUME NEW S, NEW s \in Seq(S) PROVE ToSet(s) \subseteq S
      BY DEF ToSet
    <2>3. QED
      BY <1>2, <2>1, <2>2
  <1>4. QED
    BY <1>2, <1>3

LEMMA NewHitIs == HitIs(NewHit)
  BY ShortLists, FS_EmptySet DEF NewHit, HitIs

LEMMA PagesAre ==
  ASSUME NEW pages \in Pages \cup {<< >>}
  PROVE  IsList(pages) /\ IsFiniteSet(DOMAIN pages) /\ \A i \in DOMAIN pages : pages[i].company \in Int
  <1>1. CASE pages \in Pages
    BY <1>1, SearchesAssumption, ListIs DEF ToSet
  <1>2. CASE pages = << >>
    BY <1>2, ShortLists, ListIs
  <1>3. QED
    BY <1>1, <1>2

LEMMA SearchNextKeeps == ResearchInv /\ SearchNext => ResearchInv' /\ AllGrow(hits, hits')
  <1> SUFFICES ASSUME ResearchInv, SearchNext
               PROVE  ResearchInv' /\ AllGrow(hits, hits')
    OBVIOUS
  <1>1. PICK pages \in Pages \cup {<< >>} :
          LET sites == {i \in DOMAIN pages : pages[i].company # 0 /\ ~pages[i].content}
              Of(c) == {i \in sites : pages[i].company = c}
              Known(c) == IF c \in DOMAIN hits THEN hits[c] ELSE NewHit
          IN  hits' = Over([c \in {pages[i].company : i \in sites} |-> Merged(Known(c), Head(queries), pages, Of(c))],
                           hits)
    BY DEF SearchNext
  <1> DEFINE sites == {i \in DOMAIN pages : pages[i].company # 0 /\ ~pages[i].content}
             Of(c) == {i \in sites : pages[i].company = c}
             Known(c) == IF c \in DOMAIN hits THEN hits[c] ELSE NewHit
             New(c) == Merged(Known(c), Head(queries), pages, Of(c))
  <1>2. PICK found : found = {pages[i].company : i \in sites}
    OBVIOUS
  <1>3. hits' = Over([c \in found |-> New(c)], hits)
    BY <1>1, <1>2
  <1>4. /\ sites \in SUBSET DOMAIN pages /\ IsFiniteSet(DOMAIN pages)
        /\ \A c \in found : Of(c) \in SUBSET DOMAIN pages
    BY PagesAre
  <1>5. IsFiniteSet(sites) /\ \A c \in found : IsFiniteSet(Of(c))
    <2> HIDE DEF sites, Of
    <2>1. QED
      BY <1>4, FS_Subset
  <1>6. IsFiniteSet(found) /\ found \subseteq Int
    <2>1. PICK companies : companies = [i \in sites |-> pages[i].company]
      OBVIOUS
    <2>2. found = {companies[i] : i \in sites}
      BY <1>2, <2>1
    <2>3. IsFiniteSet(found)
      <3> HIDE DEF sites
      <3>1. QED
        BY <1>5, <2>2, ValuesFinite
    <2>4. QED
      BY <1>2, <2>3, PagesAre
  <1>7. IsList(Head(queries)) /\ HitsKnown(hits) /\ \A c \in found : HitIs(Known(c))
    BY QueriesStay, NewHitIs DEF ResearchInv, HitsKnown, SearchNext
  <1>8. \A c \in found : HitIs(New(c)) /\ Grows(Known(c), New(c))
    <2> TAKE c \in found
    <2>1. IsFiniteSet(Of(c)) /\ HitIs(Known(c)) /\ IsList(Head(queries))
      BY <1>5, <1>7
    <2> HIDE DEF Of, Known
    <2>2. QED
      BY <2>1, MergedGrows
  <1> HIDE DEF sites, Of, New
  <1>9. /\ DOMAIN hits' = found \cup DOMAIN hits
        /\ hits' = [c \in DOMAIN hits' |-> hits'[c]]
        /\ \A c \in found : hits'[c] = New(c)
        /\ \A c \in DOMAIN hits \ found : hits'[c] = hits[c]
    BY <1>3 DEF Over
  <1>10. IsFiniteSet(DOMAIN hits') /\ DOMAIN hits' \subseteq Int
    <2>1. IsFiniteSet(DOMAIN hits) /\ DOMAIN hits \subseteq Int
      BY <1>7 DEF HitsKnown
    <2>2. IsFiniteSet(found \cup DOMAIN hits)
      BY <1>6, <2>1, FS_Union
    <2>3. QED
      BY <1>6, <1>9, <2>1, <2>2
  <1>11. \A c \in DOMAIN hits' : HitIs(hits'[c])
    BY <1>7, <1>8, <1>9 DEF HitsKnown
  <1>12. HitsKnown(hits')
    BY <1>9, <1>10, <1>11 DEF HitsKnown
  <1>13. AllGrow(hits, hits')
    <2>1. \A c \in DOMAIN hits : Grows(hits[c], hits[c])
      BY <1>7, ListsJoin DEF HitsKnown, HitIs, Grows
    <2>2. \A c \in DOMAIN hits : c \in found => Grows(hits[c], New(c))
      BY <1>8
    <2>3. QED
      BY <1>9, <2>1, <2>2 DEF AllGrow
  <1>14. IsList(queries') /\ \A tags \in ToSet(queries') : IsList(tags)
    <2>1. queries' = << >> \/ queries' = Tail(queries)
      BY DEF SearchNext
    <2>2. QED
      BY <2>1, ShortLists, QueriesStay DEF ResearchInv, SearchNext
  <1>15. QED
    BY <1>12, <1>13, <1>14 DEF ResearchInv, HitsKnown, HitIs

(* A step that learns something of one company.                             *)
LEMMA OneChanged ==
  ASSUME ResearchInv, NEW c, NEW h, c \in DOMAIN hits => HitIs(h) /\ Grows(hits[c], h),
         hits' = [hits EXCEPT ![c] = h], queries' = queries
  PROVE  ResearchInv' /\ AllGrow(hits, hits')
  <1>1. PICK gs : gs = hits'
    OBVIOUS
  <1>2. HitsKnown(gs) /\ AllGrow(hits, gs)
    BY <1>1, OneGrows DEF ResearchInv
  <1>3. QED
    BY <1>1, <1>2 DEF ResearchInv, HitsKnown, HitIs

LEMMA NoneChanged ==
  ASSUME ResearchInv, hits' = hits, queries' = queries
  PROVE  ResearchInv' /\ AllGrow(hits, hits')
  <1>1. AllGrow(hits, hits)
    BY ListsJoin DEF ResearchInv, HitsKnown, HitIs, Grows, AllGrow
  <1>2. QED
    BY <1>1 DEF ResearchInv, HitsKnown, HitIs

LEMMA LearnKeeps ==
  ASSUME ResearchInv, NEW c, NEW found, Learn(c, found), queries' = queries
  PROVE  ResearchInv' /\ AllGrow(hits, hits')
  <1>1. PICK h : h = [hits[c] EXCEPT !.facts = Fill(@, found)]
    OBVIOUS
  <1>2. hits' = [hits EXCEPT ![c] = h]
    BY <1>1 DEF Learn
  <1>3. c \in DOMAIN hits => HitIs(h) /\ Grows(hits[c], h)
    BY <1>1, LearnGrows DEF ResearchInv, HitsKnown
  <1>4. QED
    BY <1>2, <1>3, OneChanged

LEMMA EnrichedKeeps ==
  ASSUME ResearchInv, NEW c, NEW pages \in Pages \cup {<< >>}, Enriched(c, pages), queries' = queries
  PROVE  ResearchInv' /\ AllGrow(hits, hits')
  <1>1. PICK h : h = [hits[c] EXCEPT !.facts   = FillFrom(@, pages, DOMAIN pages),
                                     !.sources = @ \cup {p.href : p \in ToSet(pages)}]
    OBVIOUS
  <1>2. hits' = [hits EXCEPT ![c] = h]
    BY <1>1 DEF Enriched, ResearchInv, HitsKnown, HitIs
  <1>3. c \in DOMAIN hits => HitIs(h) /\ Grows(hits[c], h)
    BY <1>1, PagesAre, EnrichedGrows DEF ResearchInv, HitsKnown
  <1>4. QED
    BY <1>2, <1>3, OneChanged

LEMMA InitResearch == ResearchInit => ResearchInv
  BY ShortLists, FS_EmptySet DEF ResearchInit, ResearchInv, HitsKnown

LEMMA ResearchStepKeeps == ResearchInv /\ [ResearchNext]_researchVars => ResearchInv' /\ AllGrow(hits, hits')
  <1> SUFFICES ASSUME ResearchInv, [ResearchNext]_researchVars
               PROVE  ResearchInv' /\ AllGrow(hits, hits')
    OBVIOUS
  <1>1. CASE UNCHANGED <<hits, queries>>
    BY <1>1, NoneChanged
  <1>2. CASE UNCHANGED researchVars
    BY <1>1, <1>2 DEF researchVars
  <1>3. CASE StartResearch
    <2>1. PICK s \in Searches : queries' = Queries(s.offerings, s.summary)
      BY <1>3 DEF StartResearch
    <2>2. IsList(queries') /\ \A tags \in ToSet(queries') : IsList(tags)
      BY <2>1, QueriesAreLists, SearchesAssumption
    <2>3. hits' = hits /\ AllGrow(hits, hits)
      BY <1>3, ListsJoin DEF StartResearch, ResearchInv, HitsKnown, HitIs, Grows, AllGrow
    <2>4. QED
      BY <2>2, <2>3 DEF ResearchInv, HitsKnown, HitIs
  <1>4. CASE SearchNext
    BY <1>4, SearchNextKeeps
  <1>5. CASE VendorCheck
    BY <1>1, <1>5 DEF VendorCheck
  <1>6. CASE EnrichViaSearch
    <2>1. ASSUME NEW c, NEW pages \in Pages \cup {<< >>}, Enriched(c, pages)
          PROVE  ResearchInv' /\ AllGrow(hits, hits')
      BY <1>6, <2>1, EnrichedKeeps DEF EnrichViaSearch
    <2>2. QED
      BY <1>1, <1>6, <2>1 DEF EnrichViaSearch
  <1>7. CASE RowsReady
    BY <1>1, <1>7 DEF RowsReady
  <1>8. ASSUME NEW c \in DOMAIN progress, ScrapeCompany(c)
        PROVE  ResearchInv' /\ AllGrow(hits, hits')
    <2>1. queries' = queries /\ (hits' = hits \/ \E found : Learn(c, found))
      BY <1>8 DEF ScrapeCompany
    <2>2. QED
      BY <1>1, <2>1, LearnKeeps
  <1>9. ASSUME NEW c \in DOMAIN progress, LlmExtract(c)
        PROVE  ResearchInv' /\ AllGrow(hits, hits')
    <2>1. queries' = queries /\ (hits' = hits \/ \E found : Learn(c, found))
      BY <1>9 DEF LlmExtract
    <2>2. QED
      BY <1>1, <2>1, LearnKeeps
  <1>10. QED
    BY <1>2, <1>3, <1>4, <1>5, <1>6, <1>7, <1>8, <1>9 DEF ResearchNext

(* Only the screening goes from the search to the facts.                    *)
LEMMA AnswerIsScreened ==
  ASSUME ResearchInv, [ResearchNext]_researchVars, stage = "search", stage' = "enrich",
         NEW c \in DOMAIN hits \ (rejected' \cup ToSet(ranked'))
  PROVE  \/ Cardinality({r \in ToSet(ranked') : Before(r, c)}) = MaxCompanies
         \/ Cardinality({d \in DOMAIN hits : Before(d, c)}) >= 2 * MaxCompanies
  <1>1. VendorCheck
    BY DEF ResearchNext, researchVars, StartResearch, SearchNext, EnrichViaSearch, RowsReady, ScrapeCompany, LlmExtract
  <1>2. PICK rej, answered : rej = rejected' /\ answered = ranked'
    OBVIOUS
  <1>3. answered = Answered(Subsequence(Candidates, Kept(rej)))
    BY <1>1, <1>2 DEF VendorCheck, Kept
  <1>4. HitsKnown(hits) /\ c \notin rej /\ c \notin ToSet(answered) /\ c \in DOMAIN hits
    BY <1>2 DEF ResearchInv
  <1>5. \/ Cardinality({r \in ToSet(answered) : Before(r, c)}) = MaxCompanies
        \/ Cardinality(Above(c)) >= 2 * MaxCompanies
    BY <1>3, <1>4, ScreeningLosesNone
  <1>6. QED
    BY <1>2, <1>5 DEF Above

-----------------------------------------------------------------------------
(* Sums and counts.                                                        *)

Counted(f) == UNION {{x} \X (1..f[x]) : x \in DOMAIN f}

LEMMA TotalIs == \A f : Total(f) = Cardinality(Counted(f))
  BY DEF Total, Counted

CountBy(key, X, I) == [x \in X |-> Cardinality({i \in I : key[i] = x})]

(* What is counted by a key adds up to all there is.                        *)
LEMMA SumByKey ==
  ASSUME NEW I \in SUBSET Int, IsFiniteSet(I), NEW key, NEW X, \A i \in I : key[i] \in X
  PROVE  Total(CountBy(key, X, I)) = Cardinality(I)
  <1>0. PICK f : f = CountBy(key, X, I)
    OBVIOUS
  <1> DEFINE Class(x) == {i \in I : key[i] = x}
             T == Counted(f)
             h == [t \in T |-> Place(Class(t[1]), t[2])]
  <1>1. DOMAIN f = X /\ \A x \in X : Class(x) \in SUBSET I /\ f[x] = Cardinality(Class(x))
    BY <1>0 DEF CountBy
  <1>2. \A x \in X : Class(x) \in SUBSET Int /\ IsFiniteSet(Class(x))
    <2> HIDE DEF Class
    <2>1. QED
      BY <1>1, FS_Subset
  <1>3. \A x \in X : /\ f[x] \in Nat
                     /\ \A n \in 1..f[x] : Place(Class(x), n) \in Class(x)
                     /\ \A i \in Class(x) : \E n \in 1..f[x] : Place(Class(x), n) = i
                     /\ \A m, n \in 1..f[x] : m < n => Place(Class(x), m) < Place(Class(x), n)
    <2> TAKE x \in X
    <2>1. Class(x) \in SUBSET Int /\ IsFiniteSet(Class(x)) /\ f[x] = Cardinality(Class(x))
      BY <1>1, <1>2
    <2> HIDE DEF Class
    <2>2. QED
      BY <2>1, PlacesInOrder
  <1>4. \A t : t \in T <=> \E x \in X : \E n \in 1..f[x] : t = <<x, n>>
    <2>1. DOMAIN f = X
      BY <1>1
    <2>2. T = UNION {{x} \X (1..f[x]) : x \in X}
      BY <2>1 DEF Counted
    <2> HIDE DEF T
    <2>3. \A x \in X : \A t : t \in {x} \X (1..f[x]) <=> \E n \in 1..f[x] : t = <<x, n>>
      OBVIOUS
    <2>4. \A t : t \in T <=> \E x \in X : t \in {x} \X (1..f[x])
      BY <2>2
    <2>5. ASSUME NEW t
          PROVE  t \in T <=> \E x \in X : \E n \in 1..f[x] : t = <<x, n>>
      <3>1. ASSUME t \in T PROVE \E x \in X : \E n \in 1..f[x] : t = <<x, n>>
        <4>1. PICK x \in X : t \in {x} \X (1..f[x])
          BY <2>4, <3>1
        <4>2. PICK n \in 1..f[x] : t = <<x, n>>
          BY <2>3, <4>1
        <4>3. QED
          BY <4>2
      <3>2. ASSUME NEW x \in X, NEW n \in 1..f[x], t = <<x, n>> PROVE t \in T
        BY <2>4, <3>2
      <3>3. QED
        BY <3>1, <3>2
    <2>6. QED
      BY <2>5
  <1>5. \A x \in X : \A n \in 1..f[x] : <<x, n>> \in T /\ h[<<x, n>>] = Place(Class(x), n)
    BY <1>4
  <1>6. \A x \in X : \A i \in Class(x) : i \in I /\ key[i] = x /\ i \in Int
    OBVIOUS
  <1>7. \A i \in I : i \in Class(key[i])
    OBVIOUS
  <1> HIDE DEF Class, T
  <1>8. h \in [T -> I]
    <2>1. \A t \in T : h[t] \in I
      <3> TAKE t \in T
      <3>1. PICK x \in X : \E n \in 1..f[x] : t = <<x, n>>
        BY <1>4
      <3>2. PICK n \in 1..f[x] : t = <<x, n>>
        BY <3>1
      <3>3. h[t] = Place(Class(x), n)
        BY <1>5, <3>2
      <3>4. QED
        BY <1>3, <1>6, <3>3
    <2>2. QED
      BY <2>1
  <1> HIDE DEF h
  <1>9. \A s, t \in T : h[s] = h[t] => s = t
    <2> SUFFICES ASSUME NEW s \in T, NEW t \in T, h[s] = h[t]
                 PROVE  s = t
      OBVIOUS
    <2>a. PICK x \in X : \E m \in 1..f[x] : s = <<x, m>>
      BY <1>4
    <2>1. PICK m \in 1..f[x] : s = <<x, m>>
      BY <2>a
    <2>b. PICK y \in X : \E n \in 1..f[y] : t = <<y, n>>
      BY <1>4
    <2>2. PICK n \in 1..f[y] : t = <<y, n>>
      BY <2>b
    <2>3. Place(Class(x), m) = Place(Class(y), n)
      BY <1>5, <2>1, <2>2
    <2>4. x = y
      BY <1>3, <1>6, <2>3
    <2>5. m = n
      <3>1. PICK i \in Int : i = Place(Class(x), m) /\ i = Place(Class(x), n)
        BY <1>3, <1>6, <2>3, <2>4
      <3>2. ~(m < n) /\ ~(n < m) /\ m \in Int /\ n \in Int
        <4>1. f[x] \in Nat /\ m \in 1..f[x] /\ n \in 1..f[x]
          BY <1>3, <2>4
        <4>2. m < n => Place(Class(x), m) < Place(Class(x), n)
          BY <1>3, <4>1
        <4>3. n < m => Place(Class(x), n) < Place(Class(x), m)
          BY <1>3, <4>1
        <4>4. ~(i < i) /\ 1..f[x] \subseteq Int
          BY <4>1
        <4>5. QED
          BY <3>1, <4>1, <4>2, <4>3, <4>4
      <3>3. QED
        BY <3>2
    <2>6. QED
      BY <2>1, <2>2, <2>4, <2>5
  <1>10. \A i \in I : \E t \in T : h[t] = i
    <2> TAKE i \in I
    <2>1. PICK x \in X : x = key[i] /\ i \in Class(x)
      BY <1>7
    <2>2. PICK n \in 1..f[x] : Place(Class(x), n) = i
      BY <1>3, <2>1
    <2>3. QED
      BY <1>5, <2>2
  <1>11. h \in Injection(T, I) /\ h \in Surjection(T, I)
    BY <1>8, <1>9, <1>10 DEF Injection, IsInjective, Surjection
  <1>12. Cardinality(T) = Cardinality(I)
    BY <1>11, FS_Injection
  <1>13. QED
    BY <1>0, <1>12, TotalIs DEF T

(* A sum with one more term.                                                *)
LEMMA OneMoreTerm ==
  ASSUME NEW f, NEW g, NEW x, x \notin DOMAIN g, DOMAIN f = DOMAIN g \cup {x},
         \A y \in DOMAIN g : f[y] = g[y], f[x] \in Nat, IsFiniteSet(Counted(g))
  PROVE  IsFiniteSet(Counted(f)) /\ Total(f) = Total(g) + f[x] /\ Total(g) \in Nat
  <1> DEFINE new == {x} \X (1..f[x])
  <1>1. Counted(f) = Counted(g) \cup new
    BY DEF Counted
  <1>2. Counted(g) \cap new = {}
    BY DEF Counted
  <1>3. IsFiniteSet(new) /\ Cardinality(new) = f[x]
    <2>1. IsFiniteSet(1..f[x]) /\ Cardinality(1..f[x]) = f[x]
      <3>1. PICK k \in Nat : k = f[x]
        OBVIOUS
      <3>2. IsFiniteSet(1..k) /\ Cardinality(1..k) = IF 1 > k THEN 0 ELSE k - 1 + 1
        BY FS_Interval
      <3>3. QED
        BY <3>1, <3>2
    <2>2. PICK h : h = [n \in 1..f[x] |-> <<x, n>>]
      OBVIOUS
    <2>3. h \in Surjection(1..f[x], new) /\ h \in Injection(1..f[x], new)
      <3>1. h \in [1..f[x] -> new]
        BY <2>2
      <3>2. \A t \in new : \E n \in 1..f[x] : h[n] = t
        BY <2>2
      <3>3. \A m, n \in 1..f[x] : h[m] = h[n] => m = n
        BY <2>2
      <3>4. QED
        BY <3>1, <3>2, <3>3 DEF Surjection, Injection, IsInjective
    <2> HIDE DEF new
    <2>4. QED
      BY <2>1, <2>3, FS_Surjection
  <1> HIDE DEF new
  <1>4. /\ IsFiniteSet(Counted(g) \cup new)
        /\ Cardinality(Counted(g) \cup new) = Cardinality(Counted(g)) + Cardinality(new) - Cardinality(Counted(g) \cap new)
    BY <1>3, FS_Union
  <1>5. Cardinality(Counted(g)) \in Nat /\ Cardinality({}) = 0
    BY FS_CardinalityType, FS_EmptySet
  <1>6. QED
    <2>1. Total(f) = Cardinality(Counted(f)) /\ Total(g) = Cardinality(Counted(g))
      BY TotalIs
    <2>2. PICK a \in Nat : a = Total(g)
      BY <1>5, <2>1
    <2>3. Total(f) = a + f[x] - 0
      BY <1>1, <1>2, <1>3, <1>4, <1>5, <2>1, <2>2
    <2>4. QED
      BY <1>1, <1>4, <2>2, <2>3

MovedOn(off, A) == {off + k : k \in A}

(* Places moved on are as many.                                             *)
LEMMA AsManyMovedOn ==
  ASSUME NEW A \in SUBSET Int, IsFiniteSet(A), NEW off \in Int
  PROVE  Cardinality(MovedOn(off, A)) = Cardinality(A)
  <1> DEFINE B == MovedOn(off, A)
  <1>1. PICK h : h = [k \in A |-> off + k]
    OBVIOUS
  <1>2. h \in [A -> B] /\ \A b \in B : \E k \in A : h[k] = b
    BY <1>1 DEF MovedOn
  <1>3. \A j, k \in A : h[j] = h[k] => j = k
    <2>1. \A j \in A : j \in Int /\ h[j] = off + j
      BY <1>1
    <2>2. QED
      BY <2>1
  <1> HIDE DEF B
  <1>4. h \in Surjection(A, B) /\ h \in Injection(A, B)
    BY <1>2, <1>3 DEF Surjection, Injection, IsInjective
  <1>5. QED
    BY <1>4, FS_Surjection DEF B

LEMMA ListGrows ==
  ASSUME NEW s, IsList(s), NEW x, NEW t, t = Append(s, x)
  PROVE  /\ IsList(t) /\ Len(t) = Len(s) + 1 /\ DOMAIN t = DOMAIN s \cup {Len(t)} /\ Len(t) \notin DOMAIN s
         /\ t[Len(t)] = x /\ \A i \in DOMAIN s : t[i] = s[i]
  <1>1. s \in Seq(ToSet(s)) /\ Len(s) \in Nat /\ DOMAIN s = 1..Len(s)
    BY ListIs
  <1>2. PICK S : S = ToSet(s) \cup {x}
    OBVIOUS
  <1>3. s \in Seq(S) /\ x \in S
    BY <1>1, <1>2
  <1>4. t \in Seq(S) /\ Len(t) = Len(s) + 1 /\ t[Len(t)] = x /\ \A i \in 1..Len(s) : t[i] = s[i]
    BY <1>1, <1>3
  <1>5. IsList(t) /\ DOMAIN t = 1..Len(t)
    <2>1. IsList(t)
      BY <1>4, IsListOf
    <2>2. QED
      BY <1>4, <2>1
  <1>6. QED
    BY <1>1, <1>4, <1>5

WithLast(I, t) == I \cup {Len(t)}

(* What is appended counts if it is of the kind that is counted.            *)
LEMMA OneMoreCounts ==
  ASSUME NEW s, IsList(s), NEW x, NEW I \in SUBSET DOMAIN s
  PROVE  /\ Tokens(s, I) \in Nat /\ Tokens(Append(s, x), I) = Tokens(s, I)
         /\ Tokens(Append(s, x), WithLast(I, Append(s, x))) = Tokens(s, I) + (IF x.kind = "model" THEN 1 ELSE 0)
  <1>1. IsFiniteSet(DOMAIN s)
    BY ListIs
  <1>2. PICK t, n : t = Append(s, x) /\ n = Len(t) /\ WithLast(I, Append(s, x)) = I \cup {n}
    BY DEF WithLast
  <1>3. n \notin DOMAIN s /\ t[n] = x /\ \A i \in DOMAIN s : t[i] = s[i]
    BY <1>2, ListGrows
  <1>4. PICK A : A = {i \in I : s[i].kind = "model"}
    OBVIOUS
  <1>5. A \in SUBSET DOMAIN s /\ n \notin A /\ {i \in I : t[i].kind = "model"} = A
    BY <1>3, <1>4
  <1>6. IsFiniteSet(A) /\ Cardinality(A) \in Nat
    BY <1>1, <1>5, FS_Subset, FS_CardinalityType
  <1>7. {i \in I \cup {n} : t[i].kind = "model"} = IF x.kind = "model" THEN A \cup {n} ELSE A
    BY <1>3, <1>5
  <1>8. Cardinality(A \cup {n}) = Cardinality(A) + 1
    BY <1>5, <1>6, FS_AddElement
  <1>9. Tokens(s, I) = Cardinality(A) /\ Tokens(t, I) = Cardinality(A)
    BY <1>4, <1>5 DEF Tokens
  <1>10. Tokens(t, I \cup {n}) = IF x.kind = "model" THEN Cardinality(A) + 1 ELSE Cardinality(A)
    BY <1>7, <1>8 DEF Tokens
  <1>11. Tokens(t, I \cup {n}) = Tokens(s, I) + (IF x.kind = "model" THEN 1 ELSE 0)
    BY <1>6, <1>9, <1>10
  <1>12. QED
    BY <1>2, <1>6, <1>9, <1>11

-----------------------------------------------------------------------------
(* Usage of runs.                                                          *)

AllTools == UNION {j.tools : j \in Jobs}

LedgerTyped ==
  /\ DOMAIN phase = Workflows /\ DOMAIN asked = Workflows /\ DOMAIN doing = Workflows
  /\ DOMAIN drafted = Workflows /\ DOMAIN before = Workflows /\ DOMAIN steps = Workflows
  /\ DOMAIN recorded = Workflows /\ DOMAIN told = Workflows /\ DOMAIN made = Workflows
  /\ \A w \in Workflows :
       /\ IsList(steps[w]) /\ IsList(recorded[w]) /\ IsList(made[w])
       /\ DOMAIN told[w] = {"tokens", "failures", "persisted"} /\ told[w].persisted \in BOOLEAN
       /\ phase[w] = "running" => asked[w] \in Jobs
       /\ before[w] \in Nat
       /\ \A i \in DOMAIN steps[w] : steps[w][i].tool \in AllTools /\ steps[w][i].tokens \in Nat
  /\ IsList(events)

MainContext(w) == [run |-> w, tool |-> doing[w],
                   section |-> IF drafted[w] = "first" THEN Head(Drafting[doing[w]]) ELSE NoTag]

PoolContext(w, name) == IF name = "vendor" THEN [run |-> NoTag, tool |-> NoTag, section |-> NoTag]
                        ELSE [run |-> w, tool |-> doing[w], section |-> name]

(* What the context of a thread says, by what its run is doing.             *)
ThreadsKnown ==
  \A t \in DOMAIN context :
    /\ t = <<t[1], t[2]>> /\ t[1] \in Workflows /\ phase[t[1]] = "running"
    /\ t[2] = "main" => context[t] = MainContext(t[1])
    /\ t[2] # "main" => /\ drafted[t[1]] = "all" /\ doing[t[1]] # NoTag
                        /\ context[t] = PoolContext(t[1], t[2])

WorkKnown ==
  \A w \in Workflows :
    /\ phase[w] = "running" => Main(w) \in DOMAIN context
    /\ doing[w] # NoTag => phase[w] = "running" /\ doing[w] \in AllTools
    /\ doing[w] = NoTag => drafted[w] = "none"
    /\ drafted[w] = "first" => doing[w] \in DOMAIN Drafting

Recordable(calls) == {i \in DOMAIN calls : calls[i].section # "vendor"}

RecordsKnown == \A w \in Workflows : recorded[w] = Subsequence(made[w], Recordable(made[w]))

StepTokens(w, tool) == [i \in OfTool(steps[w], tool) |-> steps[w][i].tokens]

(* A tool at work has used what the run has, since it began.                *)
StepsAddUp ==
  \A w \in Workflows :
    /\ doing[w] # NoTag => before[w] <= TokensOfRun(w)
    /\ \A tool \in AllTools :
         /\ IsFiniteSet(Counted(StepTokens(w, tool)))
         /\ phase[w] # "raised" =>
              Total(StepTokens(w, tool)) + (IF doing[w] = tool THEN TokensOfRun(w) - before[w] ELSE 0)
                = Tokens(recorded[w], OfTool(recorded[w], tool))

EventsOf(w) == {i \in DOMAIN events : events[i].workflow = w}

EventOf(w, k) == [workflow |-> w, type |-> asked[w].type, owner |-> asked[w].owner,
                  tool |-> recorded[w][k].tool, section |-> recorded[w][k].section, kind |-> recorded[w][k].kind]

(* The events of a stored run are its records, one after the other.         *)
EventsKnown ==
  /\ \A i \in DOMAIN events : events[i].workflow \in Workflows
  /\ \A w \in Workflows :
       IF told[w].persisted
       THEN \E off \in 0..Len(events) : /\ EventsOf(w) = MovedOn(off, DOMAIN recorded[w])
                                       /\ \A k \in DOMAIN recorded[w] : events[off + k] = EventOf(w, k)
       ELSE EventsOf(w) = {}

ToldKnown ==
  \A w \in Workflows :
    /\ phase[w] \in {"reported", "answered"} =>
         told[w].tokens = TokensOfRun(w) /\ told[w].failures = Failures(recorded[w], DOMAIN recorded[w])
    /\ told[w].persisted => phase[w] = "answered"

RowsKnown ==
  /\ \A row \in rows : /\ row.workflow \in Workflows /\ told[row.workflow].persisted
                        /\ asked[row.workflow].type # "revision"
                        /\ row.owner = asked[row.workflow].owner /\ row.tokens = told[row.workflow].tokens
  /\ \A w \in Workflows : told[w].persisted /\ asked[w].type # "revision" => \E row \in rows : row.workflow = w

LedgerInv == /\ LedgerTyped /\ ThreadsKnown /\ WorkKnown /\ RecordsKnown /\ StepsAddUp
             /\ EventsKnown /\ ToldKnown /\ RowsKnown

(* What an event says of its run.                                           *)
LEMMA EventsSay ==
  ASSUME LedgerInv, NEW i \in DOMAIN events, NEW w, w = events[i].workflow
  PROVE  /\ w \in Workflows /\ told[w].persisted /\ i \in EventsOf(w)
         /\ events[i].type = asked[w].type /\ events[i].owner = asked[w].owner
  <1>1. w \in Workflows /\ i \in EventsOf(w)
    BY DEF LedgerInv, EventsKnown, EventsOf
  <1>2. told[w].persisted
    BY <1>1 DEF LedgerInv, EventsKnown
  <1>3. PICK off \in 0..Len(events) : /\ EventsOf(w) = MovedOn(off, DOMAIN recorded[w])
                                      /\ \A k \in DOMAIN recorded[w] : events[off + k] = EventOf(w, k)
    BY <1>1, <1>2 DEF LedgerInv, EventsKnown
  <1>4. PICK k \in DOMAIN recorded[w] : i = off + k
    BY <1>1, <1>3 DEF MovedOn
  <1>5. events[i] = EventOf(w, k)
    BY <1>3, <1>4
  <1>6. QED
    BY <1>1, <1>2, <1>5 DEF EventOf

OfKind(calls, at, kind) == {i \in at : calls[i].kind = kind}

(* A stored run has as many events of a kind as records.                    *)
LEMMA StoredCounts ==
  ASSUME LedgerInv, NEW w \in Workflows, told[w].persisted
  PROVE  /\ Cardinality(EventsOf(w)) = Len(recorded[w])
         /\ Tokens(events, EventsOf(w)) = told[w].tokens /\ Failures(events, EventsOf(w)) = told[w].failures
  <1>1. PICK off \in 0..Len(events) : /\ EventsOf(w) = MovedOn(off, DOMAIN recorded[w])
                                      /\ \A k \in DOMAIN recorded[w] : events[off + k] = EventOf(w, k)
    BY DEF LedgerInv, EventsKnown
  <1>2. /\ DOMAIN recorded[w] \in SUBSET Int /\ IsFiniteSet(DOMAIN recorded[w]) /\ off \in Int
        /\ Cardinality(DOMAIN recorded[w]) = Len(recorded[w])
    BY ListIs DEF LedgerInv, LedgerTyped
  <1>3. Cardinality(EventsOf(w)) = Len(recorded[w])
    BY <1>1, <1>2, AsManyMovedOn
  <1>4. \A kind : Cardinality(OfKind(events, EventsOf(w), kind)) = Cardinality(OfKind(recorded[w], DOMAIN recorded[w], kind))
    <2> TAKE kind
    <2>0. PICK A, B : /\ A = {k \in DOMAIN recorded[w] : recorded[w][k].kind = kind}
                      /\ B = {i \in EventsOf(w) : events[i].kind = kind}
      OBVIOUS
    <2>1. \A k \in DOMAIN recorded[w] : events[off + k].kind = recorded[w][k].kind
      <3> TAKE k \in DOMAIN recorded[w]
      <3>1. EventOf(w, k).kind = recorded[w][k].kind
        BY DEF EventOf
      <3>2. QED
        BY <1>1, <3>1
    <2>2. B = MovedOn(off, A)
      BY <1>1, <2>0, <2>1 DEF MovedOn
    <2>3. A \in SUBSET Int /\ IsFiniteSet(A)
      BY <1>2, <2>0, FS_Subset
    <2>4. Cardinality(B) = Cardinality(A)
      BY <1>2, <2>2, <2>3, AsManyMovedOn
    <2>5. A = OfKind(recorded[w], DOMAIN recorded[w], kind) /\ B = OfKind(events, EventsOf(w), kind)
      BY <2>0 DEF OfKind
    <2>6. QED
      BY <2>4, <2>5
  <1>5. Tokens(events, EventsOf(w)) = TokensOfRun(w)
    BY <1>4 DEF Tokens, TokensOfRun, OfKind
  <1>6. Failures(events, EventsOf(w)) = Failures(recorded[w], DOMAIN recorded[w])
    BY <1>4 DEF Failures, OfKind
  <1>7. QED
    BY <1>3, <1>5, <1>6 DEF LedgerInv, ToldKnown

(* Calls outside sections are the rest of those in sections.                *)
LEMMA SectionsSplit ==
  ASSUME NEW calls, NEW at \in SUBSET Int, IsFiniteSet(at)
  PROVE  Tokens(calls, at) - Total(BySection(calls, at)) = Tokens(calls, OfSection(calls, at, NoTag))
  <1>1. PICK A, B, X : /\ A = {i \in at : calls[i].kind = "model" /\ calls[i].section # NoTag}
                       /\ B = {i \in at : calls[i].kind = "model" /\ calls[i].section = NoTag}
                       /\ X = {calls[i].section : i \in at} \ {NoTag}
    OBVIOUS
  <1>2. A \in SUBSET at /\ B \in SUBSET at /\ A \cap B = {}
    BY <1>1
  <1>3. /\ A \in SUBSET Int /\ IsFiniteSet(A) /\ IsFiniteSet(B)
        /\ Cardinality(A) \in Nat /\ Cardinality(B) \in Nat
    BY <1>2, FS_Subset, FS_CardinalityType
  <1>4. Cardinality(A \cup B) = Cardinality(A) + Cardinality(B) - Cardinality(A \cap B)
    BY <1>3, FS_Union
  <1>5. Cardinality(A \cup B) = Cardinality(A) + Cardinality(B)
    <2>1. Cardinality(A \cap B) = 0
      BY <1>2, FS_EmptySet
    <2>2. QED
      BY <1>3, <1>4, <2>1
  <1>6. A \cup B = {i \in at : calls[i].kind = "model"}
    BY <1>1
  <1>7. Tokens(calls, at) = Cardinality(A \cup B)
    BY <1>6 DEF Tokens
  <1>8. Tokens(calls, OfSection(calls, at, NoTag)) = Cardinality(B)
    <2>1. {i \in OfSection(calls, at, NoTag) : calls[i].kind = "model"} = B
      BY <1>1 DEF OfSection
    <2>2. QED
      BY <2>1 DEF Tokens
  <1>9. Total(BySection(calls, at)) = Cardinality(A)
    <2>1. PICK key : key = [i \in A |-> calls[i].section]
      OBVIOUS
    <2>2. \A i \in A : key[i] \in X
      BY <1>1, <2>1
    <2>3. \A x \in X : Tokens(calls, OfSection(calls, at, x)) = Cardinality({i \in A : key[i] = x})
      <3> TAKE x \in X
      <3>1. {i \in OfSection(calls, at, x) : calls[i].kind = "model"} = {i \in A : key[i] = x}
        BY <1>1, <2>1 DEF OfSection
      <3>2. QED
        BY <3>1 DEF Tokens
    <2>4. BySection(calls, at) = [x \in X |-> Tokens(calls, OfSection(calls, at, x))]
      BY <1>1 DEF BySection
    <2>5. PICK f : f = BySection(calls, at)
      OBVIOUS
    <2>6. f = CountBy(key, X, A)
      BY <2>3, <2>4, <2>5 DEF CountBy
    <2>7. Total(CountBy(key, X, A)) = Cardinality(A)
      BY <1>3, <2>2, SumByKey
    <2>8. QED
      BY <2>5, <2>6, <2>7
  <1>10. QED
    BY <1>3, <1>5, <1>7, <1>8, <1>9

TokensBy(key, X, calls, at) == [x \in X |-> Tokens(calls, {i \in at : key[i] = x})]

(* Tokens of some calls, split by a key.                                    *)
LEMMA TokensByKey ==
  ASSUME NEW calls, NEW at \in SUBSET Int, IsFiniteSet(at), NEW key, NEW X, \A i \in at : key[i] \in X
  PROVE  Total(TokensBy(key, X, calls, at)) = Tokens(calls, at)
  <1>1. PICK M : M = {i \in at : calls[i].kind = "model"}
    OBVIOUS
  <1>2. M \in SUBSET Int /\ IsFiniteSet(M) /\ \A i \in M : key[i] \in X
    BY <1>1, FS_Subset
  <1>3. \A x \in X : Tokens(calls, {i \in at : key[i] = x}) = Cardinality({i \in M : key[i] = x})
    <2> TAKE x \in X
    <2>1. {i \in {j \in at : key[j] = x} : calls[i].kind = "model"} = {i \in M : key[i] = x}
      BY <1>1
    <2>2. QED
      BY <2>1 DEF Tokens
  <1>4. TokensBy(key, X, calls, at) = CountBy(key, X, M)
    BY <1>3 DEF TokensBy, CountBy
  <1>5. Total(CountBy(key, X, M)) = Cardinality(M)
    BY <1>2, SumByKey
  <1>6. QED
    BY <1>1, <1>4, <1>5 DEF Tokens

LEMMA EventsFinite ==
  ASSUME LedgerInv
  PROVE  /\ DOMAIN events \in SUBSET Int /\ IsFiniteSet(DOMAIN events)
         /\ \A I \in SUBSET DOMAIN events : I \in SUBSET Int /\ IsFiniteSet(I)
  <1>1. DOMAIN events \in SUBSET Int /\ IsFiniteSet(DOMAIN events)
    BY ListIs DEF LedgerInv, LedgerTyped
  <1>2. QED
    BY <1>1, FS_Subset

(* A viewer sees the whole usage of a run whose owner it may see.           *)
LEMMA SeenWhole ==
  ASSUME LedgerInv, NEW viewer, NEW w \in Workflows, ~viewer.restricted \/ asked[w].owner = viewer.owner
  PROVE  UsageForWorkflow(viewer, w) = EventsOf(w)
  <1>1. \A i \in DOMAIN events : events[i].workflow = w => events[i].owner = asked[w].owner
    BY EventsSay
  <1>2. QED
    BY <1>1 DEF UsageForWorkflow, OnlyMine, EventsOf

LEMMA ListIsEach ==
  ASSUME LedgerAssumption, LedgerInv, NEW viewer \in Viewers
  PROVE  ListWorkflows(viewer) = UNION {GetWorkflow(viewer, w) : w \in Workflows}
  <1>1. \A row \in rows : row.workflow \in Workflows
    BY DEF LedgerInv, RowsKnown
  <1>2. \A row : Allows(viewer, row.owner) <=> ~viewer.restricted \/ row.owner = viewer.owner
    BY DEF Allows, LedgerAssumption
  <1>3. QED
    BY <1>1, <1>2 DEF ListWorkflows, GetWorkflow

LEMMA ListedTokens ==
  ASSUME LedgerInv, NEW viewer, NEW row \in ListWorkflows(viewer)
  PROVE  Tokens(events, UsageForWorkflow(viewer, row.workflow)) = row.tokens
  <1>1. PICK w : w = row.workflow
    OBVIOUS
  <1>2. /\ w \in Workflows /\ told[w].persisted /\ row.owner = asked[w].owner /\ row.tokens = told[w].tokens
        /\ ~viewer.restricted \/ row.owner = viewer.owner
    BY <1>1 DEF LedgerInv, RowsKnown, ListWorkflows
  <1>3. UsageForWorkflow(viewer, w) = EventsOf(w)
    BY <1>2, SeenWhole
  <1>4. Tokens(events, EventsOf(w)) = told[w].tokens
    BY <1>2, StoredCounts
  <1>5. QED
    BY <1>1, <1>2, <1>3, <1>4

LEMMA RunsAgree ==
  ASSUME LedgerInv, NEW viewer, NEW run \in UsageByRun(viewer)
  PROVE  /\ run.saved
         /\ \E row \in ListWorkflows(viewer) : row.workflow = run.workflow /\ row.tokens = run.tokens
         /\ run.other = Tokens(events, OfSection(events, UsageForWorkflow(viewer, run.workflow), NoTag))
  <1> DEFINE proposals == {i \in OnlyMine(viewer) : events[i].type = "proposal_generation"}
             Of(w)     == {i \in proposals : events[i].workflow = w}
  <1>1. PICK w \in {events[i].workflow : i \in proposals} :
          run = [workflow |-> w, tokens |-> Tokens(events, Of(w)), sections |-> BySection(events, Of(w)),
                 saved |-> \E row \in rows : row.workflow = w,
                 other |-> Tokens(events, Of(w)) - Total(BySection(events, Of(w)))]
    BY DEF UsageByRun
  <1>2. PICK i \in proposals : w = events[i].workflow
    OBVIOUS
  <1>3. i \in DOMAIN events /\ events[i].type = "proposal_generation" /\ (~viewer.restricted \/ events[i].owner = viewer.owner)
    BY <1>2 DEF OnlyMine
  <1>4. /\ w \in Workflows /\ told[w].persisted /\ asked[w].type = "proposal_generation"
        /\ ~viewer.restricted \/ asked[w].owner = viewer.owner
    BY <1>2, <1>3, EventsSay
  <1>5. UsageForWorkflow(viewer, w) = EventsOf(w)
    BY <1>4, SeenWhole
  <1>6. Of(w) = UsageForWorkflow(viewer, w)
    <2>1. \A k \in DOMAIN events : events[k].workflow = w => events[k].type = "proposal_generation"
      BY <1>4, EventsSay
    <2>2. QED
      BY <2>1 DEF UsageForWorkflow, OnlyMine
  <1>7. PICK row \in rows : row.workflow = w
    BY <1>4 DEF LedgerInv, RowsKnown
  <1>8. row \in ListWorkflows(viewer)
    BY <1>4, <1>7 DEF LedgerInv, RowsKnown, ListWorkflows
  <1>9. Tokens(events, UsageForWorkflow(viewer, w)) = row.tokens
    BY <1>7, <1>8, ListedTokens
  <1>10. UsageForWorkflow(viewer, w) \in SUBSET Int /\ IsFiniteSet(UsageForWorkflow(viewer, w))
    BY EventsFinite DEF UsageForWorkflow, OnlyMine
  <1>11. Tokens(events, UsageForWorkflow(viewer, w)) - Total(BySection(events, UsageForWorkflow(viewer, w)))
           = Tokens(events, OfSection(events, UsageForWorkflow(viewer, w), NoTag))
    BY <1>10, SectionsSplit
  <1> HIDE DEF Of, proposals
  <1>12. run.workflow = w /\ run.tokens = Tokens(events, Of(w)) /\ run.saved = (\E r \in rows : r.workflow = w)
         /\ run.other = Tokens(events, Of(w)) - Total(BySection(events, Of(w)))
    BY <1>1
  <1>13. QED
    BY <1>6, <1>7, <1>8, <1>9, <1>11, <1>12

LEMMA SummaryAgrees ==
  ASSUME LedgerInv, NEW viewer
  PROVE  LET summary == UsageSummary(viewer)
         IN  /\ summary.tokens = Total([w \in Workflows |-> Tokens(events, UsageForWorkflow(viewer, w))])
             /\ summary.tokens = Total(summary.by_type)
             /\ summary.workflows = Cardinality({w \in Workflows : UsageForWorkflow(viewer, w) # {}})
  <1>1. PICK mine : mine = OnlyMine(viewer)
    OBVIOUS
  <1>2. /\ mine \in SUBSET DOMAIN events /\ mine \in SUBSET Int /\ IsFiniteSet(mine)
        /\ \A i \in mine : events[i].workflow \in Workflows
    <2>1. mine \in SUBSET DOMAIN events
      BY <1>1 DEF OnlyMine
    <2>2. QED
      BY <2>1, EventsFinite DEF LedgerInv, EventsKnown
  <1>3. PICK types : types = {events[i].type : i \in mine}
    OBVIOUS
  <1>4. PICK byRun, byType : byRun = [i \in mine |-> events[i].workflow] /\ byType = [i \in mine |-> events[i].type]
    OBVIOUS
  <1>5. Total(TokensBy(byRun, Workflows, events, mine)) = Tokens(events, mine)
    <2>1. \A i \in mine : byRun[i] \in Workflows
      BY <1>2, <1>4
    <2>2. QED
      BY <1>2, <2>1, TokensByKey
  <1>6. Total(TokensBy(byType, types, events, mine)) = Tokens(events, mine)
    <2>1. \A i \in mine : byType[i] \in types
      BY <1>3, <1>4
    <2>2. QED
      BY <1>2, <2>1, TokensByKey
  <1>7. TokensBy(byRun, Workflows, events, mine) = [w \in Workflows |-> Tokens(events, UsageForWorkflow(viewer, w))]
    <2>1. \A w \in Workflows : {i \in mine : byRun[i] = w} = UsageForWorkflow(viewer, w)
      BY <1>1, <1>4 DEF UsageForWorkflow
    <2>2. QED
      BY <2>1 DEF TokensBy
  <1>8. TokensBy(byType, types, events, mine) = [type \in types |-> Tokens(events, {i \in mine : events[i].type = type})]
    <2>1. \A type \in types : {i \in mine : byType[i] = type} = {i \in mine : events[i].type = type}
      BY <1>4
    <2>2. QED
      BY <2>1 DEF TokensBy
  <1>9. {events[i].workflow : i \in mine} = {w \in Workflows : UsageForWorkflow(viewer, w) # {}}
    BY <1>1, <1>2 DEF UsageForWorkflow
  <1>10. PICK f : f = [type \in types |-> Tokens(events, {i \in mine : events[i].type = type})]
    OBVIOUS
  <1>11. UsageSummary(viewer) = [tokens |-> Tokens(events, mine), workflows |-> Cardinality({events[i].workflow : i \in mine}),
                                by_type |-> f]
    BY <1>1, <1>3, <1>10 DEF UsageSummary
  <1>12. /\ UsageSummary(viewer).tokens = Tokens(events, mine) /\ UsageSummary(viewer).by_type = f
         /\ UsageSummary(viewer).workflows = Cardinality({events[i].workflow : i \in mine})
    BY <1>11
  <1>13. Total(f) = Tokens(events, mine)
    BY <1>6, <1>8, <1>10
  <1>14. QED
    BY <1>5, <1>7, <1>9, <1>12, <1>13

LEMMA LedgerInvSound == LedgerAssumption /\ LedgerInv => LedgerTrue
  <1> SUFFICES ASSUME LedgerAssumption, LedgerInv
               PROVE  LedgerTrue
    OBVIOUS
  <1>1. RecordsAreTrue
    <2> SUFFICES ASSUME NEW w \in Workflows
                 PROVE  /\ recorded[w] = Subsequence(made[w], Recordable(made[w]))
                        /\ phase[w] # "raised" =>
                            \A tool \in {steps[w][i].tool : i \in DOMAIN steps[w]} \ {doing[w]} :
                              Total(StepTokens(w, tool)) = Tokens(recorded[w], OfTool(recorded[w], tool))
      BY DEF RecordsAreTrue, Recordable, StepTokens
    <2>1. recorded[w] = Subsequence(made[w], Recordable(made[w]))
      BY DEF LedgerInv, RecordsKnown
    <2>2. ASSUME phase[w] # "raised", NEW i \in DOMAIN steps[w], NEW tool, tool = steps[w][i].tool, tool # doing[w]
          PROVE  Total(StepTokens(w, tool)) = Tokens(recorded[w], OfTool(recorded[w], tool))
      <3>1. tool \in AllTools
        BY <2>2 DEF LedgerInv, LedgerTyped
      <3>2. IsFiniteSet(Counted(StepTokens(w, tool)))
            /\ Total(StepTokens(w, tool)) + 0 = Tokens(recorded[w], OfTool(recorded[w], tool))
        BY <2>2, <3>1 DEF LedgerInv, StepsAddUp
      <3>3. Total(StepTokens(w, tool)) \in Nat
        BY <3>2, TotalIs, FS_CardinalityType
      <3>4. QED
        BY <3>2, <3>3
    <2>3. QED
      BY <2>1, <2>2
  <1>2. StoredAsTold
    <2> SUFFICES ASSUME NEW w \in Workflows
                 PROVE  IF told[w].persisted
                        THEN /\ Cardinality(EventsOf(w)) = Len(recorded[w])
                             /\ Tokens(events, EventsOf(w)) = told[w].tokens
                             /\ Failures(events, EventsOf(w)) = told[w].failures
                        ELSE EventsOf(w) = {} /\ \A row \in rows : row.workflow # w
      BY DEF StoredAsTold, EventsOf
    <2>1. CASE told[w].persisted
      BY <2>1, StoredCounts
    <2>2. CASE ~told[w].persisted
      BY <2>2 DEF LedgerInv, EventsKnown, RowsKnown
    <2>3. QED
      BY <2>1, <2>2
  <1>3. ViewsAgree
    BY ListIsEach, ListedTokens, RunsAgree, SummaryAgrees DEF ViewsAgree
  <1>4. QED
    BY <1>1, <1>2, <1>3 DEF LedgerTrue

-----------------------------------------------------------------------------
(* Places of a set keep their numbers when one that is behind is added.     *)
LEMMA PlacesGrow ==
  ASSUME NEW I \in SUBSET Int, IsFiniteSet(I), NEW m \in Int, \A i \in I : i < m
  PROVE  /\ Cardinality(I) \in Nat /\ IsFiniteSet(I \cup {m}) /\ Cardinality(I \cup {m}) = Cardinality(I) + 1
         /\ \A n \in 1..Cardinality(I) : Place(I \cup {m}, n) = Place(I, n)
         /\ Place(I \cup {m}, Cardinality(I) + 1) = m
  <1>1. PICK J, c : J = I \cup {m} /\ c = Cardinality(I)
    OBVIOUS
  <1>2. J \in SUBSET Int /\ m \notin I /\ m \in J
    BY <1>1
  <1>3. c \in Nat /\ IsFiniteSet(J) /\ Cardinality(J) = c + 1
    BY <1>1, <1>2, FS_CardinalityType, FS_AddElement
  <1>4. \A i \in I : UpTo(J, i) = UpTo(I, i)
    <2>1. \A i \in I : i \in Int /\ ~(m <= i)
      OBVIOUS
    <2>2. QED
      BY <1>1, <2>1 DEF UpTo
  <1>5. UpTo(J, m) = J
    <2>1. \A i \in J : i <= m
      BY <1>1
    <2>2. QED
      BY <2>1 DEF UpTo
  <1>6. ASSUME NEW n \in 1..c
        PROVE  Place(J, n) = Place(I, n)
    <2>1. PICK i \in I : i = Place(I, n) /\ Cardinality(UpTo(I, i)) = n
      BY <1>1, PlacesInOrder
    <2>2. Cardinality(UpTo(J, i)) = n /\ i \in J
      BY <1>1, <1>4, <2>1
    <2>3. Place(J, n) = i
      BY <1>2, <1>3, <2>2, PlacesInOrder
    <2>4. QED
      BY <2>1, <2>3
  <1>7. Place(J, c + 1) = m
    <2>1. Cardinality(UpTo(J, m)) = c + 1
      BY <1>3, <1>5
    <2>2. Place(J, Cardinality(UpTo(J, m))) = m
      BY <1>2, <1>3, PlacesInOrder
    <2>3. QED
      BY <2>1, <2>2
  <1>8. QED
    BY <1>1, <1>3, <1>6, <1>7

(* A part of a list grows by what is appended, if its place is a part of it. *)
LEMMA SubsequenceGrows ==
  ASSUME NEW s, IsList(s), NEW x, NEW I \in SUBSET DOMAIN s
  PROVE  /\ Subsequence(Append(s, x), I) = Subsequence(s, I)
         /\ Subsequence(Append(s, x), WithLast(I, Append(s, x))) = Append(Subsequence(s, I), x)
  <1>0. PICK t : t = Append(s, x)
    OBVIOUS
  <1>1. s \in Seq(ToSet(s)) /\ Len(s) \in Nat /\ DOMAIN s = 1..Len(s) /\ IsFiniteSet(DOMAIN s)
    BY ListIs
  <1>2. PICK S : S = ToSet(s) \cup {x}
    OBVIOUS
  <1>3. s \in Seq(S) /\ x \in S
    BY <1>1, <1>2
  <1>4. t \in Seq(S) /\ Len(t) = Len(s) + 1 /\ t[Len(t)] = x /\ \A i \in DOMAIN s : t[i] = s[i]
    BY <1>0, <1>1, <1>3
  <1>5. PICK m, c : m = Len(t) /\ c = Cardinality(I) /\ WithLast(I, Append(s, x)) = I \cup {m}
    BY <1>0 DEF WithLast
  <1>6. I \in SUBSET Int /\ IsFiniteSet(I) /\ m \in Int /\ \A i \in I : i < m
    BY <1>1, <1>4, <1>5, FS_Subset
  <1>7. /\ c \in Nat /\ Cardinality(I \cup {m}) = c + 1
        /\ \A n \in 1..c : Place(I \cup {m}, n) = Place(I, n)
        /\ Place(I \cup {m}, c + 1) = m
    BY <1>5, <1>6, PlacesGrow
  <1>8. \A n \in 1..c : Place(I, n) \in I
    BY <1>5, <1>6, PlacesInOrder
  <1>9. \A n \in 1..c : t[Place(I, n)] = s[Place(I, n)]
    BY <1>4, <1>8
  <1>10. Subsequence(t, I) = Subsequence(s, I)
    BY <1>5, <1>9 DEF Subsequence
  <1>11. Subsequence(s, I) \in Seq(S) /\ Len(Subsequence(s, I)) = c /\ \A n \in 1..c : Subsequence(s, I)[n] = s[Place(I, n)]
    <2>1. Subsequence(s, I) = [n \in 1..c |-> s[Place(I, n)]]
      BY <1>5 DEF Subsequence
    <2>2. \A n \in 1..c : s[Place(I, n)] \in S
      BY <1>1, <1>2, <1>8 DEF ToSet
    <2>3. QED
      BY <1>7, <2>1, <2>2
  <1>12. PICK u : u = Append(Subsequence(s, I), x)
    OBVIOUS
  <1>13. u \in Seq(S) /\ Len(u) = c + 1 /\ u[c + 1] = x /\ \A n \in 1..c : u[n] = s[Place(I, n)]
    BY <1>3, <1>7, <1>11, <1>12
  <1>14. PICK v : v = Subsequence(t, I \cup {m})
    OBVIOUS
  <1>15. v = [n \in 1..c + 1 |-> t[Place(I \cup {m}, n)]]
    BY <1>7, <1>14 DEF Subsequence
  <1>16. \A n \in 1..c + 1 : v[n] = u[n]
    <2> TAKE n \in 1..c + 1
    <2>1. CASE n = c + 1
      BY <1>4, <1>5, <1>7, <1>13, <1>15, <2>1
    <2>2. CASE n # c + 1
      <3>1. n \in 1..c
        BY <1>7, <2>2
      <3>2. v[n] = t[Place(I, n)] /\ u[n] = s[Place(I, n)]
        BY <1>7, <1>13, <1>15, <3>1
      <3>3. QED
        BY <1>9, <3>1, <3>2
    <2>3. QED
      BY <2>1, <2>2
  <1>17. v = u
    <2>1. DOMAIN u = 1..c + 1 /\ u = [n \in 1..c + 1 |-> u[n]]
      BY <1>13
    <2>2. QED
      BY <1>15, <1>16, <2>1
  <1>18. QED
    BY <1>0, <1>5, <1>10, <1>12, <1>14, <1>17

-----------------------------------------------------------------------------
LEMMA InitLedger == LedgerInit => LedgerInv
  <1> SUFFICES ASSUME LedgerInit
               PROVE  LedgerInv
    OBVIOUS
  <1> USE DEF LedgerInit
  <1>1. IsList(<< >>) /\ DOMAIN << >> = {}
    BY DEF IsList
  <1>2. LedgerTyped
    BY <1>1 DEF LedgerTyped, Unread
  <1>3. ThreadsKnown
    BY <1>1 DEF ThreadsKnown
  <1>4. WorkKnown
    BY DEF WorkKnown
  <1>5. RecordsKnown
    <2>1. Cardinality({}) = 0
      BY FS_EmptySet
    <2>2. Recordable(<< >>) = {}
      BY <1>1 DEF Recordable
    <2>3. Subsequence(<< >>, {}) = << >>
      BY <2>1 DEF Subsequence
    <2>4. QED
      BY <2>2, <2>3 DEF RecordsKnown
  <1>6. StepsAddUp
    <2> SUFFICES ASSUME NEW w \in Workflows, NEW tool \in AllTools
                 PROVE  /\ IsFiniteSet(Counted(StepTokens(w, tool)))
                        /\ doing[w] # NoTag => before[w] <= TokensOfRun(w)
                        /\ Total(StepTokens(w, tool)) + (IF doing[w] = tool THEN TokensOfRun(w) - before[w] ELSE 0)
                             = Tokens(recorded[w], OfTool(recorded[w], tool))
      BY DEF StepsAddUp
    <2>1. OfTool(<< >>, tool) = {}
      BY <1>1 DEF OfTool
    <2>2. DOMAIN StepTokens(w, tool) = {}
      BY <2>1 DEF StepTokens
    <2>3. Counted(StepTokens(w, tool)) = {}
      BY <2>2 DEF Counted
    <2>4. Total(StepTokens(w, tool)) = 0 /\ IsFiniteSet(Counted(StepTokens(w, tool)))
      BY <2>3, TotalIs, FS_EmptySet
    <2>5. \A A \in SUBSET {} : Tokens(<< >>, A) = 0
      BY FS_EmptySet DEF Tokens
    <2>6. TokensOfRun(w) = 0 /\ Tokens(recorded[w], OfTool(recorded[w], tool)) = 0
      BY <1>1, <2>1, <2>5 DEF TokensOfRun
    <2>7. before[w] = 0 /\ doing[w] = NoTag
      OBVIOUS
    <2>8. QED
      BY <2>4, <2>6, <2>7
  <1>7. EventsKnown
    BY <1>1 DEF EventsKnown, EventsOf, Unread
  <1>8. ToldKnown
    BY DEF ToldKnown, Unread
  <1>9. RowsKnown
    BY DEF RowsKnown, Unread
  <1>10. QED
    BY <1>2, <1>3, <1>4, <1>5, <1>6, <1>7, <1>8, <1>9 DEF LedgerInv

(* What was recorded, told and stored of a run stays true while its calls   *)
(* are the same and it does not go back.                                    *)
LEMMA AccountsStay ==
  ASSUME LedgerInv, UNCHANGED <<recorded, made, events, rows, told>>,
         \A w \in Workflows : /\ phase'[w] \in {"reported", "answered"} => phase[w] \in {"reported", "answered"}
                              /\ phase[w] = "answered" => phase'[w] = "answered" /\ asked'[w] = asked[w]
  PROVE  RecordsKnown' /\ EventsKnown' /\ ToldKnown' /\ RowsKnown'
  <1>1. RecordsKnown'
    BY DEF LedgerInv, RecordsKnown, Recordable
  <1>2. \A w \in Workflows : told[w].persisted => asked'[w] = asked[w] /\ phase'[w] = "answered"
    BY DEF LedgerInv, ToldKnown
  <1>3. EventsKnown'
    <2>1. \A w \in Workflows : EventsOf(w)' = EventsOf(w)
      BY DEF EventsOf
    <2>2. \A w \in Workflows : told[w].persisted => \A k : EventOf(w, k)' = EventOf(w, k)
      BY <1>2 DEF EventOf
    <2>3. QED
      BY <2>1, <2>2 DEF LedgerInv, EventsKnown
  <1>4. ToldKnown'
    BY <1>2 DEF LedgerInv, ToldKnown, TokensOfRun
  <1>5. RowsKnown'
    <2>1. \A row \in rows : asked'[row.workflow] = asked[row.workflow]
      BY <1>2 DEF LedgerInv, RowsKnown
    <2>2. \A w \in Workflows : told[w].persisted => asked'[w] = asked[w]
      BY <1>2
    <2>3. QED
      BY <2>1, <2>2 DEF LedgerInv, RowsKnown
  <1>6. QED
    BY <1>1, <1>3, <1>4, <1>5

LEMMA StepsStay ==
  ASSUME LedgerInv, UNCHANGED <<recorded, steps, doing, before>>,
         \A w \in Workflows : phase[w] = "raised" => phase'[w] = "raised"
  PROVE  StepsAddUp'
  <1>1. \A w \in Workflows : TokensOfRun(w)' = TokensOfRun(w)
    BY DEF TokensOfRun
  <1>2. \A w \in Workflows, tool \in AllTools : StepTokens(w, tool)' = StepTokens(w, tool)
    BY DEF StepTokens
  <1>3. QED
    BY <1>1, <1>2 DEF LedgerInv, StepsAddUp

(* The threads of other runs go on as they are.                             *)
OthersThreads(w) ==
  /\ \A t \in DOMAIN context' : t[1] # w => t \in DOMAIN context /\ context'[t] = context[t]
  /\ \A v \in Workflows \ {w} : /\ Main(v) \in DOMAIN context => Main(v) \in DOMAIN context'
                                /\ phase'[v] = phase[v] /\ doing'[v] = doing[v] /\ drafted'[v] = drafted[v]

LEMMA OthersThreadsStay ==
  ASSUME LedgerInv, NEW w \in Workflows, OthersThreads(w)
  PROVE  /\ \A t \in DOMAIN context' : t[1] # w =>
              /\ t = <<t[1], t[2]>> /\ t[1] \in Workflows /\ phase'[t[1]] = "running"
              /\ t[2] = "main" => context'[t] = MainContext(t[1])'
              /\ t[2] # "main" => /\ drafted'[t[1]] = "all" /\ doing'[t[1]] # NoTag
                                  /\ context'[t] = PoolContext(t[1], t[2])'
         /\ \A v \in Workflows \ {w} :
              /\ phase'[v] = "running" => Main(v) \in DOMAIN context'
              /\ doing'[v] # NoTag => phase'[v] = "running" /\ doing'[v] \in AllTools
              /\ doing'[v] = NoTag => drafted'[v] = "none"
              /\ drafted'[v] = "first" => doing'[v] \in DOMAIN Drafting
  <1>1. \A v \in Workflows \ {w} : MainContext(v)' = MainContext(v) /\ \A name : PoolContext(v, name)' = PoolContext(v, name)
    BY DEF OthersThreads, MainContext, PoolContext
  <1>2. ASSUME NEW t \in DOMAIN context', t[1] # w
        PROVE  /\ t = <<t[1], t[2]>> /\ t[1] \in Workflows /\ phase'[t[1]] = "running"
               /\ t[2] = "main" => context'[t] = MainContext(t[1])'
               /\ t[2] # "main" => /\ drafted'[t[1]] = "all" /\ doing'[t[1]] # NoTag
                                   /\ context'[t] = PoolContext(t[1], t[2])'
    <2>1. t \in DOMAIN context /\ context'[t] = context[t]
      BY <1>2 DEF OthersThreads
    <2>2. /\ t = <<t[1], t[2]>> /\ t[1] \in Workflows \ {w} /\ phase[t[1]] = "running"
          /\ t[2] = "main" => context[t] = MainContext(t[1])
          /\ t[2] # "main" => /\ drafted[t[1]] = "all" /\ doing[t[1]] # NoTag
                              /\ context[t] = PoolContext(t[1], t[2])
      BY <1>2, <2>1 DEF LedgerInv, ThreadsKnown
    <2>3. phase'[t[1]] = phase[t[1]] /\ doing'[t[1]] = doing[t[1]] /\ drafted'[t[1]] = drafted[t[1]]
      BY <2>2 DEF OthersThreads
    <2>4. QED
      BY <1>1, <2>1, <2>2, <2>3
  <1>3. QED
    BY <1>2 DEF OthersThreads, LedgerInv, WorkKnown

LEMMA OpenRunKeeps ==
  ASSUME LedgerAssumption, LedgerInv, NEW w \in Workflows, OpenRun(w)
  PROVE  LedgerInv'
  <1> USE DEF OpenRun
  <1>1. LedgerTyped'
    BY DEF LedgerInv, LedgerTyped
  <1>2. /\ DOMAIN context' = DOMAIN context \cup {Main(w)}
        /\ context'[Main(w)] = [run |-> w, tool |-> NoTag, section |-> NoTag]
        /\ \A t \in DOMAIN context : t # Main(w) => context'[t] = context[t]
    BY DEF Put, Over
  <1>3. \A t \in DOMAIN context : t[1] # w
    BY DEF LedgerInv, ThreadsKnown
  <1>4. doing[w] = NoTag /\ drafted[w] = "none"
    BY DEF LedgerInv, WorkKnown
  <1>5. phase' = [phase EXCEPT ![w] = "running"] /\ DOMAIN phase = Workflows
    BY DEF LedgerInv, LedgerTyped
  <1>6. OthersThreads(w)
    BY <1>2, <1>5 DEF OthersThreads, Main
  <1>7. MainContext(w)' = context'[Main(w)]
    BY <1>2, <1>4 DEF MainContext
  <1>8. ThreadsKnown' /\ WorkKnown'
    <2>1. \A t \in DOMAIN context' : t[1] = w => t = Main(w)
      BY <1>2, <1>3
    <2>2. Main(w) = <<w, "main">> /\ phase'[w] = "running"
      BY <1>5 DEF Main
    <2>3. ThreadsKnown'
      BY <1>6, <1>7, <2>1, <2>2, OthersThreadsStay DEF ThreadsKnown
    <2>4. WorkKnown'
      BY <1>2, <1>4, <1>6, <2>2, OthersThreadsStay DEF WorkKnown
    <2>5. QED
      BY <2>3, <2>4
  <1>9. \A v \in Workflows : /\ phase'[v] \in {"reported", "answered"} => phase[v] \in {"reported", "answered"}
                             /\ phase[v] = "answered" => phase'[v] = "answered" /\ asked'[v] = asked[v]
                             /\ phase[v] = "raised" => phase'[v] = "raised"
    BY <1>5 DEF LedgerInv, LedgerTyped
  <1>10. RecordsKnown' /\ EventsKnown' /\ ToldKnown' /\ RowsKnown' /\ StepsAddUp'
    BY <1>9, AccountsStay, StepsStay
  <1>11. QED
    BY <1>1, <1>8, <1>10 DEF LedgerInv

(* What a tool does while it drafts changes threads and what they say.      *)
LEMMA BeginFirstKeeps ==
  ASSUME LedgerAssumption, LedgerInv, NEW w \in Workflows, BeginFirst(w)
  PROVE  LedgerInv'
  <1> USE DEF BeginFirst
  <1>1. LedgerTyped'
    BY DEF LedgerInv, LedgerTyped
  <1>2. doing[w] \in DOMAIN Drafting /\ doing[w] # NoTag /\ phase[w] = "running" /\ Main(w) \in DOMAIN context
    BY DEF LedgerInv, WorkKnown, LedgerAssumption
  <1>3. drafted[w] = "none" /\ drafted' = [drafted EXCEPT ![w] = "first"] /\ DOMAIN drafted = Workflows
    BY DEF LedgerInv, LedgerTyped
  <1>4. \A t \in DOMAIN context : t[1] = w => t = Main(w)
    BY <1>3 DEF LedgerInv, ThreadsKnown, Main
  <1>5. context[Main(w)] = MainContext(w)
    BY <1>2 DEF LedgerInv, ThreadsKnown, Main
  <1>6. /\ DOMAIN context' = DOMAIN context
        /\ context'[Main(w)] = [run |-> w, tool |-> doing[w], section |-> Head(Drafting[doing[w]])]
        /\ \A t \in DOMAIN context : t # Main(w) => context'[t] = context[t]
    BY <1>2, <1>5 DEF MainContext
  <1>7. OthersThreads(w)
    BY <1>3, <1>6 DEF OthersThreads, Main
  <1>8. MainContext(w)' = context'[Main(w)]
    BY <1>3, <1>6 DEF MainContext
  <1>9. ThreadsKnown' /\ WorkKnown'
    <2>1. Main(w) = <<w, "main">> /\ drafted'[w] = "first"
      BY <1>3 DEF Main
    <2>2. ThreadsKnown'
      BY <1>2, <1>4, <1>6, <1>7, <1>8, <2>1, OthersThreadsStay DEF ThreadsKnown
    <2>3. WorkKnown'
      BY <1>2, <1>6, <1>7, <2>1, OthersThreadsStay DEF LedgerInv, WorkKnown
    <2>4. QED
      BY <2>2, <2>3
  <1>10. RecordsKnown' /\ EventsKnown' /\ ToldKnown' /\ RowsKnown' /\ StepsAddUp'
    BY AccountsStay, StepsStay
  <1>11. QED
    BY <1>1, <1>9, <1>10 DEF LedgerInv

LEMMA BeginVendorsKeeps ==
  ASSUME LedgerAssumption, LedgerInv, NEW w \in Workflows, BeginVendors(w)
  PROVE  LedgerInv'
  <1> USE DEF BeginVendors
  <1>1. LedgerTyped'
    BY DEF LedgerInv, LedgerTyped
  <1>2. doing[w] # NoTag /\ phase[w] = "running" /\ Main(w) \in DOMAIN context
    BY DEF LedgerInv, WorkKnown, LedgerAssumption
  <1>3. drafted[w] = "none" /\ drafted' = [drafted EXCEPT ![w] = "all"] /\ DOMAIN drafted = Workflows
    BY DEF LedgerInv, LedgerTyped
  <1>4. \A t \in DOMAIN context : t[1] = w => t = Main(w)
    BY <1>3 DEF LedgerInv, ThreadsKnown, Main
  <1>5. context[Main(w)] = MainContext(w)
    BY <1>2 DEF LedgerInv, ThreadsKnown, Main
  <1>6. PICK vendor : vendor = <<w, "vendor">>
    OBVIOUS
  <1>7. /\ DOMAIN context' = DOMAIN context \cup {vendor}
        /\ context'[vendor] = [run |-> NoTag, tool |-> NoTag, section |-> NoTag]
        /\ \A t \in DOMAIN context : t # vendor => context'[t] = context[t]
    BY <1>6 DEF Put, Over
  <1>8. vendor[1] = w /\ vendor[2] = "vendor" /\ vendor = <<vendor[1], vendor[2]>> /\ vendor # Main(w)
    BY <1>6 DEF Main
  <1>9. OthersThreads(w)
    BY <1>3, <1>7, <1>8 DEF OthersThreads, Main
  <1>10. MainContext(w)' = context'[Main(w)] /\ PoolContext(w, "vendor")' = context'[vendor]
    <2>1. context'[Main(w)] = context[Main(w)]
      BY <1>2, <1>7, <1>8
    <2>2. MainContext(w)' = MainContext(w)
      BY <1>3 DEF MainContext
    <2>3. QED
      BY <1>5, <1>7, <2>1, <2>2 DEF PoolContext
  <1>11. ThreadsKnown' /\ WorkKnown'
    <2>1. Main(w) = <<w, "main">> /\ drafted'[w] = "all"
      BY <1>3 DEF Main
    <2>2. ASSUME NEW t \in DOMAIN context', t[1] = w
          PROVE  t = Main(w) \/ t = vendor
      BY <1>4, <1>7, <2>2
    <2>3. ThreadsKnown'
      BY <1>2, <1>7, <1>8, <1>9, <1>10, <2>1, <2>2, OthersThreadsStay DEF ThreadsKnown
    <2>4. WorkKnown'
      BY <1>2, <1>7, <1>9, <2>1, OthersThreadsStay DEF LedgerInv, WorkKnown
    <2>5. QED
      BY <2>3, <2>4
  <1>12. RecordsKnown' /\ EventsKnown' /\ ToldKnown' /\ RowsKnown' /\ StepsAddUp'
    BY AccountsStay, StepsStay
  <1>13. QED
    BY <1>1, <1>11, <1>12 DEF LedgerInv

LEMMA BeginRestKeeps ==
  ASSUME LedgerAssumption, LedgerInv, NEW w \in Workflows, BeginRest(w)
  PROVE  LedgerInv'
  <1> USE DEF BeginRest
  <1>1. LedgerTyped'
    BY DEF LedgerInv, LedgerTyped
  <1>2. /\ doing[w] \in DOMAIN Drafting /\ doing[w] # NoTag /\ phase[w] = "running" /\ Main(w) \in DOMAIN context
        /\ doing[w] \in AllTools
    BY DEF LedgerInv, WorkKnown, LedgerAssumption
  <1>3. drafted[w] = "first" /\ drafted' = [drafted EXCEPT ![w] = "all"] /\ DOMAIN drafted = Workflows
    BY DEF LedgerInv, LedgerTyped
  <1>4. \A t \in DOMAIN context : t[1] = w => t = Main(w)
    BY <1>3 DEF LedgerInv, ThreadsKnown, Main
  <1>5. context[Main(w)] = MainContext(w)
    BY <1>2 DEF LedgerInv, ThreadsKnown, Main
  <1>6. PICK c : c = [context[Main(w)] EXCEPT !.section = NoTag]
    OBVIOUS
  <1>7. c = [run |-> w, tool |-> doing[w], section |-> NoTag]
    BY <1>5, <1>6 DEF MainContext
  <1>8. PICK rest : rest = {<<w, s>> : s \in ToSet(Tail(Drafting[doing[w]]))}
    OBVIOUS
  <1>9. ToSet(Tail(Drafting[doing[w]])) \cap {"main", "vendor"} = {}
    <2>1. PICK d : d = Drafting[doing[w]]
      OBVIOUS
    <2>2. IsList(d) /\ d # << >> /\ {"main", "vendor", NoTag} \cap ToSet(d) = {}
      BY <1>2, <2>1 DEF LedgerAssumption
    <2>3. d \in Seq(ToSet(d))
      BY <2>2, ListIs
    <2>4. Tail(d) \in Seq(ToSet(d))
      BY <2>2, <2>3
    <2>5. ToSet(Tail(d)) \in SUBSET ToSet(d)
      <3>1. \A i \in DOMAIN Tail(d) : Tail(d)[i] \in ToSet(d)
        BY <2>4
      <3>2. QED
        BY <3>1 DEF ToSet
    <2>6. QED
      BY <2>1, <2>2, <2>5
  <1>10. \A t \in rest : t[1] = w /\ t = <<t[1], t[2]>> /\ t # Main(w) /\ t[2] \notin {"main", "vendor"}
    BY <1>8, <1>9 DEF Main
  <1>11. /\ DOMAIN context' = DOMAIN context \cup rest
         /\ context'[Main(w)] = c
         /\ \A t \in rest : context'[t] = [run |-> w, tool |-> doing[w], section |-> t[2]]
         /\ \A t \in DOMAIN context : t \notin rest /\ t # Main(w) => context'[t] = context[t]
    <2>1. PICK new : new = [t \in rest |-> [Copied(c) EXCEPT !.section = t[2]]]
      OBVIOUS
    <2>2. context' = [Started(new) EXCEPT ![Main(w)] = c]
      BY <1>6, <1>8, <2>1
    <2>3. DOMAIN new = rest /\ \A t \in rest : new[t] = [run |-> w, tool |-> doing[w], section |-> t[2]]
      BY <1>7, <2>1 DEF Copied
    <2>4. /\ DOMAIN Started(new) = DOMAIN context \cup rest
          /\ \A t \in rest : Started(new)[t] = new[t]
          /\ \A t \in DOMAIN context \ rest : Started(new)[t] = context[t]
      BY <2>3 DEF Started, Over
    <2>5. Started(new) = [t \in DOMAIN context \cup rest |-> Started(new)[t]]
      BY <2>3 DEF Started, Over
    <2>6. Main(w) \in DOMAIN context \cup rest
      BY <1>2
    <2>7. \A t \in DOMAIN context \cup rest : context'[t] = IF t = Main(w) THEN c ELSE Started(new)[t]
      BY <2>2, <2>4, <2>5
    <2>8. DOMAIN context' = DOMAIN context \cup rest
      BY <2>2, <2>4
    <2>9. QED
      BY <1>10, <2>3, <2>4, <2>6, <2>7, <2>8
  <1>u. UNCHANGED <<phase, asked, doing, before, steps, recorded, told, rows, events, made>>
    OBVIOUS
  <1> HIDE DEF BeginRest
  <1>12. OthersThreads(w)
    <2>1. \A t \in DOMAIN context' : t[1] # w => t \in DOMAIN context /\ context'[t] = context[t]
      BY <1>10, <1>11 DEF Main
    <2>2. QED
      BY <1>3, <1>11, <1>u, <2>1 DEF OthersThreads
  <1>13. MainContext(w)' = context'[Main(w)] /\ \A t \in rest : PoolContext(w, t[2])' = context'[t]
    BY <1>u, <1>3, <1>7, <1>10, <1>11 DEF MainContext, PoolContext
  <1>14. ThreadsKnown' /\ WorkKnown'
    <2>1. Main(w) = <<w, "main">> /\ drafted'[w] = "all" /\ doing'[w] = doing[w] /\ phase'[w] = phase[w]
      BY <1>u, <1>3 DEF Main
    <2>2. ASSUME NEW t \in DOMAIN context', t[1] = w
          PROVE  t = Main(w) \/ t \in rest
      BY <1>4, <1>11, <2>2
    <2>3. ASSUME NEW t \in DOMAIN context', t[1] = w
          PROVE  /\ t = <<t[1], t[2]>> /\ t[1] \in Workflows /\ phase'[t[1]] = "running"
                 /\ t[2] = "main" => context'[t] = MainContext(t[1])'
                 /\ t[2] # "main" => /\ drafted'[t[1]] = "all" /\ doing'[t[1]] # NoTag
                                     /\ context'[t] = PoolContext(t[1], t[2])'
      <3>1. CASE t = Main(w)
        <4>1. t[2] = "main" /\ t = <<t[1], t[2]>>
          BY <2>1, <3>1
        <4>2. QED
          BY <1>2, <1>13, <2>1, <2>3, <3>1, <4>1
      <3>2. CASE t \in rest
        <4>1. t[2] # "main" /\ t = <<t[1], t[2]>> /\ context'[t] = PoolContext(w, t[2])'
          BY <1>10, <1>13, <3>2
        <4>2. QED
          BY <1>2, <2>1, <2>3, <4>1
      <3>3. QED
        BY <2>2, <2>3, <3>1, <3>2
    <2>4. ThreadsKnown'
      BY <1>12, <2>3, OthersThreadsStay DEF ThreadsKnown
    <2>5. WorkKnown'
      BY <1>2, <1>11, <1>12, <2>1, OthersThreadsStay DEF WorkKnown
    <2>6. QED
      BY <2>4, <2>5
  <1>15. RecordsKnown' /\ EventsKnown' /\ ToldKnown' /\ RowsKnown' /\ StepsAddUp'
    BY <1>u, AccountsStay, StepsStay
  <1>16. QED
    BY <1>1, <1>14, <1>15 DEF LedgerInv

LEMMA EndThreadKeeps ==
  ASSUME LedgerInv, NEW t \in DOMAIN context, EndThread(t)
  PROVE  LedgerInv'
  <1> USE DEF EndThread
  <1>1. LedgerTyped' /\ WorkKnown'
    <2>1. t # Main(t[1]) /\ t = <<t[1], t[2]>>
      BY DEF Pool, LedgerInv, ThreadsKnown
    <2>2. \A v : Main(v) \in DOMAIN context => Main(v) \in DOMAIN context'
      BY <2>1 DEF Ended, Main
    <2>3. QED
      BY <2>2 DEF LedgerInv, LedgerTyped, WorkKnown
  <1>2. ThreadsKnown'
    <2>1. \A u \in DOMAIN context' : u \in DOMAIN context /\ context'[u] = context[u]
      BY DEF Ended
    <2>2. \A v : MainContext(v)' = MainContext(v) /\ \A name : PoolContext(v, name)' = PoolContext(v, name)
      BY DEF MainContext, PoolContext
    <2>3. QED
      BY <2>1, <2>2 DEF LedgerInv, ThreadsKnown
  <1>3. RecordsKnown' /\ EventsKnown' /\ ToldKnown' /\ RowsKnown' /\ StepsAddUp'
    BY AccountsStay, StepsStay
  <1>4. QED
    BY <1>1, <1>2, <1>3 DEF LedgerInv

LEMMA TokensIn ==
  ASSUME NEW calls, IsList(calls), NEW at \in SUBSET DOMAIN calls
  PROVE  Tokens(calls, at) \in Nat
  <1>1. IsFiniteSet(DOMAIN calls)
    BY ListIs
  <1>2. PICK A : A = {i \in at : calls[i].kind = "model"}
    OBVIOUS
  <1>3. A \in SUBSET DOMAIN calls
    BY <1>2
  <1>4. QED
    BY <1>1, <1>2, <1>3, FS_Subset, FS_CardinalityType DEF Tokens

LEMMA RunTokensIn ==
  ASSUME LedgerInv, NEW w \in Workflows
  PROVE  TokensOfRun(w) \in Nat
  BY TokensIn DEF LedgerInv, LedgerTyped, TokensOfRun

LEMMA BeginToolKeeps ==
  ASSUME LedgerAssumption, LedgerInv, NEW w \in Workflows, BeginTool(w)
  PROVE  LedgerInv'
  <1>1. PICK tool \in asked[w].tools :
          /\ doing' = [doing EXCEPT ![w] = tool]
          /\ context' = [context EXCEPT ![Main(w)].tool = tool]
          /\ drafted' = [drafted EXCEPT ![w] = IF tool \in DOMAIN Drafting \cup Spenders THEN "none" ELSE "all"]
    BY DEF BeginTool
  <1>2. /\ phase[w] = "running" /\ doing[w] = NoTag /\ before' = [before EXCEPT ![w] = TokensOfRun(w)]
        /\ UNCHANGED <<phase, asked, steps, recorded, told, rows, events, made>>
    BY DEF BeginTool
  <1>3. tool \in AllTools /\ tool # NoTag
    BY <1>2 DEF LedgerInv, LedgerTyped, LedgerAssumption, AllTools
  <1>4. drafted[w] = "none" /\ Main(w) \in DOMAIN context
    BY <1>2 DEF LedgerInv, WorkKnown
  <1>5. TokensOfRun(w) \in Nat
    BY RunTokensIn
  <1>6. LedgerTyped'
    BY <1>1, <1>2, <1>5 DEF LedgerInv, LedgerTyped
  <1>7. \A t \in DOMAIN context : t[1] = w => t = Main(w)
    BY <1>4 DEF LedgerInv, ThreadsKnown, Main
  <1>8. context[Main(w)] = [run |-> w, tool |-> NoTag, section |-> NoTag]
    BY <1>2, <1>4 DEF LedgerInv, ThreadsKnown, Main, MainContext
  <1>9. /\ DOMAIN context' = DOMAIN context
        /\ context'[Main(w)] = [run |-> w, tool |-> tool, section |-> NoTag]
        /\ \A t \in DOMAIN context : t # Main(w) => context'[t] = context[t]
    BY <1>1, <1>4, <1>8
  <1>10. /\ doing'[w] = tool /\ drafted'[w] \in {"none", "all"}
         /\ \A v \in Workflows \ {w} : doing'[v] = doing[v] /\ drafted'[v] = drafted[v] /\ before'[v] = before[v]
         /\ before'[w] = TokensOfRun(w)
    BY <1>1, <1>2 DEF LedgerInv, LedgerTyped
  <1>11. OthersThreads(w)
    BY <1>2, <1>9, <1>10 DEF OthersThreads, Main
  <1>12. MainContext(w)' = context'[Main(w)]
    BY <1>9, <1>10 DEF MainContext
  <1>13. ThreadsKnown' /\ WorkKnown'
    <2>1. Main(w) = <<w, "main">> /\ phase'[w] = "running"
      BY <1>2 DEF Main
    <2>2. ThreadsKnown'
      BY <1>7, <1>9, <1>11, <1>12, <2>1, OthersThreadsStay DEF ThreadsKnown
    <2>3. WorkKnown'
      BY <1>3, <1>4, <1>9, <1>10, <1>11, <2>1, OthersThreadsStay DEF WorkKnown
    <2>4. QED
      BY <2>2, <2>3
  <1>14. RecordsKnown' /\ EventsKnown' /\ ToldKnown' /\ RowsKnown'
    BY <1>2, AccountsStay
  <1>15. StepsAddUp'
    <2>1. \A v \in Workflows : TokensOfRun(v)' = TokensOfRun(v)
      BY <1>2 DEF TokensOfRun
    <2>2. \A v \in Workflows, each \in AllTools : StepTokens(v, each)' = StepTokens(v, each)
      BY <1>2 DEF StepTokens
    <2>3. TokensOfRun(w) - TokensOfRun(w) = 0 /\ TokensOfRun(w) <= TokensOfRun(w)
      BY <1>5
    <2>4. \A each \in AllTools : each # NoTag
      BY DEF AllTools, LedgerAssumption
    <2>5. \A each \in AllTools :
             phase[w] # "raised" => Total(StepTokens(w, each)) + 0 = Tokens(recorded[w], OfTool(recorded[w], each))
      BY <1>2, <2>4 DEF LedgerInv, StepsAddUp
    <2>6. \A each \in AllTools : (IF doing'[w] = each THEN TokensOfRun(w)' - before'[w] ELSE 0) = 0
      BY <1>10, <2>1, <2>3
    <2>7. QED
      BY <1>2, <1>10, <2>1, <2>2, <2>3, <2>5, <2>6 DEF LedgerInv, StepsAddUp
  <1>16. QED
    BY <1>6, <1>13, <1>14, <1>15 DEF LedgerInv

LEMMA EndToolKeeps ==
  ASSUME LedgerAssumption, LedgerInv, NEW w \in Workflows, EndTool(w)
  PROVE  LedgerInv'
  <1>1. /\ doing[w] # NoTag /\ drafted[w] = "all" /\ Pool(w) = {}
        /\ steps' = [steps EXCEPT ![w] = Append(@, [tool |-> doing[w], tokens |-> TokensOfRun(w) - before[w]])]
        /\ context' = [context EXCEPT ![Main(w)].tool = NoTag]
        /\ doing' = [doing EXCEPT ![w] = NoTag] /\ drafted' = [drafted EXCEPT ![w] = "none"]
        /\ before' = [before EXCEPT ![w] = 0]
        /\ UNCHANGED <<phase, asked, recorded, told, rows, events, made>>
    BY DEF EndTool
  <1>2. phase[w] = "running" /\ doing[w] \in AllTools /\ Main(w) \in DOMAIN context
    BY <1>1 DEF LedgerInv, WorkKnown
  <1>3. TokensOfRun(w) \in Nat /\ before[w] \in Nat /\ before[w] <= TokensOfRun(w)
    BY <1>1, RunTokensIn DEF LedgerInv, LedgerTyped, StepsAddUp
  <1>4. PICK spent \in Nat : spent = TokensOfRun(w) - before[w]
    BY <1>3
  <1>5. PICK s, x, t : s = steps[w] /\ x = [tool |-> doing[w], tokens |-> spent] /\ t = Append(s, x)
    OBVIOUS
  <1>6. steps'[w] = t /\ \A v \in Workflows \ {w} : steps'[v] = steps[v]
    BY <1>1, <1>4, <1>5 DEF LedgerInv, LedgerTyped
  <1>7. IsList(s)
    BY <1>5 DEF LedgerInv, LedgerTyped
  <1>8. PICK n : n = Len(t)
    OBVIOUS
  <1>9. /\ IsList(t) /\ DOMAIN t = DOMAIN s \cup {n} /\ n \notin DOMAIN s
        /\ t[n] = x /\ \A i \in DOMAIN s : t[i] = s[i]
    <2>1. t = Append(s, x)
      BY <1>5
    <2>2. DOMAIN t = DOMAIN s \cup {Len(t)} /\ Len(t) \notin DOMAIN s
      BY <1>7, <2>1, ListGrows
    <2>3. t[Len(t)] = x /\ \A i \in DOMAIN s : t[i] = s[i]
      BY <1>7, <2>1, ListGrows
    <2>4. IsList(t)
      BY <1>7, <2>1, ListGrows
    <2>5. QED
      BY <1>8, <2>2, <2>3, <2>4
  <1>10. /\ doing'[w] = NoTag /\ drafted'[w] = "none" /\ before'[w] = 0
         /\ \A v \in Workflows \ {w} : doing'[v] = doing[v] /\ drafted'[v] = drafted[v] /\ before'[v] = before[v]
    BY <1>1 DEF LedgerInv, LedgerTyped
  <1>11. LedgerTyped'
    <2>1. /\ DOMAIN steps' = Workflows /\ DOMAIN doing' = Workflows /\ DOMAIN drafted' = Workflows
          /\ DOMAIN before' = Workflows
      BY <1>1 DEF LedgerInv, LedgerTyped
    <2>2. \A i \in DOMAIN t : t[i].tool \in AllTools /\ t[i].tokens \in Nat
      BY <1>2, <1>5, <1>9 DEF LedgerInv, LedgerTyped
    <2>3. \A v \in Workflows : /\ IsList(steps'[v]) /\ before'[v] \in Nat
                               /\ \A i \in DOMAIN steps'[v] : steps'[v][i].tool \in AllTools /\ steps'[v][i].tokens \in Nat
      BY <1>6, <1>9, <1>10, <2>2 DEF LedgerInv, LedgerTyped
    <2>4. QED
      BY <1>1, <2>1, <2>3 DEF LedgerInv, LedgerTyped
  <1>12. \A u \in DOMAIN context : u[1] = w => u = Main(w)
    BY <1>1 DEF Pool
  <1>13. context[Main(w)] = [run |-> w, tool |-> doing[w], section |-> NoTag]
    BY <1>1, <1>2 DEF LedgerInv, ThreadsKnown, Main, MainContext
  <1>14. /\ DOMAIN context' = DOMAIN context
         /\ context'[Main(w)] = [run |-> w, tool |-> NoTag, section |-> NoTag]
         /\ \A u \in DOMAIN context : u # Main(w) => context'[u] = context[u]
    BY <1>1, <1>2, <1>13
  <1>15. OthersThreads(w)
    BY <1>1, <1>10, <1>14 DEF OthersThreads, Main
  <1>16. MainContext(w)' = context'[Main(w)]
    BY <1>10, <1>14 DEF MainContext
  <1>17. ThreadsKnown' /\ WorkKnown'
    <2>1. Main(w) = <<w, "main">> /\ phase'[w] = "running"
      BY <1>1, <1>2 DEF Main
    <2>2. ThreadsKnown'
      BY <1>12, <1>14, <1>15, <1>16, <2>1, OthersThreadsStay DEF ThreadsKnown
    <2>3. WorkKnown'
      BY <1>2, <1>10, <1>14, <1>15, <2>1, OthersThreadsStay DEF WorkKnown
    <2>4. QED
      BY <2>2, <2>3
  <1>18. RecordsKnown' /\ EventsKnown' /\ ToldKnown' /\ RowsKnown'
    BY <1>1, AccountsStay
  <1>19. StepsAddUp'
    <2>1. \A v \in Workflows : TokensOfRun(v)' = TokensOfRun(v)
      BY <1>1 DEF TokensOfRun
    <2>2. \A v \in Workflows \ {w}, each \in AllTools : StepTokens(v, each)' = StepTokens(v, each)
      BY <1>6 DEF StepTokens
    <2>3. \A each \in AllTools : each # NoTag
      BY DEF AllTools, LedgerAssumption
    <2>4. ASSUME NEW each \in AllTools
          PROVE  /\ IsFiniteSet(Counted(StepTokens(w, each)'))
                 /\ Total(StepTokens(w, each)') = Total(StepTokens(w, each)) + (IF doing[w] = each THEN spent ELSE 0)
      <3>1. PICK f, g : f = StepTokens(w, each)' /\ g = StepTokens(w, each)
        OBVIOUS
      <3>2. f = [i \in OfTool(t, each) |-> t[i].tokens] /\ g = [i \in OfTool(s, each) |-> s[i].tokens]
        BY <1>5, <1>6, <3>1 DEF StepTokens
      <3>3. IsFiniteSet(Counted(g))
        BY <3>1 DEF LedgerInv, StepsAddUp
      <3>4. Total(g) \in Nat
        BY <3>3, TotalIs, FS_CardinalityType
      <3>5. CASE doing[w] = each
        <4>1. OfTool(t, each) = OfTool(s, each) \cup {n} /\ n \notin OfTool(s, each)
          BY <1>5, <1>9, <3>5 DEF OfTool
        <4>2. DOMAIN f = DOMAIN g \cup {n} /\ n \notin DOMAIN g
          BY <3>2, <4>1
        <4>3. f[n] = spent /\ spent \in Nat
          BY <1>5, <1>9, <3>2, <4>1
        <4>4. \A i \in DOMAIN g : f[i] = g[i]
          BY <1>9, <3>2, <4>1 DEF OfTool
        <4>5. IsFiniteSet(Counted(f)) /\ Total(f) = Total(g) + f[n]
          BY <3>3, <4>2, <4>3, <4>4, OneMoreTerm
        <4>6. QED
          BY <3>1, <3>5, <4>3, <4>5
      <3>6. CASE doing[w] # each
        <4>1. OfTool(t, each) = OfTool(s, each)
          BY <1>5, <1>9, <3>6 DEF OfTool
        <4>2. f = g
          BY <1>9, <3>2, <4>1 DEF OfTool
        <4>3. QED
          BY <3>1, <3>3, <3>4, <3>6, <4>2
      <3>7. QED
        BY <3>5, <3>6
    <2>5. ASSUME NEW each \in AllTools
          PROVE  Total(StepTokens(w, each)') + 0 = Tokens(recorded[w], OfTool(recorded[w], each))
      <3>1. Total(StepTokens(w, each)) + (IF doing[w] = each THEN TokensOfRun(w) - before[w] ELSE 0)
              = Tokens(recorded[w], OfTool(recorded[w], each))
        BY <1>2 DEF LedgerInv, StepsAddUp
      <3>2. Total(StepTokens(w, each)') = Tokens(recorded[w], OfTool(recorded[w], each))
        BY <1>4, <2>4, <3>1
      <3>3. Total(StepTokens(w, each)') \in Nat
        BY <2>4, TotalIs, FS_CardinalityType
      <3>4. QED
        BY <3>2, <3>3
    <2>6. \A each \in AllTools : (IF doing'[w] = each THEN TokensOfRun(w)' - before'[w] ELSE 0) = 0
      BY <1>10, <2>3
    <2>7. ASSUME NEW v \in Workflows \ {w}
          PROVE  /\ doing'[v] # NoTag => before'[v] <= TokensOfRun(v)'
                 /\ \A each \in AllTools :
                      /\ IsFiniteSet(Counted(StepTokens(v, each)'))
                      /\ phase'[v] # "raised" =>
                           Total(StepTokens(v, each)') + (IF doing'[v] = each THEN TokensOfRun(v)' - before'[v] ELSE 0)
                             = Tokens(recorded'[v], OfTool(recorded'[v], each))
      BY <1>1, <1>10, <2>1, <2>2 DEF LedgerInv, StepsAddUp
    <2>8. /\ doing'[w] # NoTag => before'[w] <= TokensOfRun(w)'
          /\ \A each \in AllTools :
               /\ IsFiniteSet(Counted(StepTokens(w, each)'))
               /\ phase'[w] # "raised" =>
                    Total(StepTokens(w, each)') + (IF doing'[w] = each THEN TokensOfRun(w)' - before'[w] ELSE 0)
                      = Tokens(recorded'[w], OfTool(recorded'[w], each))
      BY <1>1, <1>10, <2>4, <2>5, <2>6
    <2>9. QED
      BY <2>7, <2>8 DEF StepsAddUp, Counted
  <1>20. QED
    BY <1>11, <1>17, <1>18, <1>19 DEF LedgerInv

(* A run that is left has no thread any more.                               *)
LEMMA ThreadsEnd ==
  ASSUME LedgerInv, NEW w \in Workflows, context' = Ended(Main(w)),
         \A t \in DOMAIN context : t[1] = w => t = Main(w),
         phase'[w] # "running", doing'[w] = NoTag, drafted'[w] = "none",
         \A v \in Workflows \ {w} : phase'[v] = phase[v] /\ doing'[v] = doing[v] /\ drafted'[v] = drafted[v]
  PROVE  ThreadsKnown' /\ WorkKnown'
  <1>1. \A t \in DOMAIN context' : t[1] # w /\ t \in DOMAIN context /\ context'[t] = context[t]
    BY DEF Ended
  <1>2. \A v \in Workflows \ {w} : Main(v) \in DOMAIN context => Main(v) \in DOMAIN context'
    BY DEF Ended, Main
  <1>3. OthersThreads(w)
    BY <1>1, <1>2 DEF OthersThreads
  <1>4. ThreadsKnown'
    BY <1>1, <1>3, OthersThreadsStay DEF ThreadsKnown
  <1>5. WorkKnown'
    BY <1>3, OthersThreadsStay DEF WorkKnown
  <1>6. QED
    BY <1>4, <1>5

LEMMA RaiseFatalKeeps ==
  ASSUME LedgerAssumption, LedgerInv, NEW w \in Workflows, RaiseFatal(w)
  PROVE  LedgerInv'
  <1>1. /\ phase[w] = "running" /\ Pool(w) = {}
        /\ phase' = [phase EXCEPT ![w] = "raised"] /\ context' = Ended(Main(w))
        /\ doing' = [doing EXCEPT ![w] = NoTag] /\ drafted' = [drafted EXCEPT ![w] = "none"]
        /\ before' = [before EXCEPT ![w] = 0]
        /\ UNCHANGED <<asked, steps, recorded, told, rows, events, made>>
    BY DEF RaiseFatal
  <1>2. /\ phase'[w] = "raised" /\ doing'[w] = NoTag /\ drafted'[w] = "none" /\ before'[w] = 0
        /\ \A v \in Workflows \ {w} : /\ phase'[v] = phase[v] /\ doing'[v] = doing[v] /\ drafted'[v] = drafted[v]
                                      /\ before'[v] = before[v]
    BY <1>1 DEF LedgerInv, LedgerTyped
  <1>3. LedgerTyped'
    BY <1>1, <1>2 DEF LedgerInv, LedgerTyped
  <1>4. \A t \in DOMAIN context : t[1] = w => t = Main(w)
    BY <1>1 DEF Pool
  <1>5. ThreadsKnown' /\ WorkKnown'
    BY <1>1, <1>2, <1>4, ThreadsEnd
  <1>6. RecordsKnown' /\ EventsKnown' /\ ToldKnown' /\ RowsKnown'
    BY <1>1, <1>2, AccountsStay
  <1>7. StepsAddUp'
    <2>1. \A v \in Workflows : TokensOfRun(v)' = TokensOfRun(v)
      BY <1>1 DEF TokensOfRun
    <2>2. \A v \in Workflows, each \in AllTools : StepTokens(v, each)' = StepTokens(v, each)
      BY <1>1 DEF StepTokens
    <2>3. QED
      BY <1>1, <1>2, <2>1, <2>2 DEF LedgerInv, StepsAddUp
  <1>8. QED
    BY <1>3, <1>5, <1>6, <1>7 DEF LedgerInv

LEMMA ReportKeeps ==
  ASSUME LedgerAssumption, LedgerInv, NEW w \in Workflows, Report(w)
  PROVE  LedgerInv'
  <1>1. /\ phase[w] = "running" /\ doing[w] = NoTag
        /\ told' = [told EXCEPT ![w].tokens = TokensOfRun(w), ![w].failures = Failures(recorded[w], DOMAIN recorded[w])]
        /\ phase' = [phase EXCEPT ![w] = "reported"] /\ context' = Ended(Main(w))
        /\ UNCHANGED <<asked, doing, drafted, before, steps, recorded, rows, events, made>>
    BY DEF Report
  <1>2. drafted[w] = "none"
    BY <1>1 DEF LedgerInv, WorkKnown
  <1>3. phase'[w] = "reported" /\ \A v \in Workflows \ {w} : phase'[v] = phase[v] /\ told'[v] = told[v]
    BY <1>1 DEF LedgerInv, LedgerTyped
  <1>4. ~told[w].persisted
    BY <1>1 DEF LedgerInv, ToldKnown
  <1>5. /\ DOMAIN told'[w] = {"tokens", "failures", "persisted"} /\ told'[w].persisted = told[w].persisted
        /\ told'[w].tokens = TokensOfRun(w) /\ told'[w].failures = Failures(recorded[w], DOMAIN recorded[w])
    <2>1. DOMAIN told = Workflows /\ DOMAIN told[w] = {"tokens", "failures", "persisted"}
      BY DEF LedgerInv, LedgerTyped
    <2>2. told'[w] = [told[w] EXCEPT !.tokens = TokensOfRun(w), !.failures = Failures(recorded[w], DOMAIN recorded[w])]
      BY <1>1, <2>1
    <2>3. QED
      BY <2>1, <2>2
  <1>6. LedgerTyped'
    BY <1>1, <1>3, <1>5 DEF LedgerInv, LedgerTyped
  <1>7. ThreadsKnown' /\ WorkKnown'
    <2>1. \A t \in DOMAIN context : t[1] = w => t = Main(w)
      BY <1>1 DEF LedgerInv, ThreadsKnown, Main
    <2>2. QED
      BY <1>1, <1>2, <1>3, <2>1, ThreadsEnd
  <1>8. RecordsKnown' /\ StepsAddUp'
    BY <1>1, <1>3, StepsStay DEF LedgerInv, RecordsKnown, Recordable
  <1>9. EventsKnown'
    <2>1. \A v \in Workflows : EventsOf(v)' = EventsOf(v) /\ \A k : EventOf(v, k)' = EventOf(v, k)
      BY <1>1 DEF EventsOf, EventOf
    <2>2. \A v \in Workflows : told'[v].persisted = told[v].persisted
      BY <1>3, <1>5
    <2>3. events' = events /\ recorded' = recorded
      BY <1>1
    <2>4. ASSUME NEW v \in Workflows, told[v].persisted
          PROVE  \E off \in 0..Len(events) : /\ EventsOf(v)' = MovedOn(off, DOMAIN recorded[v])
                                             /\ \A k \in DOMAIN recorded[v] : events[off + k] = EventOf(v, k)'
      <3>1. PICK off \in 0..Len(events) : /\ EventsOf(v) = MovedOn(off, DOMAIN recorded[v])
                                          /\ \A k \in DOMAIN recorded[v] : events[off + k] = EventOf(v, k)
        BY <2>4 DEF LedgerInv, EventsKnown
      <3>2. QED
        BY <2>1, <3>1
    <2>5. \A v \in Workflows : ~told[v].persisted => EventsOf(v)' = {}
      BY <2>1 DEF LedgerInv, EventsKnown
    <2>6. \A i \in DOMAIN events : events[i].workflow \in Workflows
      BY DEF LedgerInv, EventsKnown
    <2>7. QED
      BY <2>2, <2>3, <2>4, <2>5, <2>6 DEF EventsKnown
  <1>10. ToldKnown'
    <2>1. \A v \in Workflows : TokensOfRun(v)' = TokensOfRun(v) /\ recorded'[v] = recorded[v]
      BY <1>1 DEF TokensOfRun
    <2>2. ASSUME NEW v \in Workflows, v # w
          PROVE  /\ phase'[v] \in {"reported", "answered"} =>
                       told'[v].tokens = TokensOfRun(v)' /\ told'[v].failures = Failures(recorded'[v], DOMAIN recorded'[v])
                 /\ told'[v].persisted => phase'[v] = "answered"
      BY <1>3, <2>1, <2>2 DEF LedgerInv, ToldKnown
    <2>3. /\ told'[w].tokens = TokensOfRun(w)' /\ told'[w].failures = Failures(recorded'[w], DOMAIN recorded'[w])
          /\ ~told'[w].persisted
      BY <1>4, <1>5, <2>1
    <2>4. QED
      BY <2>2, <2>3 DEF ToldKnown
  <1>11. RowsKnown'
    <2>1. \A row \in rows : row.workflow \in Workflows \ {w}
      BY <1>4 DEF LedgerInv, RowsKnown
    <2>2. \A v \in Workflows : told'[v].persisted = told[v].persisted
      BY <1>3, <1>5
    <2>3. QED
      BY <1>1, <1>3, <2>1, <2>2, ZenonT(60) DEF LedgerInv, RowsKnown
  <1>12. QED
    BY <1>6, <1>7, <1>8, <1>9, <1>10, <1>11 DEF LedgerInv

(* A run's events are added behind those that are there.                    *)
LEMMA EventsAdded ==
  ASSUME LedgerInv, NEW w \in Workflows
  PROVE  /\ IsList(AddUsage(w)) /\ Len(events) \in Nat /\ Len(events) <= Len(AddUsage(w))
         /\ DOMAIN AddUsage(w) = DOMAIN events \cup MovedOn(Len(events), DOMAIN recorded[w])
         /\ DOMAIN events \cap MovedOn(Len(events), DOMAIN recorded[w]) = {}
         /\ \A i \in DOMAIN events : AddUsage(w)[i] = events[i]
         /\ \A k \in DOMAIN recorded[w] : AddUsage(w)[Len(events) + k] = EventOf(w, k)
  <1>1. PICK r, n, m : r = recorded[w] /\ n = Len(events) /\ m = Len(r)
    OBVIOUS
  <1>2. IsList(r) /\ IsList(events)
    BY <1>1 DEF LedgerInv, LedgerTyped
  <1>3. n \in Nat /\ DOMAIN events = 1..n /\ events \in Seq(ToSet(events))
    BY <1>1, <1>2, ListIs
  <1>4. m \in Nat /\ DOMAIN r = 1..m
    BY <1>1, <1>2, ListIs
  <1>5. PICK f : f = [k \in 1..m |-> EventOf(w, k)]
    OBVIOUS
  <1>6. PICK es : es = events \o f
    OBVIOUS
  <1>0. es = AddUsage(w)
    BY <1>1, <1>4, <1>5, <1>6 DEF AddUsage, EventOf
  <1>7. PICK S : S = ToSet(events) \cup {f[k] : k \in 1..m}
    OBVIOUS
  <1>8. events \in Seq(S) /\ f \in Seq(S) /\ Len(f) = m
    <2>1. f \in [1..m -> S]
      BY <1>5, <1>7
    <2>2. QED
      BY <1>3, <1>4, <1>7, <2>1
  <1>9. /\ es \in Seq(S) /\ Len(es) = n + m
        /\ \A i \in 1..n : es[i] = events[i]
        /\ \A i \in n + 1 .. n + m : es[i] = f[i - n]
    <2>1. es \in Seq(S) /\ Len(es) = Len(events) + Len(f)
      <3>1. events \o f \in Seq(S)
        BY <1>8
      <3>2. Len(events \o f) = Len(events) + Len(f)
        BY <1>8
      <3>3. QED
        BY <1>6, <3>1, <3>2
    <2>2. \A i \in 1..Len(es) : es[i] = IF i <= Len(events) THEN events[i] ELSE f[i - Len(events)]
      BY <1>6, <1>8
    <2>3. Len(events) = n /\ Len(f) = m /\ Len(es) = n + m
      BY <1>1, <1>8, <2>1
    <2>4. \A i \in 1..n + m : es[i] = IF i <= n THEN events[i] ELSE f[i - n]
      BY <2>2, <2>3
    <2>5. (\A i \in 1..n : i \in 1..n + m /\ i <= n) /\ (\A i \in n + 1 .. n + m : i \in 1..n + m /\ ~(i <= n))
      BY <1>3, <1>4
    <2>6. QED
      BY <2>1, <2>3, <2>4, <2>5
  <1>10. IsList(es)
    BY <1>9, IsListOf
  <1>11. MovedOn(n, 1..m) = n + 1 .. n + m
    <2>1. \A i \in n + 1 .. n + m : i - n \in 1..m /\ n + (i - n) = i
      BY <1>3, <1>4
    <2>2. \A k \in 1..m : n + k \in n + 1 .. n + m
      BY <1>3, <1>4
    <2>3. QED
      BY <2>1, <2>2 DEF MovedOn
  <1>12. \A k \in 1..m : es[n + k] = EventOf(w, k)
    <2> TAKE k \in 1..m
    <2>1. n + k \in n + 1 .. n + m /\ (n + k) - n = k
      BY <1>3, <1>4
    <2>2. es[n + k] = f[k]
      BY <1>9, <2>1
    <2>3. QED
      BY <1>5, <2>2
  <1>13. DOMAIN es = 1..n + m
    BY <1>3, <1>4, <1>9
  <1>14. /\ 1..n + m = (1..n) \cup (n + 1 .. n + m) /\ (1..n) \cap (n + 1 .. n + m) = {}
         /\ n <= n + m
    BY <1>3, <1>4
  <1>15. QED
    BY <1>0, <1>1, <1>3, <1>4, <1>9, <1>10, <1>11, <1>12, <1>13, <1>14

LEMMA SaveRunKeeps ==
  ASSUME LedgerAssumption, LedgerInv, NEW w \in Workflows, SaveRun(w)
  PROVE  LedgerInv'
  <1>1. /\ phase[w] = "reported" /\ phase' = [phase EXCEPT ![w] = "answered"]
        /\ UNCHANGED <<asked, context, doing, drafted, before, steps, recorded, made>>
    BY DEF SaveRun
  <1>2. phase'[w] = "answered" /\ \A v \in Workflows \ {w} : phase'[v] = phase[v]
    BY <1>1 DEF LedgerInv, LedgerTyped
  <1>3. ~told[w].persisted
    BY <1>1 DEF LedgerInv, ToldKnown
  <1>4. ThreadsKnown' /\ WorkKnown'
    <2>1. \A v \in Workflows : phase[v] = "running" <=> phase'[v] = "running"
      BY <1>1, <1>2
    <2>2. \A v \in Workflows : MainContext(v)' = MainContext(v) /\ \A name : PoolContext(v, name)' = PoolContext(v, name)
      BY <1>1 DEF MainContext, PoolContext
    <2>3. ThreadsKnown'
      BY <1>1, <2>1, <2>2 DEF LedgerInv, ThreadsKnown
    <2>4. WorkKnown'
      BY <1>1, <2>1 DEF LedgerInv, WorkKnown
    <2>5. QED
      BY <2>3, <2>4
  <1>5. RecordsKnown' /\ StepsAddUp'
    BY <1>1, <1>2, StepsStay DEF LedgerInv, RecordsKnown, Recordable
  <1>6. CASE UNCHANGED <<events, rows, told>>
    <2>1. LedgerTyped'
      BY <1>1, <1>2, <1>6 DEF LedgerInv, LedgerTyped
    <2>2. EventsKnown' /\ ToldKnown' /\ RowsKnown'
      BY <1>1, <1>2, <1>6, AccountsStay
    <2>3. QED
      BY <1>4, <1>5, <2>1, <2>2 DEF LedgerInv
  <1>7. CASE /\ events' = AddUsage(w)
             /\ rows' = IF asked[w].type = "revision" THEN rows
                        ELSE rows \cup {[workflow |-> w, owner |-> asked[w].owner, tokens |-> told[w].tokens]}
             /\ told' = [told EXCEPT ![w].persisted = TRUE]
    <2>1. /\ told'[w].persisted /\ told'[w].tokens = told[w].tokens /\ told'[w].failures = told[w].failures
          /\ DOMAIN told'[w] = {"tokens", "failures", "persisted"} /\ told'[w].persisted \in BOOLEAN
          /\ \A v \in Workflows \ {w} : told'[v] = told[v]
          /\ DOMAIN told' = Workflows
      <3>1. DOMAIN told = Workflows /\ DOMAIN told[w] = {"tokens", "failures", "persisted"}
        BY DEF LedgerInv, LedgerTyped
      <3>2. told'[w] = [told[w] EXCEPT !.persisted = TRUE]
        BY <1>7, <3>1
      <3>3. QED
        BY <1>7, <3>1, <3>2
    <2>2. PICK es : es = events'
      OBVIOUS
    <2>3. PICK n : n = Len(events)
      OBVIOUS
    <2>4. /\ IsList(es) /\ n \in Nat /\ n <= Len(es) /\ Len(es) \in Nat
          /\ DOMAIN es = DOMAIN events \cup MovedOn(n, DOMAIN recorded[w])
          /\ DOMAIN events \cap MovedOn(n, DOMAIN recorded[w]) = {}
          /\ \A i \in DOMAIN events : es[i] = events[i]
          /\ \A k \in DOMAIN recorded[w] : es[n + k] = EventOf(w, k)
      <3>1. es = AddUsage(w)
        BY <1>7, <2>2
      <3>2. /\ IsList(AddUsage(w)) /\ Len(events) \in Nat /\ Len(events) <= Len(AddUsage(w))
            /\ DOMAIN AddUsage(w) = DOMAIN events \cup MovedOn(Len(events), DOMAIN recorded[w])
            /\ DOMAIN events \cap MovedOn(Len(events), DOMAIN recorded[w]) = {}
            /\ \A i \in DOMAIN events : AddUsage(w)[i] = events[i]
            /\ \A k \in DOMAIN recorded[w] : AddUsage(w)[Len(events) + k] = EventOf(w, k)
        BY EventsAdded
      <3>3. Len(es) \in Nat
        BY <3>1, <3>2, ListIs
      <3>4. QED
        BY <2>3, <3>1, <3>2, <3>3
    <2>5. LedgerTyped'
      <3>1. IsList(events')
        BY <2>2, <2>4
      <3>2. \A v \in Workflows : /\ DOMAIN told'[v] = {"tokens", "failures", "persisted"} /\ told'[v].persisted \in BOOLEAN
                                  /\ phase'[v] = "running" => phase[v] = "running"
        BY <1>2, <2>1 DEF LedgerInv, LedgerTyped
      <3>3. DOMAIN phase' = Workflows
        BY <1>1 DEF LedgerInv, LedgerTyped
      <3>4. QED
        BY <1>1, <2>1, <3>1, <3>2, <3>3 DEF LedgerInv, LedgerTyped
    <2>6. \A i \in MovedOn(n, DOMAIN recorded[w]) : es[i].workflow = w
      <3>1. \A k : EventOf(w, k).workflow = w
        BY DEF EventOf
      <3>2. ASSUME NEW i \in MovedOn(n, DOMAIN recorded[w]) PROVE es[i].workflow = w
        <4>1. PICK k \in DOMAIN recorded[w] : i = n + k
          BY DEF MovedOn
        <4>2. QED
          BY <2>4, <3>1, <4>1
      <3>3. QED
        BY <3>2
    <2>7. EventsOf(w)' = MovedOn(n, DOMAIN recorded[w])
      <3>1. \A i \in DOMAIN events : events[i].workflow # w
        BY <1>3 DEF LedgerInv, EventsKnown, EventsOf
      <3>2. {i \in DOMAIN es : es[i].workflow = w} = MovedOn(n, DOMAIN recorded[w])
        BY <2>4, <2>6, <3>1
      <3>3. QED
        BY <2>2, <3>2 DEF EventsOf
    <2>8. \A v \in Workflows \ {w} : EventsOf(v)' = EventsOf(v)
      <3> TAKE v \in Workflows \ {w}
      <3>1. {i \in DOMAIN es : es[i].workflow = v} = {i \in DOMAIN events : events[i].workflow = v}
        BY <2>4, <2>6
      <3>2. QED
        BY <2>2, <3>1 DEF EventsOf
    <2>9. \A v \in Workflows : \A k : EventOf(v, k)' = EventOf(v, k)
      BY <1>1 DEF EventOf
    <2>10. EventsKnown'
      <3>1. \A i \in DOMAIN es : es[i].workflow \in Workflows
        BY <2>4, <2>6 DEF LedgerInv, EventsKnown
      <3>2. \E off \in 0..Len(es) : /\ EventsOf(w)' = MovedOn(off, DOMAIN recorded[w])
                                    /\ \A k \in DOMAIN recorded[w] : es[off + k] = EventOf(w, k)
        BY <2>4, <2>7
      <3>3. ASSUME NEW v \in Workflows \ {w}, told[v].persisted
            PROVE  \E off \in 0..Len(es) : /\ EventsOf(v)' = MovedOn(off, DOMAIN recorded[v])
                                           /\ \A k \in DOMAIN recorded[v] : es[off + k] = EventOf(v, k)
        <4>1. PICK off \in 0..n : /\ EventsOf(v) = MovedOn(off, DOMAIN recorded[v])
                                  /\ \A k \in DOMAIN recorded[v] : events[off + k] = EventOf(v, k)
          BY <2>3, <3>3 DEF LedgerInv, EventsKnown
        <4>2. off \in 0..Len(es)
          BY <2>4, <4>1
        <4>3. \A k \in DOMAIN recorded[v] : off + k \in DOMAIN events
          BY <4>1 DEF MovedOn, EventsOf
        <4>4. \A k \in DOMAIN recorded[v] : es[off + k] = EventOf(v, k)
          BY <2>4, <4>1, <4>3
        <4>5. QED
          BY <2>8, <4>1, <4>2, <4>4
      <3>4. \A v \in Workflows \ {w} : ~told[v].persisted => EventsOf(v)' = {}
        BY <2>8 DEF LedgerInv, EventsKnown
      <3>5. QED
        BY <1>1, <2>1, <2>2, <2>9, <3>1, <3>2, <3>3, <3>4 DEF EventsKnown
    <2>11. ToldKnown'
      BY <1>1, <1>2, <2>1 DEF LedgerInv, ToldKnown, TokensOfRun
    <2>12. RowsKnown'
      <3>1. \A row \in rows : row.workflow \in Workflows \ {w}
        BY <1>3 DEF LedgerInv, RowsKnown
      <3>2. PICK new : new = [workflow |-> w, owner |-> asked[w].owner, tokens |-> told[w].tokens]
        OBVIOUS
      <3>3. new.workflow = w /\ new.owner = asked[w].owner /\ new.tokens = told[w].tokens
        BY <3>2
      <3>4. rows' = IF asked[w].type = "revision" THEN rows ELSE rows \cup {new}
        BY <1>7, <3>2
      <3>5. \A row \in rows : /\ row.workflow \in Workflows /\ told'[row.workflow].persisted
                              /\ asked'[row.workflow].type # "revision"
                              /\ row.owner = asked'[row.workflow].owner /\ row.tokens = told'[row.workflow].tokens
        BY <1>1, <2>1, <3>1 DEF LedgerInv, RowsKnown
      <3>6. asked[w].type # "revision" =>
              /\ new.workflow \in Workflows /\ told'[new.workflow].persisted
              /\ asked'[new.workflow].type # "revision"
              /\ new.owner = asked'[new.workflow].owner /\ new.tokens = told'[new.workflow].tokens
        BY <1>1, <2>1, <3>3
      <3>7. \A v \in Workflows : told'[v].persisted /\ asked'[v].type # "revision" => \E row \in rows' : row.workflow = v
        BY <1>1, <2>1, <3>3, <3>4 DEF LedgerInv, RowsKnown
      <3>8. QED
        BY <3>4, <3>5, <3>6, <3>7 DEF RowsKnown
    <2>13. QED
      BY <1>4, <1>5, <2>5, <2>10, <2>11, <2>12 DEF LedgerInv
  <1>8. QED
    BY <1>6, <1>7 DEF SaveRun

(* A call is recorded as it is made, by a thread that knows its run.        *)
LEMMA CallIsRecorded ==
  ASSUME LedgerAssumption, LedgerInv, NEW t \in DOMAIN context, Call(t), NEW w, w = t[1]
  PROVE  /\ w \in Workflows /\ phase[w] = "running"
         /\ \E call : /\ call.tool = doing[w] /\ made' = [made EXCEPT ![w] = Append(@, call)]
                      /\ IF call.section = "vendor" THEN recorded' = recorded
                         ELSE recorded' = [recorded EXCEPT ![w] = Append(@, call)]
         /\ UNCHANGED <<phase, asked, context, doing, drafted, before, steps, told, rows, events>>
  <1> DEFINE section == IF t # Main(w) THEN t[2]
                        ELSE IF drafted[w] = "first" THEN Head(Drafting[doing[w]]) ELSE NoTag
  <1>1. /\ t = <<w, t[2]>> /\ w \in Workflows /\ phase[w] = "running"
        /\ t[2] = "main" => context[t] = MainContext(w)
        /\ t[2] # "main" => doing[w] # NoTag /\ context[t] = PoolContext(w, t[2])
    BY DEF LedgerInv, ThreadsKnown
  <1>2. PICK kind : /\ recorded' = RecordUsage(context[t], kind)
                    /\ made' = [made EXCEPT ![w] = Append(@, [tool |-> doing[w], section |-> section, kind |-> kind])]
    BY DEF Call
  <1>3. UNCHANGED <<phase, asked, context, doing, drafted, before, steps, told, rows, events>>
    BY DEF Call
  <1>4. t = Main(w) <=> t[2] = "main"
    BY <1>1 DEF Main
  <1>5. NoTag \notin Workflows /\ NoTag # "vendor"
    BY DEF LedgerAssumption
  <1>6. drafted[w] = "first" => Head(Drafting[doing[w]]) # "vendor"
    <2> SUFFICES ASSUME drafted[w] = "first"
                 PROVE  Head(Drafting[doing[w]]) # "vendor"
      OBVIOUS
    <2>1. PICK d : d = Drafting[doing[w]]
      OBVIOUS
    <2>2. IsList(d) /\ d # << >> /\ "vendor" \notin ToSet(d)
      BY <1>1, <2>1 DEF LedgerInv, WorkKnown, LedgerAssumption
    <2>3. d \in Seq(ToSet(d))
      BY <2>2, ListIs
    <2>4. Head(d) \in ToSet(d)
      BY <2>2, <2>3
    <2>5. QED
      BY <2>1, <2>2, <2>4
  <1>7. PICK call : call = [tool |-> doing[w], section |-> section, kind |-> kind]
    OBVIOUS
  <1>8. call.tool = doing[w] /\ call.section = section /\ made' = [made EXCEPT ![w] = Append(@, call)]
    BY <1>2, <1>7
  <1>9. CASE section = "vendor"
    <2>1. t[2] = "vendor" /\ t # Main(w)
      BY <1>4, <1>5, <1>6, <1>9
    <2>2. context[t].run = NoTag
      BY <1>1, <1>4, <2>1 DEF PoolContext
    <2>3. recorded' = recorded
      BY <1>2, <2>2 DEF RecordUsage
    <2>4. QED
      BY <1>1, <1>3, <1>8, <1>9, <2>3
  <1>10. CASE section # "vendor"
    <2>1. context[t] = [run |-> w, tool |-> doing[w], section |-> section]
      <3>1. CASE t = Main(w)
        BY <1>1, <1>4, <3>1 DEF MainContext
      <3>2. CASE t # Main(w)
        BY <1>1, <1>4, <1>10, <3>2 DEF PoolContext
      <3>3. QED
        BY <3>1, <3>2
    <2>2. recorded' = [recorded EXCEPT ![w] = Append(@, call)]
      BY <1>1, <1>2, <1>5, <1>7, <2>1 DEF RecordUsage
    <2>3. QED
      BY <1>1, <1>3, <1>8, <1>10, <2>2
  <1>11. QED
    BY <1>9, <1>10

LEMMA CallKeeps ==
  ASSUME LedgerAssumption, LedgerInv, NEW t \in DOMAIN context, Call(t)
  PROVE  LedgerInv'
  <1>1. PICK w : w = t[1]
    OBVIOUS
  <1>2. /\ w \in Workflows /\ phase[w] = "running"
        /\ UNCHANGED <<phase, asked, context, doing, drafted, before, steps, told, rows, events>>
    BY <1>1, CallIsRecorded
  <1>3. PICK call : /\ call.tool = doing[w] /\ made' = [made EXCEPT ![w] = Append(@, call)]
                    /\ IF call.section = "vendor" THEN recorded' = recorded
                       ELSE recorded' = [recorded EXCEPT ![w] = Append(@, call)]
    BY <1>1, CallIsRecorded
  <1>4. ~told[w].persisted
    BY <1>2 DEF LedgerInv, ToldKnown
  <1>5. PICK m, r, mm, rr : m = made[w] /\ r = recorded[w] /\ mm = Append(m, call) /\ rr = Append(r, call)
    OBVIOUS
  <1>6. IsList(m) /\ IsList(r)
    BY <1>2, <1>5 DEF LedgerInv, LedgerTyped
  <1>7. /\ made'[w] = mm /\ \A v \in Workflows \ {w} : made'[v] = made[v] /\ recorded'[v] = recorded[v]
        /\ DOMAIN made' = Workflows /\ DOMAIN recorded' = Workflows
        /\ recorded'[w] = IF call.section = "vendor" THEN r ELSE rr
    BY <1>2, <1>3, <1>5 DEF LedgerInv, LedgerTyped
  <1>8. mm = Append(m, call) /\ rr = Append(r, call)
    BY <1>5
  <1>9. /\ IsList(mm) /\ DOMAIN mm = DOMAIN m \cup {Len(mm)} /\ Len(mm) \notin DOMAIN m
        /\ mm[Len(mm)] = call /\ \A i \in DOMAIN m : mm[i] = m[i]
    <2>1. IsList(mm)
      BY <1>6, <1>8, ListGrows
    <2>2. DOMAIN mm = DOMAIN m \cup {Len(mm)} /\ Len(mm) \notin DOMAIN m
      BY <1>6, <1>8, ListGrows
    <2>3. mm[Len(mm)] = call /\ \A i \in DOMAIN m : mm[i] = m[i]
      BY <1>6, <1>8, ListGrows
    <2>4. QED
      BY <2>1, <2>2, <2>3
  <1>10. /\ IsList(rr) /\ DOMAIN rr = DOMAIN r \cup {Len(rr)} /\ Len(rr) \notin DOMAIN r
         /\ rr[Len(rr)] = call /\ \A i \in DOMAIN r : rr[i] = r[i]
    <2>1. IsList(rr)
      BY <1>6, <1>8, ListGrows
    <2>2. DOMAIN rr = DOMAIN r \cup {Len(rr)} /\ Len(rr) \notin DOMAIN r
      BY <1>6, <1>8, ListGrows
    <2>3. rr[Len(rr)] = call /\ \A i \in DOMAIN r : rr[i] = r[i]
      BY <1>6, <1>8, ListGrows
    <2>4. QED
      BY <2>1, <2>2, <2>3
  <1>11. LedgerTyped'
    <2>1. \A v \in Workflows : IsList(made'[v]) /\ IsList(recorded'[v])
      BY <1>6, <1>7, <1>9, <1>10 DEF LedgerInv, LedgerTyped
    <2>2. QED
      BY <1>2, <1>7, <2>1 DEF LedgerInv, LedgerTyped
  <1>12. ThreadsKnown' /\ WorkKnown'
    <2>1. \A v : MainContext(v)' = MainContext(v) /\ \A name : PoolContext(v, name)' = PoolContext(v, name)
      BY <1>2 DEF MainContext, PoolContext
    <2>2. ThreadsKnown'
      BY <1>2, <2>1 DEF LedgerInv, ThreadsKnown
    <2>3. WorkKnown'
      BY <1>2 DEF LedgerInv, WorkKnown
    <2>4. QED
      BY <2>2, <2>3
  <1>13. RecordsKnown'
    <2>1. PICK I : I = Recordable(m)
      OBVIOUS
    <2>2. I \in SUBSET DOMAIN m /\ r = Subsequence(m, I)
      BY <1>2, <1>5, <2>1 DEF LedgerInv, RecordsKnown, Recordable
    <2>3. Subsequence(mm, I) = r /\ Subsequence(mm, I \cup {Len(mm)}) = rr
      <3>1. Subsequence(mm, I) = Subsequence(m, I)
        BY <1>6, <1>8, <2>2, SubsequenceGrows
      <3>2. Subsequence(mm, I \cup {Len(mm)}) = Append(Subsequence(m, I), call)
        <4>1. Subsequence(Append(m, call), WithLast(I, Append(m, call))) = Append(Subsequence(m, I), call)
          BY <1>6, <2>2, SubsequenceGrows
        <4>2. QED
          BY <1>8, <4>1 DEF WithLast
      <3>3. QED
        BY <1>8, <2>2, <3>1, <3>2
    <2>4. Recordable(mm) = IF call.section = "vendor" THEN I ELSE I \cup {Len(mm)}
      BY <1>9, <2>1, Zenon DEF Recordable
    <2>5. recorded'[w] = Subsequence(mm, Recordable(mm))
      BY <1>7, <2>3, <2>4
    <2>6. QED
      BY <1>7, <2>5, ZenonT(60) DEF LedgerInv, RecordsKnown, Recordable
  <1>14. \A v \in Workflows \ {w} : TokensOfRun(v)' = TokensOfRun(v)
    BY <1>7 DEF TokensOfRun
  <1>15. StepsAddUp'
    <2>1. \A v \in Workflows, each \in AllTools : StepTokens(v, each)' = StepTokens(v, each)
      BY <1>2 DEF StepTokens
    <2>2. ASSUME NEW v \in Workflows \ {w}
          PROVE  /\ doing'[v] # NoTag => before'[v] <= TokensOfRun(v)'
                 /\ \A each \in AllTools :
                      /\ IsFiniteSet(Counted(StepTokens(v, each)'))
                      /\ phase'[v] # "raised" =>
                           Total(StepTokens(v, each)') + (IF doing'[v] = each THEN TokensOfRun(v)' - before'[v] ELSE 0)
                             = Tokens(recorded'[v], OfTool(recorded'[v], each))
      BY <1>2, <1>7, <1>14, <2>1 DEF LedgerInv, StepsAddUp
    <2>3. PICK more \in {0, 1} : more = IF call.section # "vendor" /\ call.kind = "model" THEN 1 ELSE 0
      OBVIOUS
    <2>4. ASSUME NEW I \in SUBSET DOMAIN r
          PROVE  /\ Tokens(r, I) \in Nat /\ Tokens(rr, I) = Tokens(r, I)
                 /\ Tokens(rr, I \cup {Len(rr)}) = Tokens(r, I) + (IF call.kind = "model" THEN 1 ELSE 0)
      <3>1. Tokens(r, I) \in Nat /\ Tokens(rr, I) = Tokens(r, I)
        BY <1>6, <1>8, OneMoreCounts
      <3>2. Tokens(rr, I \cup {Len(rr)}) = Tokens(r, I) + (IF call.kind = "model" THEN 1 ELSE 0)
        <4>1. Tokens(Append(r, call), WithLast(I, Append(r, call)))
                = Tokens(r, I) + (IF call.kind = "model" THEN 1 ELSE 0)
          BY <1>6, OneMoreCounts
        <4>2. QED
          BY <1>8, <4>1 DEF WithLast
      <3>3. QED
        BY <3>1, <3>2
    <2>5. TokensOfRun(w)' = TokensOfRun(w) + more /\ TokensOfRun(w) \in Nat
      <3>1. TokensOfRun(w) = Tokens(r, DOMAIN r) /\ TokensOfRun(w) \in Nat
        BY <1>5, <2>4 DEF TokensOfRun
      <3>2. CASE call.section = "vendor"
        <4>1. TokensOfRun(w)' = Tokens(r, DOMAIN r)
          BY <1>7, <3>2 DEF TokensOfRun
        <4>2. QED
          BY <2>3, <3>1, <3>2, <4>1
      <3>3. CASE call.section # "vendor"
        <4>1. TokensOfRun(w)' = Tokens(rr, DOMAIN r \cup {Len(rr)})
          BY <1>7, <1>10, <3>3 DEF TokensOfRun
        <4>2. Tokens(rr, DOMAIN r \cup {Len(rr)}) = Tokens(r, DOMAIN r) + (IF call.kind = "model" THEN 1 ELSE 0)
          BY <2>4
        <4>3. QED
          BY <2>3, <3>1, <3>3, <4>1, <4>2
      <3>4. QED
        BY <3>2, <3>3
    <2>6. ASSUME NEW each \in AllTools
          PROVE  Tokens(recorded'[w], OfTool(recorded'[w], each))
                   = Tokens(r, OfTool(r, each)) + (IF doing[w] = each THEN more ELSE 0)
      <3>1. OfTool(r, each) \in SUBSET DOMAIN r
        BY DEF OfTool
      <3>2. OfTool(rr, each) = IF doing[w] = each THEN OfTool(r, each) \cup {Len(rr)} ELSE OfTool(r, each)
        BY <1>3, <1>10, Zenon DEF OfTool
      <3>3. /\ Tokens(r, OfTool(r, each)) \in Nat /\ Tokens(rr, OfTool(r, each)) = Tokens(r, OfTool(r, each))
            /\ Tokens(rr, OfTool(r, each) \cup {Len(rr)})
                 = Tokens(r, OfTool(r, each)) + (IF call.kind = "model" THEN 1 ELSE 0)
        BY <2>4, <3>1
      <3>4. PICK T \in Nat : T = Tokens(r, OfTool(r, each))
        BY <3>3
      <3>5. CASE call.section = "vendor"
        <4>1. recorded'[w] = r /\ more = 0
          BY <1>7, <2>3, <3>5
        <4>2. T + (IF doing[w] = each THEN 0 ELSE 0) = T
          BY <3>4
        <4>3. QED
          BY <3>4, <4>1, <4>2
      <3>6. CASE call.section # "vendor"
        <4>1. recorded'[w] = rr /\ more = IF call.kind = "model" THEN 1 ELSE 0
          BY <1>7, <2>3, <3>6
        <4>2. Tokens(rr, OfTool(rr, each)) = IF doing[w] = each THEN T + more ELSE T
          BY <3>2, <3>3, <3>4, <4>1
        <4>3. QED
          BY <3>4, <4>1, <4>2
      <3>7. QED
        BY <3>5, <3>6
    <2>7. doing[w] # NoTag => before[w] <= TokensOfRun(w) + more
      <3>1. doing[w] # NoTag => before[w] <= TokensOfRun(w)
        BY <1>2 DEF LedgerInv, StepsAddUp
      <3>2. before[w] \in Nat
        BY <1>2 DEF LedgerInv, LedgerTyped
      <3>3. QED
        BY <2>5, <3>1, <3>2
    <2>8. ASSUME NEW each \in AllTools
          PROVE  /\ IsFiniteSet(Counted(StepTokens(w, each)'))
                 /\ Total(StepTokens(w, each)') + (IF doing'[w] = each THEN TokensOfRun(w)' - before'[w] ELSE 0)
                      = Tokens(recorded'[w], OfTool(recorded'[w], each))
      <3>1. /\ IsFiniteSet(Counted(StepTokens(w, each)))
            /\ Total(StepTokens(w, each)) + (IF doing[w] = each THEN TokensOfRun(w) - before[w] ELSE 0)
                 = Tokens(r, OfTool(r, each))
        BY <1>2, <1>5 DEF LedgerInv, StepsAddUp
      <3>2. PICK T \in Nat : T = Total(StepTokens(w, each))
        BY <3>1, TotalIs, FS_CardinalityType
      <3>3. PICK u \in Nat, b \in Nat : u = TokensOfRun(w) /\ b = before[w]
        BY <1>2, <2>5 DEF LedgerInv, LedgerTyped
      <3>4. (T + (IF doing[w] = each THEN u - b ELSE 0)) + (IF doing[w] = each THEN more ELSE 0)
              = T + (IF doing[w] = each THEN (u + more) - b ELSE 0)
        <4>1. CASE doing[w] = each
          BY <2>3, <3>2, <3>3, <4>1
        <4>2. CASE doing[w] # each
          BY <3>2, <4>2
        <4>3. QED
          BY <4>1, <4>2
      <3>5. StepTokens(w, each)' = StepTokens(w, each) /\ doing'[w] = doing[w] /\ before'[w] = b /\ TokensOfRun(w)' = u + more
        BY <1>2, <2>1, <2>5, <3>3
      <3>6. T + (IF doing[w] = each THEN u - b ELSE 0) = Tokens(r, OfTool(r, each))
        BY <3>1, <3>2, <3>3
      <3>7. QED
        BY <2>6, <3>1, <3>2, <3>4, <3>5, <3>6
    <2>9. /\ doing'[w] # NoTag => before'[w] <= TokensOfRun(w)'
          /\ \A each \in AllTools :
               /\ IsFiniteSet(Counted(StepTokens(w, each)'))
               /\ phase'[w] # "raised" =>
                    Total(StepTokens(w, each)') + (IF doing'[w] = each THEN TokensOfRun(w)' - before'[w] ELSE 0)
                      = Tokens(recorded'[w], OfTool(recorded'[w], each))
      BY <1>2, <2>5, <2>7, <2>8
    <2>10. QED
      <3>1. ASSUME NEW v \in Workflows
            PROVE  /\ doing'[v] # NoTag => before'[v] <= TokensOfRun(v)'
                   /\ \A each \in AllTools :
                        /\ IsFiniteSet(Counted(StepTokens(v, each)'))
                        /\ phase'[v] # "raised" =>
                             Total(StepTokens(v, each)') + (IF doing'[v] = each THEN TokensOfRun(v)' - before'[v] ELSE 0)
                               = Tokens(recorded'[v], OfTool(recorded'[v], each))
        BY <2>2, <2>9
      <3>2. QED
        BY <3>1 DEF StepsAddUp, Counted
  <1>16. EventsKnown'
    <2>1. \A v \in Workflows : EventsOf(v)' = EventsOf(v)
      BY <1>2 DEF EventsOf
    <2>2. \A v \in Workflows \ {w} : \A k : EventOf(v, k)' = EventOf(v, k)
      BY <1>2, <1>7 DEF EventOf
    <2>3. ASSUME NEW v \in Workflows, told[v].persisted
          PROVE  \E off \in 0..Len(events) : /\ EventsOf(v)' = MovedOn(off, DOMAIN recorded'[v])
                                             /\ \A k \in DOMAIN recorded'[v] : events[off + k] = EventOf(v, k)'
      <3>1. v \in Workflows \ {w} /\ recorded'[v] = recorded[v]
        BY <1>4, <1>7, <2>3
      <3>2. PICK off \in 0..Len(events) : /\ EventsOf(v) = MovedOn(off, DOMAIN recorded[v])
                                          /\ \A k \in DOMAIN recorded[v] : events[off + k] = EventOf(v, k)
        BY <2>3 DEF LedgerInv, EventsKnown
      <3>3. QED
        BY <2>1, <2>2, <3>1, <3>2
    <2>4. \A v \in Workflows : ~told[v].persisted => EventsOf(v)' = {}
      BY <2>1 DEF LedgerInv, EventsKnown
    <2>5. \A i \in DOMAIN events : events[i].workflow \in Workflows
      BY DEF LedgerInv, EventsKnown
    <2>6. QED
      BY <1>2, <2>3, <2>4, <2>5 DEF EventsKnown
  <1>17. ToldKnown'
    BY <1>2, <1>4, <1>7, <1>14 DEF LedgerInv, ToldKnown
  <1>18. RowsKnown'
    BY <1>2 DEF LedgerInv, RowsKnown
  <1>19. QED
    BY <1>11, <1>12, <1>13, <1>15, <1>16, <1>17, <1>18 DEF LedgerInv

LEMMA LedgerStepKeeps == LedgerAssumption /\ LedgerInv /\ [LedgerNext]_ledgerVars => LedgerInv'
  <1> SUFFICES ASSUME LedgerAssumption, LedgerInv, [LedgerNext]_ledgerVars
               PROVE  LedgerInv'
    OBVIOUS
  <1>1. CASE UNCHANGED ledgerVars
    <2>1. RecordsKnown' /\ EventsKnown' /\ ToldKnown' /\ RowsKnown' /\ StepsAddUp'
      BY <1>1, AccountsStay, StepsStay DEF ledgerVars
    <2>2. LedgerTyped'
      BY <1>1 DEF ledgerVars, LedgerInv, LedgerTyped
    <2>3. \A v : MainContext(v)' = MainContext(v) /\ \A name : PoolContext(v, name)' = PoolContext(v, name)
      BY <1>1 DEF ledgerVars, MainContext, PoolContext
    <2>4. ThreadsKnown'
      BY <1>1, <2>3 DEF ledgerVars, LedgerInv, ThreadsKnown
    <2>5. WorkKnown'
      BY <1>1 DEF ledgerVars, LedgerInv, WorkKnown
    <2>6. QED
      BY <2>1, <2>2, <2>4, <2>5 DEF LedgerInv
  <1>2. ASSUME NEW w \in Workflows,
               OpenRun(w) \/ BeginTool(w) \/ BeginFirst(w) \/ BeginRest(w)
                 \/ BeginVendors(w) \/ EndTool(w) \/ RaiseFatal(w) \/ Report(w) \/ SaveRun(w)
        PROVE  LedgerInv'
    BY <1>2, OpenRunKeeps, BeginToolKeeps, BeginFirstKeeps, BeginRestKeeps, BeginVendorsKeeps, EndToolKeeps,
       RaiseFatalKeeps, ReportKeeps, SaveRunKeeps
  <1>3. ASSUME NEW t \in DOMAIN context, Call(t) \/ EndThread(t)
        PROVE  LedgerInv'
    BY <1>3, CallKeeps, EndThreadKeeps
  <1>4. QED
    BY <1>1, <1>2, <1>3 DEF LedgerNext

-----------------------------------------------------------------------------
(* Uploads.                                                                *)

(* What "step" makes of a state and the next number, up to N, is a state.   *)
StepsWithin(step, State, N) == \A z \in State : \A n \in 1..N : step[<<z, n>>] \in State

LEMMA Recursion ==
  ASSUME NEW State, NEW first \in State, NEW N \in Nat,
         NEW step, StepsWithin(step, State, N)
  PROVE  \E f \in [0..N -> State] : f[0] = first /\ \A n \in 0..(N - 1) : f[n + 1] = step[<<f[n], n + 1>>]
  <1> DEFINE Good(f, n) == f[0] = first /\ \A m \in 0..(n - 1) : f[m + 1] = step[<<f[m], m + 1>>]
             S == {n \in Nat : n <= N => \E f \in [0..n -> State] : Good(f, n)}
  <1>1. 0 \in S
    <2> DEFINE f == [m \in 0..0 |-> first]
    <2>1. f \in [0..0 -> State] /\ Good(f, 0)
      OBVIOUS
    <2>2. QED
      BY <2>1
  <1>2. ASSUME NEW n \in Nat, n \in S
        PROVE  n + 1 \in S
    <2> SUFFICES ASSUME n + 1 <= N
                 PROVE  \E f \in [0..(n + 1) -> State] : Good(f, n + 1)
      OBVIOUS
    <2>1. PICK f \in [0..n -> State] : Good(f, n)
      BY <1>2
    <2> DEFINE g == [m \in 0..(n + 1) |-> IF m = n + 1 THEN step[<<f[n], n + 1>>] ELSE f[m]]
    <2>2. step[<<f[n], n + 1>>] \in State
      BY n \in 0..n, n + 1 \in 1..N DEF StepsWithin
    <2>3. g \in [0..(n + 1) -> State]
      BY <2>2
    <2>4. g[n + 1] = step[<<f[n], n + 1>>] /\ \A m \in 0..n : g[m] = f[m]
      OBVIOUS
    <2> HIDE DEF g
    <2>5. ASSUME NEW m \in 0..(n + 1 - 1)
          PROVE  g[m + 1] = step[<<g[m], m + 1>>]
      <3>1. CASE m = n
        BY <3>1, <2>4
      <3>2. CASE m \in 0..(n - 1)
        BY <3>2, <2>1, <2>4
      <3>3. QED
        BY <3>1, <3>2
    <2>6. g[0] = first
      BY <2>1, <2>4
    <2>7. QED
      BY <2>3, <2>5, <2>6
  <1> HIDE DEF S
  <1>3. Nat \subseteq S
    BY <1>1, <1>2, NatSetInduction
  <1>4. N \in S
    BY <1>3
  <1>5. QED
    BY <1>4 DEF S

(* The places of the parts of a list of lists.                             *)
Spots(lists) == UNION {{i} \X DOMAIN lists[i] : i \in DOMAIN lists}

(* Where each place of the joined list was.                                *)
Matches(at, joined, lists) ==
  /\ DOMAIN at = DOMAIN joined
  /\ {at[k] : k \in DOMAIN at} = Spots(lists)
  /\ \A k, m \in DOMAIN at : at[k] = at[m] => k = m
  /\ \A k \in DOMAIN at : joined[k] = lists[at[k][1]][at[k][2]]

(* A joined list is made by appending one list after the other.             *)
LEMMA JoinedUnfolds ==
  ASSUME NEW S, NEW lists \in Seq(Seq(S))
  PROVE  \E f \in [0..Len(lists) -> Seq(S)] :
            /\ f[0] = << >>
            /\ \A n \in 0..(Len(lists) - 1) : f[n + 1] = f[n] \o lists[n + 1]
            /\ Joined(lists) = f[Len(lists)]
  <1> DEFINE N == Len(lists)
  <1>0. N \in Nat /\ \A n \in 1..N : lists[n] \in Seq(S)
    OBVIOUS
  <1>1. CASE N = 0
    <2>1. lists = << >> /\ Joined(lists) = lists
      BY <1>1 DEF Joined, FlattenSeq
    <2> DEFINE f == [n \in 0..0 |-> << >>]
    <2>2. f \in [0..0 -> Seq(S)] /\ f[0] = << >>
      OBVIOUS
    <2>3. Joined(lists) = f[Len(lists)] /\ f \in [0..Len(lists) -> Seq(S)]
      BY <1>1, <2>1, <2>2
    <2>4. 0..(Len(lists) - 1) = {}
      BY <1>1
    <2> HIDE DEF f
    <2>5. QED
      BY <2>2, <2>3, <2>4
  <1>2. CASE N # 0
    <2> DEFINE Body(h) == [i \in 1..N |-> IF i = 1 THEN lists[i] ELSE h[i - 1] \o lists[i]]
               step == [z \in Seq(S) \X (1..N) |-> z[1] \o lists[z[2]]]
               r == CHOOSE h : h = Body(h)
    <2> DEFINE first == << >>
               State == Seq(S)
    <2>1. first \in State
      OBVIOUS
    <2>2. StepsWithin(step, State, N)
      BY <1>0 DEF StepsWithin
    <2>3. \A z \in State : \A n \in 1..N : step[<<z, n>>] = z \o lists[n]
      OBVIOUS
    <2> HIDE DEF step, N, first, State
    <2>4. PICK f \in [0..N -> State] : f[0] = first /\ \A n \in 0..(N - 1) : f[n + 1] = step[<<f[n], n + 1>>]
      BY <1>0, <2>1, <2>2, Recursion
    <2>5. ASSUME NEW n \in 0..(N - 1)
          PROVE  f[n] \in State /\ f[n + 1] = f[n] \o lists[n + 1]
      <3>1. n \in 0..N /\ n + 1 \in 1..N
        BY <1>0
      <3>2. f[n] \in State
        BY <2>4, <3>1
      <3>3. QED
        BY <2>3, <2>4, <3>1, <3>2
    <2> DEFINE g == [i \in 1..N |-> f[i]]
    <2>6. ASSUME NEW i \in 1..N
          PROVE  g[i] = Body(g)[i]
      <3>0. i - 1 \in 0..(N - 1) /\ i - 1 + 1 = i
        BY <1>0
      <3>1. f[i] = f[i - 1] \o lists[i]
        BY <2>5, <3>0
      <3>2. CASE i = 1
        <4>1. f[i - 1] = << >>
          BY <2>4, <3>2 DEF first
        <4>2. << >> \o lists[1] = lists[1]
          BY <1>0, <3>2
        <4>3. QED
          BY <3>1, <3>2, <4>1, <4>2
      <3>4. CASE i # 1
        <4>1. i - 1 \in 1..N
          BY <1>0, <3>4
        <4>2. g[i - 1] = f[i - 1]
          BY <4>1
        <4>3. QED
          BY <3>1, <3>4, <4>2
      <3>5. QED
        BY <3>2, <3>4
    <2>7. g = Body(g)
      BY <2>6
    <2> HIDE DEF g
    <2>8. r = Body(r)
      BY <2>7, Zenon
    <2>9. Joined(lists) = r[N]
      BY <1>2 DEF Joined, FlattenSeq, N
    <2> HIDE DEF r
    <2> DEFINE T == {n \in Nat : n \in 1..N => r[n] = f[n]}
    <2>10. 0 \in T
      OBVIOUS
    <2>11. ASSUME NEW n \in Nat, n \in T
           PROVE  n + 1 \in T
      <3> SUFFICES ASSUME n + 1 \in 1..N PROVE r[n + 1] = f[n + 1]
        OBVIOUS
      <3>0. n \in 0..(N - 1) /\ n + 1 \in 1..N /\ n + 1 - 1 = n
        BY <1>0
      <3>1. f[n + 1] = f[n] \o lists[n + 1]
        BY <2>5, <3>0
      <3>2. CASE n = 0
        <4>1. f[n] = << >>
          BY <2>4, <3>2 DEF first
        <4>2. << >> \o lists[1] = lists[1]
          BY <1>0, <3>0, <3>2
        <4>3. r[1] = lists[1]
          BY <2>8, <3>0, <3>2
        <4>4. QED
          BY <3>1, <3>2, <4>1, <4>2, <4>3
      <3>3. CASE n # 0
        <4>1. n \in 1..N /\ n + 1 # 1
          BY <1>0, <3>0, <3>3
        <4>2. r[n] = f[n]
          BY <2>11, <4>1
        <4>3. PICK k : k = n + 1
          OBVIOUS
        <4>4. k \in 1..N /\ k # 1 /\ k - 1 = n
          BY <1>0, <3>0, <4>1, <4>3
        <4>5. r[k] = r[k - 1] \o lists[k]
          BY <2>8, <4>4
        <4>6. r[k] = f[n] \o lists[k]
          BY <4>2, <4>4, <4>5
        <4>7. QED
          BY <3>1, <4>3, <4>6
      <3>4. QED
        BY <3>2, <3>3
    <2> HIDE DEF T
    <2>12. Nat \subseteq T
      BY <2>10, <2>11, NatSetInduction
    <2>13. N \in 1..N /\ N \in Nat
      BY <1>0, <1>2 DEF N
    <2>14. r[N] = f[N]
      BY <2>12, <2>13 DEF T
    <2>15. QED
      BY <2>4, <2>5, <2>9, <2>14 DEF N, State, first
  <1>3. QED
    BY <1>1, <1>2

(* Places of a joined list, one by one.                                    *)
LEMMA JoinedPlaces ==
  ASSUME NEW S, NEW lists \in Seq(Seq(S))
  PROVE  /\ Joined(lists) \in Seq(S)
         /\ \E at : Matches(at, Joined(lists), lists)
  <1> DEFINE N == Len(lists)
             Upto(n) == [i \in 1..n |-> lists[i]]
  <1>1. PICK f \in [0..N -> Seq(S)] :
            /\ f[0] = << >>
            /\ \A n \in 0..(N - 1) : f[n + 1] = f[n] \o lists[n + 1]
            /\ Joined(lists) = f[N]
    BY JoinedUnfolds
  <1>2. N \in Nat /\ DOMAIN lists = 1..N /\ \A i \in 1..N : lists[i] \in Seq(S)
    OBVIOUS
  <1> DEFINE T == {n \in Nat : n <= N => \E at : Matches(at, f[n], Upto(n))}
  <1> HIDE DEF N
  <1>3. 0 \in T
    <2>1. f[0] = << >>
      BY <1>1
    <2> DEFINE at == << >>
    <2>2. Spots(Upto(0)) = {}
      BY DEF Spots
    <2>3. Matches(at, << >>, Upto(0))
      BY <2>2 DEF Matches
    <2>4. QED
      BY <2>1, <2>3
  <1>4. ASSUME NEW n \in Nat, n \in T
        PROVE  n + 1 \in T
    <2> HIDE DEF Upto
    <2> SUFFICES ASSUME n + 1 <= N
                 PROVE  \E at : Matches(at, f[n + 1], Upto(n + 1))
      BY DEF T
    <2>0. n \in 0..(N - 1) /\ n \in 0..N /\ n <= N
      BY <1>2
    <2>1. PICK a : Matches(a, f[n], Upto(n))
      BY <1>4, <2>0 DEF T
    <2>2. PICK k : k = n + 1
      OBVIOUS
    <2>3. PICK s \in Seq(S) : s = f[n]
      BY <1>1, <1>2
    <2>4. PICK t \in Seq(S) : t = lists[k]
      BY <1>2, <2>2
    <2>5. PICK u : u = s \o t
      OBVIOUS
    <2>6. u = f[k]
      BY <1>1, <2>0, <2>2, <2>3, <2>4, <2>5
    <2>7. /\ Len(u) = Len(s) + Len(t) /\ DOMAIN u = 1..Len(u) /\ DOMAIN s = 1..Len(s) /\ DOMAIN t = 1..Len(t)
          /\ Len(s) \in Nat /\ Len(t) \in Nat
      BY <2>5
    <2>8. \A i \in 1..Len(s) : u[i] = s[i]
      BY <2>5
    <2>9. \A i \in 1..Len(t) : u[Len(s) + i] = t[i]
      BY <2>5
    <2> DEFINE at == [i \in DOMAIN u |-> IF i \in DOMAIN s THEN a[i] ELSE <<k, i - Len(s)>>]
    <2>10. DOMAIN a = DOMAIN s
      BY <2>1, <2>3 DEF Matches
    <2>11. Spots(Upto(k)) = Spots(Upto(n)) \cup ({k} \X DOMAIN t)
      <3>1. DOMAIN Upto(k) = DOMAIN Upto(n) \cup {k} /\ DOMAIN Upto(n) = 1..n
        BY <2>2 DEF Upto
      <3>2. Upto(k)[k] = t /\ \A i \in 1..n : Upto(k)[i] = Upto(n)[i]
        BY <2>2, <2>4 DEF Upto
      <3>3. QED
        BY <3>1, <3>2 DEF Spots
    <2>12. \A i \in DOMAIN s : at[i] = a[i] /\ at[i] \in Spots(Upto(n)) /\ at[i][1] \in 1..n
      <3>1. \A x \in Spots(Upto(n)) : x[1] \in 1..n
        BY DEF Spots, Upto
      <3>2. \A i \in DOMAIN s : at[i] = a[i]
        BY <2>7
      <3>3. \A i \in DOMAIN s : a[i] \in Spots(Upto(n))
        BY <2>1, <2>10 DEF Matches
      <3> HIDE DEF at
      <3>4. QED
        BY <3>1, <3>2, <3>3
    <2>13. \A i \in DOMAIN t : /\ Len(s) + i \in DOMAIN u /\ Len(s) + i \notin DOMAIN s
                               /\ at[Len(s) + i] = <<k, i>>
      BY <2>7
    <2>14. \A i \in DOMAIN u : i \in DOMAIN s \/ \E j \in DOMAIN t : i = Len(s) + j
      <3> SUFFICES ASSUME NEW i \in DOMAIN u, i \notin DOMAIN s
                   PROVE  \E j \in DOMAIN t : i = Len(s) + j
        OBVIOUS
      <3>1. i - Len(s) \in DOMAIN t /\ i = Len(s) + (i - Len(s))
        BY <2>7
      <3>2. QED
        BY <3>1
    <2>15. DOMAIN at = DOMAIN u
      OBVIOUS
    <2> HIDE DEF at
    <2>16. {at[i] : i \in DOMAIN at} = Spots(Upto(k))
      <3>1. ASSUME NEW i \in DOMAIN at
            PROVE  at[i] \in Spots(Upto(k))
        <4>1. CASE i \in DOMAIN s
          BY <4>1, <2>11, <2>12
        <4>2. CASE i \notin DOMAIN s
          <5>1. PICK j \in DOMAIN t : i = Len(s) + j
            BY <2>14, <2>15, <4>2
          <5>2. at[i] = <<k, j>>
            BY <2>13, <5>1
          <5>3. QED
            BY <2>11, <5>2
        <4>3. QED
          BY <4>1, <4>2
      <3>2. ASSUME NEW x \in Spots(Upto(k))
            PROVE  \E i \in DOMAIN at : at[i] = x
        <4>1. CASE x \in Spots(Upto(n))
          <5>1. PICK i \in DOMAIN s : a[i] = x
            BY <4>1, <2>1, <2>10 DEF Matches
          <5>2. i \in DOMAIN u
            BY <2>7
          <5>3. QED
            BY <2>12, <2>15, <5>1, <5>2
        <4>2. CASE x \in {k} \X DOMAIN t
          <5>1. PICK j \in DOMAIN t : x = <<k, j>>
            BY <4>2
          <5>2. QED
            BY <2>13, <2>15, <5>1
        <4>3. QED
          BY <2>11, <4>1, <4>2
      <3>3. QED
        BY <3>1, <3>2
    <2>17. ASSUME NEW i \in DOMAIN at, NEW m \in DOMAIN at, at[i] = at[m]
           PROVE  i = m
      <3>1. CASE i \in DOMAIN s /\ m \in DOMAIN s
        BY <3>1, <2>1, <2>10, <2>12, <2>17 DEF Matches
      <3>2. ASSUME NEW j \in DOMAIN at, j \notin DOMAIN s
            PROVE  \E l \in DOMAIN t : j = Len(s) + l /\ at[j] = <<k, l>>
        BY <2>13, <2>14, <2>15, <3>2
      <3>3. ASSUME NEW j \in DOMAIN at, j \in DOMAIN s
            PROVE  at[j][1] # k
        BY <2>2, <2>12, <3>3
      <3>4. CASE i \notin DOMAIN s /\ m \notin DOMAIN s
        <4>1. PICK l \in DOMAIN t : i = Len(s) + l /\ at[i] = <<k, l>>
          BY <3>2, <3>4
        <4>2. PICK q \in DOMAIN t : m = Len(s) + q /\ at[m] = <<k, q>>
          BY <3>2, <3>4
        <4>3. l = q
          BY <2>17, <4>1, <4>2
        <4>4. QED
          BY <4>1, <4>2, <4>3
      <3>5. CASE i \notin DOMAIN s /\ m \in DOMAIN s
        <4>1. at[i][1] = k
          BY <3>2, <3>5
        <4>2. QED
          BY <2>17, <3>3, <3>5, <4>1
      <3>6. CASE i \in DOMAIN s /\ m \notin DOMAIN s
        <4>1. at[m][1] = k
          BY <3>2, <3>6
        <4>2. QED
          BY <2>17, <3>3, <3>6, <4>1
      <3>7. QED
        BY <3>1, <3>4, <3>5, <3>6
    <2>18. ASSUME NEW i \in DOMAIN at
           PROVE  u[i] = Upto(k)[at[i][1]][at[i][2]]
      <3>1. CASE i \in DOMAIN s
        <4>1. s[i] = Upto(n)[a[i][1]][a[i][2]]
          BY <2>1, <2>3, <2>10, <3>1 DEF Matches
        <4>2. at[i] = a[i] /\ a[i][1] \in 1..n
          BY <2>12, <3>1
        <4>3. Upto(k)[a[i][1]] = Upto(n)[a[i][1]]
          BY <2>2, <4>2 DEF Upto
        <4>4. QED
          BY <2>7, <2>8, <3>1, <4>1, <4>2, <4>3
      <3>2. CASE i \notin DOMAIN s
        <4>1. PICK j \in DOMAIN t : i = Len(s) + j
          BY <2>14, <2>15, <3>2
        <4>2. at[i][1] = k /\ at[i][2] = j
          BY <2>13, <4>1
        <4>3. u[i] = t[j]
          BY <2>7, <2>9, <4>1
        <4>4. Upto(k)[k] = t
          BY <2>2, <2>4 DEF Upto
        <4>5. QED
          BY <4>2, <4>3, <4>4
      <3>3. QED
        BY <3>1, <3>2
    <2>19. Matches(at, u, Upto(k))
      BY <2>15, <2>16, <2>17, <2>18 DEF Matches
    <2>20. QED
      BY <2>2, <2>6, <2>19
  <1> HIDE DEF T
  <1>5. Nat \subseteq T
    BY <1>3, <1>4, NatSetInduction
  <1>6. N \in T /\ N <= N
    BY <1>2, <1>5
  <1>7. \E at : Matches(at, f[N], Upto(N))
    BY <1>6 DEF T
  <1>8. Upto(N) = lists
    BY <1>2
  <1>9. Joined(lists) \in Seq(S)
    BY <1>1, <1>2, N \in 0..N
  <1> HIDE DEF Upto
  <1>10. \E at : Matches(at, Joined(lists), lists)
    BY <1>1, <1>7, <1>8
  <1>11. QED
    BY <1>9, <1>10

(* The sentences of a joined text, each once if each part has them once.    *)
LEMMA JoinedTexts ==
  ASSUME NEW S, NEW texts \in Seq(Seq(S))
  PROVE  /\ ToSet(Joined(texts)) = UNION {ToSet(texts[i]) : i \in DOMAIN texts}
         /\ (/\ \A i \in DOMAIN texts : DistinctKeys(texts[i])
             /\ \A i, j \in DOMAIN texts : \A x \in ToSet(texts[i]) \cap ToSet(texts[j]) : i = j)
            => DistinctKeys(Joined(texts))
  <1> DEFINE joined == Joined(texts)
  <1>1. joined \in Seq(S)
    BY JoinedPlaces
  <1>2. PICK at : Matches(at, joined, texts)
    BY JoinedPlaces
  <1> HIDE DEF joined
  <1>3. \A k \in DOMAIN joined : /\ at[k] \in Spots(texts)
                                 /\ joined[k] = texts[at[k][1]][at[k][2]]
    BY <1>2 DEF Matches
  <1>4. \A k \in DOMAIN joined : at[k][1] \in DOMAIN texts /\ at[k][2] \in DOMAIN texts[at[k][1]]
                                 /\ at[k] = <<at[k][1], at[k][2]>>
    BY <1>3 DEF Spots
  <1>5. ASSUME NEW i \in DOMAIN texts, NEW j \in DOMAIN texts[i]
        PROVE  \E k \in DOMAIN joined : at[k] = <<i, j>>
    <2>1. PICK x : x = <<i, j>>
      OBVIOUS
    <2>2. x \in Spots(texts)
      BY <2>1 DEF Spots
    <2>3. x \in {at[k] : k \in DOMAIN at} /\ DOMAIN at = DOMAIN joined
      BY <1>2, <2>2 DEF Matches
    <2>4. QED
      BY <2>1, <2>3
  <1>6. ToSet(joined) = UNION {ToSet(texts[i]) : i \in DOMAIN texts}
    <2>1. ASSUME NEW k \in DOMAIN joined
          PROVE  \E i \in DOMAIN texts : joined[k] \in ToSet(texts[i])
      BY <1>3, <1>4 DEF ToSet
    <2>2. ASSUME NEW i \in DOMAIN texts, NEW j \in DOMAIN texts[i]
          PROVE  \E k \in DOMAIN joined : joined[k] = texts[i][j]
      <3>1. PICK k \in DOMAIN joined : at[k] = <<i, j>>
        BY <1>5
      <3>2. QED
        BY <1>3, <3>1
    <2>3. QED
      BY <2>1, <2>2 DEF ToSet
  <1>7. ASSUME \A i \in DOMAIN texts : DistinctKeys(texts[i]),
               \A i, j \in DOMAIN texts : \A x \in ToSet(texts[i]) \cap ToSet(texts[j]) : i = j
        PROVE  DistinctKeys(joined)
    <2>1. ASSUME NEW k \in DOMAIN joined, NEW m \in DOMAIN joined, joined[k] = joined[m]
          PROVE  k = m
      <3>1. /\ joined[k] \in ToSet(texts[at[k][1]])
            /\ joined[m] \in ToSet(texts[at[m][1]])
        BY <1>3, <1>4 DEF ToSet
      <3>2. at[k][1] = at[m][1]
        BY <1>4, <1>7, <2>1, <3>1
      <3>3. texts[at[k][1]][at[k][2]] = texts[at[k][1]][at[m][2]]
        BY <1>3, <2>1, <3>2
      <3>4. at[k][2] = at[m][2]
        BY <1>4, <1>7, <3>2, <3>3 DEF DistinctKeys
      <3>5. at[k] = at[m]
        BY <1>4, <3>2, <3>4
      <3>6. QED
        BY <1>2, <3>5 DEF Matches
    <2>2. IsList(joined)
      BY <1>1, IsListOf
    <2>3. QED
      BY <2>1, <2>2 DEF DistinctKeys
  <1>8. QED
    BY <1>6, <1>7 DEF joined

(* Parts of a text, of which none has a sentence of another.                *)
ApartParts(parts, S) ==
  /\ IsList(parts)
  /\ \A i \in DOMAIN parts : parts[i].text \in Seq(S) /\ DistinctKeys(parts[i].text)
  /\ \A i, j \in DOMAIN parts : \A x \in ToSet(parts[i].text) \cap ToSet(parts[j].text) : i = j

(* The text under a key: the sentences of its parts.                        *)
LEMMA UnderIs ==
  ASSUME NEW S, NEW parts, ApartParts(parts, S), NEW key
  PROVE  /\ AllUnder(parts, key) \in Seq(S) /\ DistinctKeys(AllUnder(parts, key))
         /\ \A x : x \in ToSet(AllUnder(parts, key)) <=>
                     \E i \in DOMAIN parts : parts[i].key = key /\ x \in ToSet(parts[i].text)
  <1> DEFINE texts == [i \in DOMAIN parts |-> IF parts[i].key = key THEN parts[i].text ELSE << >>]
  <1>1. /\ Len(parts) \in Nat /\ DOMAIN parts = 1..Len(parts)
    BY ListIs DEF ApartParts
  <1>2. \A i \in DOMAIN parts : texts[i] \in Seq(S)
    BY DEF ApartParts
  <1>3. texts \in Seq(Seq(S))
    BY <1>1, <1>2
  <1>4. DOMAIN texts = DOMAIN parts
    OBVIOUS
  <1>5. ToSet(<< >>) = {} /\ DistinctKeys(<< >>)
    BY DEF ToSet, DistinctKeys, IsList
  <1>6. \A i \in DOMAIN texts : DistinctKeys(texts[i])
    BY <1>5 DEF ApartParts
  <1>7. \A i \in DOMAIN texts : \A x : x \in ToSet(texts[i]) <=> parts[i].key = key /\ x \in ToSet(parts[i].text)
    BY <1>5
  <1>8. AllUnder(parts, key) = Joined(texts)
    BY DEF AllUnder
  <1> HIDE DEF texts
  <1>9. \A i, j \in DOMAIN texts : \A x \in ToSet(texts[i]) \cap ToSet(texts[j]) : i = j
    BY <1>4, <1>7 DEF ApartParts
  <1>10. /\ ToSet(Joined(texts)) = UNION {ToSet(texts[i]) : i \in DOMAIN texts}
         /\ DistinctKeys(Joined(texts)) /\ Joined(texts) \in Seq(S)
    BY <1>3, <1>6, <1>9, JoinedTexts, JoinedPlaces
  <1>11. QED
    BY <1>4, <1>7, <1>8, <1>10

(* Of each key one section, with all the text under it.                     *)
LEMMA GatherIs ==
  ASSUME NEW parts, IsList(parts), NEW all, all = Gather(parts)
  PROVE  /\ IsList(all)
         /\ \A n \in DOMAIN all : /\ all[n] = [key |-> all[n].key, text |-> AllUnder(parts, all[n].key)]
                                  /\ \E i \in DOMAIN parts : parts[i].key = all[n].key
         /\ \A i \in DOMAIN parts : \E n \in DOMAIN all : all[n].key = parts[i].key
         /\ \A m, n \in DOMAIN all : all[m].key = all[n].key => m = n
  <1> DEFINE ks == [i \in DOMAIN parts |-> parts[i].key]
             keys == Distinct(ks)
  <1>1. /\ Len(parts) \in Nat /\ DOMAIN parts = 1..Len(parts)
    BY ListIs
  <1>2. IsList(ks) /\ DOMAIN ks = DOMAIN parts
    BY <1>1 DEF IsList
  <1>3. \A i \in DOMAIN parts : ks[i] = parts[i].key
    OBVIOUS
  <1> HIDE DEF ks
  <1>4. DistinctKeys(keys) /\ ToSet(keys) = ToSet(ks)
    BY <1>2, DistinctIs
  <1>5. all = [n \in DOMAIN keys |-> [key |-> keys[n], text |-> AllUnder(parts, keys[n])]]
    BY DEF Gather, ks
  <1> HIDE DEF keys
  <1>6. IsList(keys) /\ Len(keys) \in Nat /\ DOMAIN keys = 1..Len(keys)
    BY <1>4, ListIs DEF DistinctKeys
  <1>7. DOMAIN all = DOMAIN keys /\ \A n \in DOMAIN all : all[n] = [key |-> keys[n], text |-> AllUnder(parts, keys[n])]
    BY <1>5
  <1>8. IsList(all)
    <2>1. all \in Seq({all[n] : n \in DOMAIN all})
      BY <1>5, <1>6
    <2>2. QED
      BY <2>1 DEF IsList
  <1>9. \A n \in DOMAIN all : all[n].key = keys[n]
    BY <1>7
  <1>10. \A n \in DOMAIN keys : \E i \in DOMAIN parts : parts[i].key = keys[n]
    BY <1>2, <1>3, <1>4 DEF ToSet
  <1>11. \A i \in DOMAIN parts : \E n \in DOMAIN keys : keys[n] = parts[i].key
    BY <1>2, <1>3, <1>4 DEF ToSet
  <1>12. \A m, n \in DOMAIN keys : keys[m] = keys[n] => m = n
    BY <1>4 DEF DistinctKeys
  <1>13. QED
    BY <1>7, <1>8, <1>9, <1>10, <1>11, <1>12

(* The size of a text, sentence by sentence.                                *)
LEMMA SizeUnfolds ==
  ASSUME NEW text, IsList(text), \A i \in DOMAIN text : text[i].length \in Nat
  PROVE  \E f \in [0..Len(text) -> Int] :
            /\ f[0] = 0 - 1
            /\ \A n \in 0..(Len(text) - 1) : f[n + 1] = f[n] + 1 + text[n + 1].length
            /\ text # << >> => Size(text) = f[Len(text)]
  <1> DEFINE N == Len(text)
             first == 0 - 1
             step == [z \in Int \X (1..N) |-> z[1] + 1 + text[z[2]].length]
             Body(h) == [n \in 0..N |-> IF n = 0 THEN -1 ELSE h[n - 1] + 1 + text[n].length]
             r == CHOOSE h : h = Body(h)
  <1>1. N \in Nat /\ DOMAIN text = 1..N
    BY ListIs
  <1>2. text # << >> => Size(text) = r[N]
    BY DEF Size
  <1>3. first \in Int /\ first = -1
    OBVIOUS
  <1>4. \A z \in Int : \A n \in 1..N : step[<<z, n>>] = z + 1 + text[n].length
    OBVIOUS
  <1> HIDE DEF step, N
  <1> DEFINE State == Int
  <1>5. StepsWithin(step, State, N)
    <2> SUFFICES ASSUME NEW z \in Int, NEW n \in 1..N
                 PROVE  step[<<z, n>>] \in Int
      BY DEF StepsWithin
    <2>1. text[n].length \in Int
      BY <1>1
    <2>2. QED
      BY <1>4, <2>1
  <1> HIDE DEF State, first
  <1>6. first \in State
    BY <1>3 DEF State
  <1>7. \E f \in [0..N -> State] : f[0] = first /\ \A n \in 0..(N - 1) : f[n + 1] = step[<<f[n], n + 1>>]
    BY <1>1, <1>5, <1>6, Recursion
  <1>8. PICK f \in [0..N -> Int] : f[0] = first /\ \A n \in 0..(N - 1) : f[n + 1] = step[<<f[n], n + 1>>]
    BY <1>7 DEF State
  <1>9. ASSUME NEW n \in 0..(N - 1)
        PROVE  f[n] \in Int /\ f[n + 1] = f[n] + 1 + text[n + 1].length
    <2>1. n \in 0..N /\ n + 1 \in 1..N
      BY <1>1
    <2>2. f[n] \in Int
      BY <1>8, <2>1
    <2>3. QED
      BY <1>4, <1>8, <2>1, <2>2
  <1>10. ASSUME NEW n \in 0..N
        PROVE  f[n] = Body(f)[n]
    <2>1. CASE n = 0
      BY <1>3, <1>8, <2>1
    <2>2. CASE n # 0
      <3>1. n - 1 \in 0..(N - 1) /\ n - 1 + 1 = n
        BY <1>1, <2>2
      <3>2. f[n] = f[n - 1] + 1 + text[n].length
        BY <1>9, <3>1
      <3>3. QED
        BY <2>2, <3>2
    <2>3. QED
      BY <2>1, <2>2
  <1>11. f = Body(f)
    BY <1>8, <1>10
  <1>12. r = Body(r)
    BY <1>11
  <1> HIDE DEF r
  <1> DEFINE T == {n \in Nat : n <= N => r[n] = f[n]}
  <1>13. 0 \in T
    <2>1. 0 \in 0..N
      BY <1>1
    <2>2. QED
      BY <1>11, <1>12, <2>1
  <1>14. ASSUME NEW n \in Nat, n \in T
         PROVE  n + 1 \in T
    <2> SUFFICES ASSUME n + 1 <= N PROVE r[n + 1] = f[n + 1]
      OBVIOUS
    <2>1. PICK k : k = n + 1
      OBVIOUS
    <2>2. k \in 0..N /\ k # 0 /\ k - 1 = n /\ n \in 0..(N - 1) /\ n <= N
      BY <1>1, <2>1
    <2>3. r[k] = r[k - 1] + 1 + text[k].length
      BY <1>12, <2>2
    <2>4. f[k] = f[n] + 1 + text[k].length
      BY <1>9, <2>1, <2>2
    <2>5. r[n] = f[n]
      BY <1>14, <2>2
    <2>6. QED
      BY <2>1, <2>2, <2>3, <2>4, <2>5
  <1> HIDE DEF T
  <1>15. Nat \subseteq T
    BY <1>13, <1>14, NatSetInduction
  <1>16. N \in T /\ N <= N
    BY <1>1, <1>15
  <1>17. r[N] = f[N]
    BY <1>16 DEF T
  <1>18. QED
    BY <1>2, <1>3, <1>8, <1>9, <1>17 DEF N

(* A size is 0 of an empty text only, and of one sentence is its length.    *)
LEMMA SizeIs ==
  ASSUME NEW text, IsList(text), \A i \in DOMAIN text : text[i].length \in Nat
  PROVE  /\ Size(text) \in Nat
         /\ text # << >> /\ (\A i \in DOMAIN text : text[i].length # 0) => Size(text) # 0
         /\ Len(text) = 1 => Size(text) = text[1].length
  <1> DEFINE N == Len(text)
  <1>1. N \in Nat /\ DOMAIN text = 1..N /\ (text # << >> <=> N # 0)
    BY ListIs
  <1>2. PICK f \in [0..N -> Int] :
            /\ f[0] = 0 - 1
            /\ \A n \in 0..(N - 1) : f[n + 1] = f[n] + 1 + text[n + 1].length
            /\ text # << >> => Size(text) = f[N]
    BY SizeUnfolds
  <1> HIDE DEF N
  <1> DEFINE T == {n \in Nat : n <= N => /\ f[n] \in Int /\ f[n] >= n - 1
                                         /\ n # 0 /\ (\A i \in DOMAIN text : text[i].length # 0) => f[n] >= n}
  <1>3. 0 \in T
    BY <1>1, <1>2
  <1>4. ASSUME NEW n \in Nat, n \in T
        PROVE  n + 1 \in T
    <2> SUFFICES ASSUME n + 1 <= N
                 PROVE  /\ f[n + 1] \in Int /\ f[n + 1] >= n
                        /\ (\A i \in DOMAIN text : text[i].length # 0) => f[n + 1] >= n + 1
      OBVIOUS
    <2>1. n \in 0..(N - 1) /\ n <= N /\ n + 1 \in DOMAIN text
      BY <1>1
    <2>2. f[n + 1] = f[n] + 1 + text[n + 1].length /\ text[n + 1].length \in Nat
      BY <1>2, <2>1
    <2>3. f[n] \in Int /\ f[n] >= n - 1
      BY <1>4, <2>1
    <2>4. QED
      BY <2>1, <2>2, <2>3
  <1> HIDE DEF T
  <1>5. Nat \subseteq T
    BY <1>3, <1>4, NatSetInduction
  <1>6. N \in T /\ N <= N
    BY <1>1, <1>5
  <1>7. /\ f[N] \in Int /\ f[N] >= N - 1
        /\ N # 0 /\ (\A i \in DOMAIN text : text[i].length # 0) => f[N] >= N
    BY <1>6 DEF T
  <1>8. CASE N = 0
    <2>1. Size(text) = 0
      BY <1>1, <1>8 DEF Size
    <2>2. QED
      BY <1>1, <1>8, <2>1 DEF N
  <1>9. CASE N # 0
    <2>1. Size(text) = f[N] /\ text # << >>
      BY <1>1, <1>2, <1>9
    <2>2. N = 1 => f[1] = text[1].length
      <3> SUFFICES ASSUME N = 1 PROVE f[1] = text[1].length
        OBVIOUS
      <3>1. 0 \in 0..(N - 1) /\ 1 \in DOMAIN text
        BY <1>1
      <3>2. f[0 + 1] = f[0] + 1 + text[0 + 1].length /\ text[1].length \in Nat
        BY <1>2, <3>1
      <3>3. 0 + 1 = 1
        OBVIOUS
      <3>4. f[1] = 0 - 1 + 1 + text[1].length
        BY <1>2, <3>2, <3>3
      <3>5. QED
        BY <3>2, <3>4
    <2>3. QED
      BY <1>1, <1>7, <1>9, <2>1, <2>2 DEF N
  <1>10. QED
    BY <1>8, <1>9

-----------------------------------------------------------------------------
Sentence == [file : Nat, line : Nat, nth : Nat, length : Nat \ {0}]

PieceOf == {x \in [of : Sentence, from : Nat, to : Nat] : x.from < x.to}

LEMMA ChunkLengthIs ==
  ASSUME NEW chunk \in Seq(PieceOf), chunk # << >>
  PROVE  /\ ChunkLength(chunk) \in Nat \ {0}
         /\ Len(chunk) = 1 => ChunkLength(chunk) = chunk[1].to - chunk[1].from
  <1> DEFINE t == [i \in DOMAIN chunk |-> [length |-> chunk[i].to - chunk[i].from]]
  <1>1. Len(chunk) \in Nat /\ DOMAIN chunk = 1..Len(chunk) /\ Len(chunk) # 0
    OBVIOUS
  <1>2. \A i \in DOMAIN chunk : chunk[i] \in PieceOf
    OBVIOUS
  <1>3. \A i \in DOMAIN chunk : t[i].length = chunk[i].to - chunk[i].from /\ t[i].length \in Nat \ {0}
    BY <1>2 DEF PieceOf
  <1>4. IsList(t) /\ Len(t) = Len(chunk) /\ DOMAIN t = DOMAIN chunk /\ t # << >>
    <2>1. t \in Seq({t[i] : i \in DOMAIN t}) /\ DOMAIN t = 1..Len(chunk)
      BY <1>1
    <2>2. Len(t) = Len(chunk)
      BY <1>1, <2>1
    <2>3. QED
      BY <1>1, <2>1, <2>2 DEF IsList
  <1>5. ChunkLength(chunk) = Size(t)
    BY DEF ChunkLength
  <1> HIDE DEF t
  <1>6. /\ Size(t) \in Nat /\ Size(t) # 0 /\ (Len(t) = 1 => Size(t) = t[1].length)
    BY <1>3, <1>4, SizeIs
  <1>7. QED
    BY <1>1, <1>3, <1>4, <1>5, <1>6

(* The lists of chunks that hold a piece of a sentence, and the pieces.     *)
HoldersIn(list, s) == {n \in DOMAIN list : \E x \in ToSet(list[n]) : x.of = s}

PiecesIn(list, s) == {x \in UNION {ToSet(list[n]) : n \in DOMAIN list} : x.of = s}

CoveredBy(pieces, s) ==
  \A at \in {0} \cup {x.to : x \in pieces} :
    at < s.length => \E x \in pieces : x.from <= at /\ at < x.to

(* A sentence is in the chunks, and in one of them if it is short.          *)
HeldIn(list, s) ==
  /\ CoveredBy(PiecesIn(list, s), s)
  /\ s.length <= ChunkSize => /\ PiecesIn(list, s) = {Piece(s, 0, s.length)}
                              /\ \E n : HoldersIn(list, s) = {n}

FitIn(list) == \A n \in DOMAIN list : ChunkLength(list[n]) \in 1..ChunkSize

LEMMA SingleIs ==
  ASSUME NEW S, NEW x \in S, NEW c, c = <<x>>
  PROVE  c \in Seq(S) /\ c # << >> /\ Len(c) = 1 /\ c[1] = x /\ DOMAIN c = {1} /\ ToSet(c) = {x}
  <1>1. <<x>> \in Seq(S) /\ <<x>> # << >> /\ Len(<<x>>) = 1 /\ <<x>>[1] = x
    OBVIOUS
  <1>2. DOMAIN <<x>> = {1}
    OBVIOUS
  <1>3. ToSet(<<x>>) = {x}
    BY <1>1, <1>2 DEF ToSet
  <1>4. QED
    BY <1>1, <1>2, <1>3

LEMMA WholeIs ==
  ASSUME NEW s \in Sentence
  PROVE  /\ Piece(s, 0, s.length) \in PieceOf
         /\ <<Piece(s, 0, s.length)>> \in Seq(PieceOf)
         /\ ChunkLength(<<Piece(s, 0, s.length)>>) = s.length
         /\ ToSet(<<Piece(s, 0, s.length)>>) = {Piece(s, 0, s.length)}
  <1> DEFINE x == Piece(s, 0, s.length)
  <1>1. x \in PieceOf /\ x.from = 0 /\ x.to = s.length
    BY DEF Piece, PieceOf, Sentence
  <1> HIDE DEF x
  <1>2. PICK c : c = <<x>>
    OBVIOUS
  <1>3. c \in Seq(PieceOf) /\ c # << >> /\ Len(c) = 1 /\ c[1] = x /\ DOMAIN c = {1} /\ ToSet(c) = {x}
    BY <1>1, <1>2, SingleIs
  <1>4. ChunkLength(c) = c[1].to - c[1].from
    BY <1>3, ChunkLengthIs
  <1>5. s.length \in Nat
    BY DEF Sentence
  <1>6. QED
    BY <1>1, <1>2, <1>3, <1>4, <1>5 DEF x

LEMMA MaxOfTwo ==
  ASSUME NEW a \in Int, NEW b \in Int
  PROVE  /\ Max({a, b}) = IF a >= b THEN a ELSE b
         /\ Min({a, b}) = IF a <= b THEN a ELSE b
  <1> DEFINE S == {a, b}
  <1>1. S \in SUBSET Int /\ IsFiniteSet(S) /\ S # {}
    <2>1. IsFiniteSet({a}) /\ {a} \cup {b} = S
      BY FS_Singleton
    <2>2. IsFiniteSet({a} \cup {b})
      BY <2>1, FS_AddElement
    <2>3. QED
      BY <2>1, <2>2
  <1>2. a \in S /\ b \in S /\ \A x \in S : x = a \/ x = b
    OBVIOUS
  <1> HIDE DEF S
  <1>3. Max(S) \in S /\ (\A x \in S : Max(S) >= x) /\ Min(S) \in S /\ \A x \in S : Min(S) <= x
    BY <1>1, LeastOfSet, MostOfSet
  <1>4. (Max(S) = a \/ Max(S) = b) /\ Max(S) >= a /\ Max(S) >= b
    BY <1>2, <1>3
  <1>5. (Min(S) = a \/ Min(S) = b) /\ Min(S) <= a /\ Min(S) <= b
    BY <1>2, <1>3
  <1>6. QED
    BY <1>4, <1>5 DEF S

(* Where the cuts of a long sentence begin, for a stride of at most a chunk. *)
LEMMA CutsCover ==
  ASSUME NEW size \in Nat \ {0}, NEW stride \in 1..size, NEW length \in Nat, length > size,
         NEW more, more = (length - size + stride - 1) \div stride
  PROVE  /\ more \in Nat
         /\ \A i \in 0..more : i * stride \in Nat /\ i * stride < length
         /\ more * stride + size >= length
  <1> DEFINE a == length - size + stride - 1
  <1>1. a \in Nat
    OBVIOUS
  <1>2. more \in Nat /\ stride * more <= a /\ a < stride * more + stride
    BY <1>1, Quotient
  <1>3. stride * more \in Nat /\ more * stride = stride * more
    BY <1>2
  <1>4. \A i \in 0..more : i * stride \in Nat /\ i * stride <= more * stride
    BY <1>2
  <1>5. QED
    BY <1>2, <1>3, <1>4

(* The cuts of a long sentence are not too long, and cover it.               *)
LEMMA CutsAre ==
  ASSUME NEW s \in Sentence, s.length > ChunkSize, NEW cuts, cuts = Cuts(s)
  PROVE  /\ cuts \in Seq(Seq(PieceOf)) /\ FitIn(cuts) /\ HeldIn(cuts, s)
         /\ \A n \in DOMAIN cuts : \A x \in ToSet(cuts[n]) : x.of = s
  <1> DEFINE stride == Max({ChunkSize - ChunkOverlap, 1})
             more == (s.length - ChunkSize + stride - 1) \div stride
             start(k) == k * stride
             to(i) == Min({s.length, start(i - 1) + ChunkSize})
  <1>1. ChunkSize \in Nat \ {0} /\ ChunkOverlap \in Nat /\ s.length \in Nat
    BY SizesAssumption DEF Sentence
  <1>2. stride \in 1..ChunkSize
    <2>1. PICK d \in Int : d = ChunkSize - ChunkOverlap
      BY <1>1
    <2>2. Max({d, 1}) = IF d >= 1 THEN d ELSE 1
      BY MaxOfTwo
    <2>3. QED
      BY <1>1, <2>1, <2>2
  <1>3. cuts = [i \in 1..(more + 1) |-> <<Piece(s, start(i - 1), to(i))>>]
    BY DEF Cuts
  <1> HIDE DEF stride
  <1>4. /\ more \in Nat
        /\ \A i \in 0..more : start(i) \in Nat /\ start(i) < s.length
        /\ start(more) + ChunkSize >= s.length
    BY <1>1, <1>2, CutsCover
  <1>5. \A i \in 1..more : start(i) = start(i - 1) + stride
    BY <1>2, <1>4
  <1>6. start(0) = 0
    BY <1>2
  <1> HIDE DEF more, start
  <1>7. ASSUME NEW i \in 1..(more + 1)
        PROVE  /\ to(i) = IF s.length <= start(i - 1) + ChunkSize THEN s.length ELSE start(i - 1) + ChunkSize
               /\ to(i) \in Nat /\ start(i - 1) \in Nat /\ start(i - 1) < to(i)
               /\ to(i) - start(i - 1) \in 1..ChunkSize
               /\ to(i) <= s.length
    <2>1. i - 1 \in 0..more
      BY <1>4
    <2>2. start(i - 1) \in Nat /\ start(i - 1) < s.length
      BY <1>4, <2>1
    <2>3. PICK e \in Int : e = start(i - 1) + ChunkSize
      BY <1>1, <2>2
    <2>4. PICK b \in Int : b = s.length
      BY <1>1
    <2>5. Min({b, e}) = IF b <= e THEN b ELSE e
      BY MaxOfTwo
    <2>6. to(i) = IF b <= e THEN b ELSE e
      BY <2>3, <2>4, <2>5
    <2>7. QED
      BY <1>1, <2>2, <2>3, <2>4, <2>6
  <1> DEFINE piece(i) == Piece(s, start(i - 1), to(i))
  <1>8. ASSUME NEW i \in 1..(more + 1)
        PROVE  /\ piece(i) \in PieceOf /\ piece(i).of = s /\ piece(i).from = start(i - 1) /\ piece(i).to = to(i)
    <2> HIDE DEF to
    <2>1. QED
      BY <1>7 DEF Piece, PieceOf
  <1>9. DOMAIN cuts = 1..(more + 1) /\ \A i \in 1..(more + 1) : cuts[i] = <<piece(i)>>
    BY <1>3
  <1> HIDE DEF piece, to
  <1>10. ASSUME NEW i \in 1..(more + 1)
         PROVE  cuts[i] \in Seq(PieceOf) /\ ToSet(cuts[i]) = {piece(i)} /\ ChunkLength(cuts[i]) \in 1..ChunkSize
    <2>1. PICK c : c = <<piece(i)>>
      OBVIOUS
    <2>2. c \in Seq(PieceOf) /\ c # << >> /\ Len(c) = 1 /\ c[1] = piece(i) /\ DOMAIN c = {1} /\ ToSet(c) = {piece(i)}
      BY <1>8, <2>1, SingleIs
    <2>3. ChunkLength(c) = c[1].to - c[1].from
      BY <2>2, ChunkLengthIs
    <2>4. QED
      BY <1>7, <1>8, <1>9, <2>1, <2>2, <2>3
  <1>11. cuts \in Seq(Seq(PieceOf))
    <2>1. more + 1 \in Nat /\ cuts = [i \in 1..(more + 1) |-> cuts[i]]
      BY <1>3, <1>4
    <2>2. QED
      BY <1>10, <2>1
  <1>12. PiecesIn(cuts, s) = {piece(i) : i \in 1..(more + 1)}
    BY <1>8, <1>9, <1>10 DEF PiecesIn
  <1> HIDE DEF piece
  <1>13. ASSUME NEW at \in {0} \cup {x.to : x \in PiecesIn(cuts, s)}, at < s.length
         PROVE  \E x \in PiecesIn(cuts, s) : x.from <= at /\ at < x.to
    <2>1. CASE at = 0
      <3>1. 1 \in 1..(more + 1)
        BY <1>4
      <3>2. piece(1).from = start(1 - 1) /\ piece(1).to = to(1) /\ start(1 - 1) < to(1) /\ 1 - 1 = 0
        BY <1>7, <1>8, <3>1
      <3>3. piece(1).from = 0 /\ 0 < piece(1).to
        BY <1>6, <3>2
      <3>4. piece(1) \in PiecesIn(cuts, s)
        BY <1>12, <3>1
      <3>5. QED
        BY <2>1, <3>3, <3>4
    <2>2. ASSUME NEW i \in 1..(more + 1), at = to(i)
          PROVE  \E x \in PiecesIn(cuts, s) : x.from <= at /\ at < x.to
      <3>1. at = start(i - 1) + ChunkSize /\ start(i - 1) \in Nat
        BY <1>1, <1>7, <1>13, <2>2
      <3>2. i # more + 1
        <4> SUFFICES ASSUME i = more + 1 PROVE FALSE
          OBVIOUS
        <4>1. i - 1 = more
          BY <1>4
        <4>2. start(more) \in Nat /\ at = start(more) + ChunkSize
          BY <3>1, <4>1
        <4>3. QED
          BY <1>1, <1>4, <1>13, <4>2
      <3>3. PICK j : j = i + 1
        OBVIOUS
      <3>4. j \in 1..(more + 1) /\ j - 1 = i /\ i \in 1..more
        BY <1>4, <3>2, <3>3
      <3>5. start(i) = start(i - 1) + stride /\ stride \in 1..ChunkSize
        BY <1>2, <1>5, <3>4
      <3>6. piece(j).from = start(i) /\ piece(j).to = to(j) /\ start(i) < to(j)
            /\ to(j) = IF s.length <= start(i) + ChunkSize THEN s.length ELSE start(i) + ChunkSize
        BY <1>7, <1>8, <3>4
      <3>7. piece(j).from <= at /\ at < piece(j).to
        BY <1>1, <1>13, <3>1, <3>5, <3>6
      <3>8. QED
        BY <1>12, <3>4, <3>7
    <2>3. at = 0 \/ \E i \in 1..(more + 1) : at = to(i)
      BY <1>8, <1>12, <1>13
    <2>4. QED
      BY <2>1, <2>2, <2>3
  <1>14. HeldIn(cuts, s)
    BY <1>1, <1>13 DEF HeldIn, CoveredBy
  <1>15. FitIn(cuts)
    BY <1>9, <1>10 DEF FitIn
  <1>16. \A n \in DOMAIN cuts : \A x \in ToSet(cuts[n]) : x.of = s
    BY <1>8, <1>9, <1>10
  <1>17. QED
    BY <1>11, <1>14, <1>15, <1>16

Follows(u, a, b) == u = a \o b

(* The places of a list that is two lists, one after the other.             *)
TwoLists(u, a, b) ==
  /\ Len(a) \in Nat
  /\ DOMAIN u = DOMAIN a \cup MovedOn(Len(a), DOMAIN b)
  /\ DOMAIN a \cap MovedOn(Len(a), DOMAIN b) = {}
  /\ \A i \in DOMAIN a : u[i] = a[i]
  /\ \A i \in DOMAIN b : Len(a) + i \in DOMAIN u /\ u[Len(a) + i] = b[i]

LEMMA ConcatIs ==
  ASSUME NEW S, NEW a \in Seq(S), NEW b \in Seq(S), NEW u, Follows(u, a, b)
  PROVE  u \in Seq(S) /\ TwoLists(u, a, b)
  <1>1. /\ u \in Seq(S) /\ Len(u) = Len(a) + Len(b) /\ DOMAIN u = 1..Len(u)
        /\ DOMAIN a = 1..Len(a) /\ DOMAIN b = 1..Len(b) /\ Len(a) \in Nat /\ Len(b) \in Nat
    BY DEF Follows
  <1>2. \A i \in 1..Len(a) : u[i] = a[i]
    BY DEF Follows
  <1>3. \A i \in 1..Len(b) : u[Len(a) + i] = b[i]
    BY DEF Follows
  <1>4. \A i \in DOMAIN b : Len(a) + i \in DOMAIN u /\ Len(a) + i \notin DOMAIN a
    BY <1>1
  <1>5. DOMAIN a \subseteq DOMAIN u
    BY <1>1
  <1>6. ASSUME NEW i \in DOMAIN u, i \notin DOMAIN a
        PROVE  i \in MovedOn(Len(a), DOMAIN b)
    <2>1. i - Len(a) \in DOMAIN b /\ i = Len(a) + (i - Len(a))
      BY <1>1, <1>6
    <2>2. QED
      BY <2>1 DEF MovedOn
  <1>7. DOMAIN u = DOMAIN a \cup MovedOn(Len(a), DOMAIN b)
    BY <1>4, <1>5, <1>6 DEF MovedOn
  <1>8. DOMAIN a \cap MovedOn(Len(a), DOMAIN b) = {}
    BY <1>4 DEF MovedOn
  <1>9. QED
    BY <1>1, <1>2, <1>3, <1>4, <1>7, <1>8 DEF TwoLists

OnlyOf(list, old) == \A n \in DOMAIN list : \A x \in ToSet(list[n]) : x.of \in old

LEMMA NoneOf ==
  ASSUME NEW list, NEW old, OnlyOf(list, old), NEW s, s \notin old
  PROVE  HoldersIn(list, s) = {} /\ PiecesIn(list, s) = {}
  BY DEF OnlyOf, HoldersIn, PiecesIn

(* A sentence of one of two lists is held by them together.                 *)
LEMMA ConcatHolds ==
  ASSUME NEW S, NEW a \in Seq(S), NEW b \in Seq(S), NEW u, Follows(u, a, b)
  PROVE  /\ FitIn(a) /\ FitIn(b) => FitIn(u)
         /\ \A s : HeldIn(a, s) /\ HoldersIn(b, s) = {} /\ PiecesIn(b, s) = {} => HeldIn(u, s)
         /\ \A s : HeldIn(b, s) /\ HoldersIn(a, s) = {} /\ PiecesIn(a, s) = {} => HeldIn(u, s)
         /\ \A old, new : OnlyOf(a, old) /\ OnlyOf(b, new) => OnlyOf(u, old \cup new)
  <1>1. /\ Len(a) \in Nat
        /\ DOMAIN u = DOMAIN a \cup MovedOn(Len(a), DOMAIN b)
        /\ \A i \in DOMAIN a : u[i] = a[i]
        /\ \A i \in DOMAIN b : u[Len(a) + i] = b[i]
    <2>1. TwoLists(u, a, b)
      BY ConcatIs
    <2>2. QED
      BY <2>1 DEF TwoLists
  <1>2. PICK off \in Nat : off = Len(a)
    BY <1>1
  <1>3. /\ \A i \in DOMAIN u : (i \in DOMAIN a /\ u[i] = a[i]) \/ \E j \in DOMAIN b : i = off + j /\ u[i] = b[j]
        /\ \A i \in DOMAIN a : i \in DOMAIN u /\ u[i] = a[i]
        /\ \A i \in DOMAIN b : off + i \in DOMAIN u /\ u[off + i] = b[i]
    BY <1>1, <1>2 DEF MovedOn
  <1>4. ASSUME NEW s
        PROVE  /\ PiecesIn(u, s) = PiecesIn(a, s) \cup PiecesIn(b, s)
               /\ HoldersIn(u, s) = HoldersIn(a, s) \cup MovedOn(off, HoldersIn(b, s))
    <2>1. PiecesIn(u, s) \subseteq PiecesIn(a, s) \cup PiecesIn(b, s)
      BY <1>3 DEF PiecesIn
    <2>2. PiecesIn(a, s) \subseteq PiecesIn(u, s)
      BY <1>3 DEF PiecesIn
    <2>3. ASSUME NEW x \in PiecesIn(b, s)
          PROVE  x \in PiecesIn(u, s)
      <3>1. PICK j \in DOMAIN b : x \in ToSet(b[j]) /\ x.of = s
        BY DEF PiecesIn
      <3>2. off + j \in DOMAIN u /\ x \in ToSet(u[off + j])
        BY <1>3, <3>1
      <3>3. QED
        BY <3>1, <3>2 DEF PiecesIn
    <2>4. HoldersIn(u, s) \subseteq HoldersIn(a, s) \cup MovedOn(off, HoldersIn(b, s))
      BY <1>3 DEF HoldersIn, MovedOn
    <2>5. HoldersIn(a, s) \subseteq HoldersIn(u, s)
      BY <1>3 DEF HoldersIn
    <2>6. MovedOn(off, HoldersIn(b, s)) \subseteq HoldersIn(u, s)
      BY <1>3 DEF HoldersIn, MovedOn
    <2>7. QED
      BY <2>1, <2>2, <2>3, <2>4, <2>5, <2>6
  <1>5. ASSUME NEW s, HeldIn(a, s), HoldersIn(b, s) = {}, PiecesIn(b, s) = {}
        PROVE  HeldIn(u, s)
    <2>1. MovedOn(off, {}) = {}
      BY DEF MovedOn
    <2>2. PiecesIn(u, s) = PiecesIn(a, s) /\ HoldersIn(u, s) = HoldersIn(a, s)
      BY <1>4, <1>5, <2>1
    <2>3. QED
      BY <1>5, <2>2 DEF HeldIn
  <1>6. ASSUME NEW s, HeldIn(b, s), HoldersIn(a, s) = {}, PiecesIn(a, s) = {}
        PROVE  HeldIn(u, s)
    <2>1. PiecesIn(u, s) = PiecesIn(b, s) /\ HoldersIn(u, s) = MovedOn(off, HoldersIn(b, s))
      BY <1>4, <1>6
    <2>2. ASSUME NEW n, HoldersIn(b, s) = {n}
          PROVE  HoldersIn(u, s) = {off + n}
      BY <2>1, <2>2 DEF MovedOn
    <2>3. QED
      BY <1>6, <2>1, <2>2 DEF HeldIn
  <1>7. ASSUME FitIn(a), FitIn(b)
        PROVE  FitIn(u)
    BY <1>3, <1>7 DEF FitIn
  <1>8. ASSUME NEW old, NEW new, OnlyOf(a, old), OnlyOf(b, new)
        PROVE  OnlyOf(u, old \cup new)
    BY <1>3, <1>8 DEF OnlyOf
  <1>9. QED
    BY <1>5, <1>6, <1>7, <1>8

-----------------------------------------------------------------------------
CutState == [done : Seq(Seq(PieceOf)), current : Seq(PieceOf)]

(* The sentences collected or cut so far.                                  *)
CutSoFar(state, old) ==
  /\ state \in CutState
  /\ FitIn(Flushed(state))
  /\ OnlyOf(Flushed(state), old)
  /\ \A s \in old : HeldIn(Flushed(state), s)

LEMMA FlushedIs ==
  ASSUME NEW state \in CutState
  PROVE  /\ Flushed(state) \in Seq(Seq(PieceOf))
         /\ state.current = << >> => Flushed(state) = state.done
         /\ state.current # << >> => Flushed(state) = state.done \o <<state.current>>
  <1>1. state.done \in Seq(Seq(PieceOf)) /\ state.current \in Seq(PieceOf)
    BY DEF CutState
  <1>2. \A S : \A list \in Seq(S) : \A x \in S : Append(list, x) = list \o <<x>>
    OBVIOUS
  <1>3. state.current # << >> => /\ Flushed(state) = Append(state.done, state.current)
                                /\ Flushed(state) \in Seq(Seq(PieceOf))
    BY <1>1 DEF Flushed
  <1>4. QED
    BY <1>1, <1>2, <1>3 DEF Flushed

OneMore(more, list, chunk, k) ==
  /\ DOMAIN more = DOMAIN list \cup {k} /\ k \notin DOMAIN list
  /\ more[k] = chunk
  /\ \A n \in DOMAIN list : more[n] = list[n]

LEMMA OneMoreChunk ==
  ASSUME NEW list \in Seq(Seq(PieceOf)), NEW chunk \in Seq(PieceOf), NEW more, Follows(more, list, <<chunk>>)
  PROVE  OneMore(more, list, chunk, Len(list) + 1)
  <1>1. PICK b : b = <<chunk>>
    OBVIOUS
  <1>2. b \in Seq(Seq(PieceOf)) /\ b[1] = chunk /\ DOMAIN b = {1} /\ Follows(more, list, b)
    BY <1>1, SingleIs
  <1>3. /\ more \in Seq(Seq(PieceOf)) /\ Len(list) \in Nat
        /\ DOMAIN more = DOMAIN list \cup MovedOn(Len(list), DOMAIN b)
        /\ DOMAIN list \cap MovedOn(Len(list), DOMAIN b) = {}
        /\ \A i \in DOMAIN list : more[i] = list[i]
        /\ \A i \in DOMAIN b : Len(list) + i \in DOMAIN more /\ more[Len(list) + i] = b[i]
    <2>1. more \in Seq(Seq(PieceOf)) /\ TwoLists(more, list, b)
      BY <1>2, ConcatIs
    <2>2. QED
      BY <2>1 DEF TwoLists
  <1>4. MovedOn(Len(list), DOMAIN b) = {Len(list) + 1}
    BY <1>2 DEF MovedOn
  <1>5. QED
    BY <1>2, <1>3, <1>4 DEF OneMore

(* Whatever follows what was flushed, if it holds the next sentence.        *)
LEMMA FlushedAndMore ==
  ASSUME NEW state, NEW old, CutSoFar(state, old), NEW s \in Sentence, s \notin old,
         NEW next \in CutState, NEW more \in Seq(Seq(PieceOf)), FitIn(more), HeldIn(more, s), OnlyOf(more, {s}),
         Follows(Flushed(next), Flushed(state), more)
  PROVE  CutSoFar(next, old \cup {s})
  <1>1. PICK a \in Seq(Seq(PieceOf)) : a = Flushed(state)
    BY FlushedIs DEF CutSoFar
  <1>2. PICK u : u = Flushed(next) /\ Follows(u, a, more)
    BY <1>1
  <1>3. /\ FitIn(a) /\ FitIn(more) => FitIn(u)
        /\ \A t : HeldIn(a, t) /\ HoldersIn(more, t) = {} /\ PiecesIn(more, t) = {} => HeldIn(u, t)
        /\ \A t : HeldIn(more, t) /\ HoldersIn(a, t) = {} /\ PiecesIn(a, t) = {} => HeldIn(u, t)
        /\ \A o, n : OnlyOf(a, o) /\ OnlyOf(more, n) => OnlyOf(u, o \cup n)
    BY <1>2, ConcatHolds
  <1>4. FitIn(a) /\ OnlyOf(a, old) /\ \A t \in old : HeldIn(a, t)
    BY <1>1 DEF CutSoFar
  <1>5. ASSUME NEW t \in old
        PROVE  HeldIn(u, t)
    <2>1. t \notin {s}
      OBVIOUS
    <2>2. HoldersIn(more, t) = {} /\ PiecesIn(more, t) = {}
      BY <2>1, NoneOf
    <2>3. QED
      BY <1>3, <1>4, <2>2
  <1>6. HoldersIn(a, s) = {} /\ PiecesIn(a, s) = {}
    BY <1>4, NoneOf
  <1>7. HeldIn(u, s)
    BY <1>3, <1>6
  <1>8. OnlyOf(u, old \cup {s}) /\ FitIn(u)
    BY <1>3, <1>4
  <1>9. QED
    BY <1>1, <1>2, <1>5, <1>7, <1>8 DEF CutSoFar

LEMMA WholeHolds ==
  ASSUME NEW s \in Sentence, s.length <= ChunkSize, NEW more, more = << <<Piece(s, 0, s.length)>> >>
  PROVE  more \in Seq(Seq(PieceOf)) /\ FitIn(more) /\ HeldIn(more, s) /\ OnlyOf(more, {s})
  <1>1. PICK c : c = <<Piece(s, 0, s.length)>>
    OBVIOUS
  <1>2. PICK x : x = Piece(s, 0, s.length)
    OBVIOUS
  <1>3. c \in Seq(PieceOf) /\ ChunkLength(c) = s.length /\ ToSet(c) = {x}
    BY <1>1, <1>2, WholeIs
  <1>4. more \in Seq(Seq(PieceOf)) /\ more[1] = c /\ DOMAIN more = {1}
    BY <1>1, <1>3, SingleIs
  <1>5. x.of = s /\ x.from = 0 /\ x.to = s.length
    BY <1>2 DEF Piece
  <1>6. s.length \in Nat \ {0} /\ ChunkSize \in Nat
    BY SizesAssumption DEF Sentence
  <1>7. FitIn(more)
    BY <1>3, <1>4, <1>6 DEF FitIn
  <1>8. OnlyOf(more, {s})
    BY <1>3, <1>4, <1>5 DEF OnlyOf
  <1>9. PiecesIn(more, s) = {x}
    BY <1>3, <1>4, <1>5 DEF PiecesIn
  <1>10. HoldersIn(more, s) = {1}
    BY <1>3, <1>4, <1>5 DEF HoldersIn
  <1>11. CoveredBy({x}, s)
    BY <1>5, <1>6 DEF CoveredBy
  <1>12. QED
    BY <1>2, <1>4, <1>7, <1>8, <1>9, <1>10, <1>11 DEF HeldIn

(* The three ways in which a sentence is added.                             *)
LEMMA AddIs ==
  ASSUME NEW state, NEW s \in Sentence, NEW whole, whole = <<Piece(s, 0, s.length)>>
  PROVE  /\ s.length > ChunkSize => Add(state, s) = [done |-> Flushed(state) \o Cuts(s), current |-> << >>]
         /\ s.length <= ChunkSize /\ ChunkLength(state.current \o whole) <= ChunkSize
              => Add(state, s) = [state EXCEPT !.current = @ \o whole]
         /\ s.length <= ChunkSize /\ ~(ChunkLength(state.current \o whole) <= ChunkSize)
              => Add(state, s) = [done |-> Flushed(state), current |-> whole]
  <1>1. s.length \in Nat /\ ChunkSize \in Nat
    BY SizesAssumption DEF Sentence
  <1>2. s.length > ChunkSize <=> ~(s.length <= ChunkSize)
    BY <1>1
  <1>3. QED
    BY <1>2 DEF Add

(* The sentence goes into the chunk that is being filled.                   *)
LEMMA CollectKeeps ==
  ASSUME NEW state, NEW old, CutSoFar(state, old), NEW s \in Sentence, s \notin old, s.length <= ChunkSize,
         NEW whole, whole = <<Piece(s, 0, s.length)>>, ChunkLength(state.current \o whole) <= ChunkSize,
         NEW next, next = [state EXCEPT !.current = @ \o whole]
  PROVE  CutSoFar(next, old \cup {s})
  <1>1. state \in CutState
    BY DEF CutSoFar
  <1>2. PICK d \in Seq(Seq(PieceOf)), c \in Seq(PieceOf) : d = state.done /\ c = state.current
    BY <1>1 DEF CutState
  <1>3. PICK x : x = Piece(s, 0, s.length)
    OBVIOUS
  <1>4. /\ whole \in Seq(PieceOf) /\ whole[1] = x /\ ToSet(whole) = {x} /\ x.of = s /\ x.from = 0 /\ x.to = s.length
        /\ DOMAIN whole = {1} /\ x \in PieceOf
    <2>1. x \in PieceOf /\ whole = <<x>>
      BY <1>3, WholeIs
    <2>2. whole \in Seq(PieceOf) /\ whole[1] = x /\ ToSet(whole) = {x} /\ DOMAIN whole = {1}
      BY <2>1, SingleIs
    <2>3. QED
      BY <1>3, <2>1, <2>2 DEF Piece
  <1>5. PICK cc : cc = c \o whole
    OBVIOUS
  <1>6. cc \in Seq(PieceOf) /\ TwoLists(cc, c, whole)
    BY <1>4, <1>5, ConcatIs DEF Follows
  <1>7. ToSet(cc) = ToSet(c) \cup {x} /\ cc # << >>
    <2>1. /\ Len(c) \in Nat /\ \A i \in DOMAIN c : i \in DOMAIN cc /\ cc[i] = c[i]
          /\ DOMAIN cc = DOMAIN c \cup MovedOn(Len(c), DOMAIN whole)
          /\ \A i \in DOMAIN whole : Len(c) + i \in DOMAIN cc /\ cc[Len(c) + i] = whole[i]
      BY <1>6 DEF TwoLists
    <2>2. PICK m \in Nat : m = Len(c) + 1
      BY <2>1
    <2>3. DOMAIN cc = DOMAIN c \cup {m}
      BY <1>4, <2>1, <2>2 DEF MovedOn
    <2>4. cc[m] = x
      BY <1>4, <2>1, <2>2
    <2>5. m \in DOMAIN cc /\ \A i \in DOMAIN cc : i = m \/ (i \in DOMAIN c /\ cc[i] = c[i])
      BY <2>1, <2>3
    <2>6. \A y \in ToSet(cc) : y = x \/ y \in ToSet(c)
      BY <2>4, <2>5 DEF ToSet
    <2>7. x \in ToSet(cc) /\ \A y \in ToSet(c) : y \in ToSet(cc)
      BY <2>1, <2>4, <2>5 DEF ToSet
    <2>8. cc # << >>
      BY <2>5
    <2>9. QED
      BY <2>6, <2>7, <2>8
  <1>8. ChunkLength(cc) \in 1..ChunkSize
    <2>1. ChunkLength(cc) \in Nat \ {0}
      BY <1>6, <1>7, ChunkLengthIs
    <2>2. QED
      BY <1>2, <1>5, <2>1, SizesAssumption
  <1>9. next \in CutState /\ next.done = d /\ next.current = cc
    BY <1>1, <1>2, <1>5, <1>6 DEF CutState
  <1>10. PICK u : u = Flushed(next)
    OBVIOUS
  <1>11. u \in Seq(Seq(PieceOf)) /\ Follows(u, d, <<cc>>)
    BY <1>7, <1>9, <1>10, FlushedIs DEF Follows
  <1>12. PICK k : k = Len(d) + 1
    OBVIOUS
  <1>13. DOMAIN u = DOMAIN d \cup {k} /\ k \notin DOMAIN d /\ u[k] = cc /\ \A n \in DOMAIN d : u[n] = d[n]
    <2>1. OneMore(u, d, cc, k)
      BY <1>6, <1>11, <1>12, OneMoreChunk
    <2>2. QED
      BY <2>1 DEF OneMore
  <1>14. PICK v : v = Flushed(state)
    OBVIOUS
  <1>15. /\ FitIn(v) /\ OnlyOf(v, old) /\ \A t \in old : HeldIn(v, t)
    BY <1>14 DEF CutSoFar
  <1>16. /\ \A n \in DOMAIN d : n \in DOMAIN v /\ v[n] = d[n]
         /\ c # << >> => DOMAIN v = DOMAIN d \cup {k} /\ v[k] = c
         /\ c = << >> => v = d
    <2>1. CASE c = << >>
      BY <1>1, <1>2, <1>14, <2>1, FlushedIs
    <2>2. CASE c # << >>
      <3>1. Follows(v, d, <<c>>)
        BY <1>1, <1>2, <1>14, <2>2, FlushedIs DEF Follows
      <3>2. DOMAIN v = DOMAIN d \cup {k} /\ v[k] = c /\ \A n \in DOMAIN d : v[n] = d[n]
        <4>1. OneMore(v, d, c, k)
          BY <1>12, <3>1, OneMoreChunk
        <4>2. QED
          BY <4>1 DEF OneMore
      <3>3. QED
        BY <2>2, <3>2
    <2>3. QED
      BY <2>1, <2>2
  <1>17. ASSUME NEW y
         PROVE  /\ y \in ToSet(u[k]) <=> y = x \/ (c # << >> /\ y \in ToSet(v[k]))
    <2>1. ToSet(<< >>) = {}
      BY DEF ToSet
    <2>2. QED
      BY <1>7, <1>13, <1>16, <2>1
  <1>18. DOMAIN v \subseteq DOMAIN u /\ \A n \in DOMAIN u : n \in DOMAIN v \/ (n = k /\ c = << >>)
    BY <1>13, <1>16
  <1>19. \A n \in DOMAIN d : u[n] = v[n]
    BY <1>13, <1>16
  <1>20. k \in DOMAIN v <=> c # << >>
    BY <1>13, <1>16
  <1>21. ASSUME NEW t \in old
         PROVE  HeldIn(u, t)
    <2>1. x.of # t
      BY <1>4
    <2>2. \A n \in DOMAIN v : \A y : y.of = t => (y \in ToSet(u[n]) <=> y \in ToSet(v[n]))
      BY <1>13, <1>17, <1>18, <1>19, <1>20, <2>1
    <2>3. \A n \in DOMAIN u : \A y \in ToSet(u[n]) : y.of = t => n \in DOMAIN v
      BY <1>17, <1>18, <2>1
    <2>4. PiecesIn(u, t) = PiecesIn(v, t)
      <3>1. \A y : y \in PiecesIn(u, t) => y \in PiecesIn(v, t)
        BY <2>2, <2>3 DEF PiecesIn
      <3>2. \A y : y \in PiecesIn(v, t) => y \in PiecesIn(u, t)
        BY <1>18, <2>2 DEF PiecesIn
      <3>3. QED
        BY <3>1, <3>2
    <2>5. HoldersIn(u, t) = HoldersIn(v, t)
      <3>1. \A n : n \in HoldersIn(u, t) => n \in HoldersIn(v, t)
        BY <2>2, <2>3 DEF HoldersIn
      <3>2. \A n : n \in HoldersIn(v, t) => n \in HoldersIn(u, t)
        BY <1>18, <2>2 DEF HoldersIn
      <3>3. QED
        BY <3>1, <3>2
    <2>6. QED
      BY <1>15, <2>4, <2>5 DEF HeldIn
  <1>22. HeldIn(u, s)
    <2>1. \A n \in DOMAIN v : \A y \in ToSet(v[n]) : y.of # s
      BY <1>15 DEF OnlyOf
    <2>2. \A n \in DOMAIN d : \A y \in ToSet(u[n]) : y.of # s
      BY <1>16, <1>19, <2>1
    <2>3. \A y \in ToSet(u[k]) : y.of = s <=> y = x
      BY <1>4, <1>17, <1>20, <2>1
    <2>4. x \in ToSet(u[k]) /\ k \in DOMAIN u
      BY <1>13, <1>17
    <2>5. PiecesIn(u, s) = {x}
      BY <1>13, <2>2, <2>3, <2>4 DEF PiecesIn
    <2>6. HoldersIn(u, s) = {k}
      BY <1>4, <1>13, <2>2, <2>4 DEF HoldersIn
    <2>7. s.length \in Nat
      BY DEF Sentence
    <2>8. CoveredBy({x}, s)
      BY <1>4, <2>7 DEF CoveredBy
    <2>9. QED
      BY <1>3, <2>5, <2>6, <2>8 DEF HeldIn
  <1>23. FitIn(u)
    BY <1>8, <1>13, <1>15, <1>16, <1>19 DEF FitIn
  <1>24. OnlyOf(u, old \cup {s})
    BY <1>4, <1>13, <1>15, <1>16, <1>17, <1>19, <1>20 DEF OnlyOf
  <1>25. QED
    BY <1>9, <1>10, <1>21, <1>22, <1>23, <1>24 DEF CutSoFar

LEMMA AddKeeps ==
  ASSUME NEW state, NEW old, CutSoFar(state, old), NEW s \in Sentence, s \notin old
  PROVE  CutSoFar(Add(state, s), old \cup {s})
  <1>1. PICK whole : whole = <<Piece(s, 0, s.length)>>
    OBVIOUS
  <1>2. state \in CutState /\ Flushed(state) \in Seq(Seq(PieceOf))
    BY FlushedIs DEF CutSoFar
  <1>3. PICK next : next = Add(state, s)
    OBVIOUS
  <1>4. s.length \in Nat /\ ChunkSize \in Nat
    BY SizesAssumption DEF Sentence
  <1>5. CASE s.length > ChunkSize
    <2>1. PICK cuts : cuts = Cuts(s)
      OBVIOUS
    <2>2. cuts \in Seq(Seq(PieceOf)) /\ FitIn(cuts) /\ HeldIn(cuts, s) /\ OnlyOf(cuts, {s})
      <3>1. /\ cuts \in Seq(Seq(PieceOf)) /\ FitIn(cuts) /\ HeldIn(cuts, s)
            /\ \A n \in DOMAIN cuts : \A x \in ToSet(cuts[n]) : x.of = s
        BY <1>5, <2>1, CutsAre
      <3>2. QED
        BY <3>1 DEF OnlyOf
    <2>3. next = [done |-> Flushed(state) \o cuts, current |-> << >>]
      BY <1>1, <1>3, <1>5, <2>1, AddIs
    <2>4. Flushed(state) \o cuts \in Seq(Seq(PieceOf))
      BY <1>2, <2>2
    <2>5. next \in CutState /\ next.current = << >> /\ next.done = Flushed(state) \o cuts
      BY <2>3, <2>4 DEF CutState
    <2>6. Follows(Flushed(next), Flushed(state), cuts)
      BY <2>5, FlushedIs DEF Follows
    <2>7. QED
      BY <1>3, <2>2, <2>5, <2>6, FlushedAndMore
  <1>6. CASE s.length <= ChunkSize /\ ChunkLength(state.current \o whole) <= ChunkSize
    <2>1. next = [state EXCEPT !.current = @ \o whole]
      BY <1>1, <1>3, <1>6, AddIs
    <2>2. QED
      BY <1>1, <1>3, <1>6, <2>1, CollectKeeps
  <1>7. CASE s.length <= ChunkSize /\ ~(ChunkLength(state.current \o whole) <= ChunkSize)
    <2>1. next = [done |-> Flushed(state), current |-> whole]
      BY <1>1, <1>3, <1>7, AddIs
    <2>2. PICK more : more = <<whole>>
      OBVIOUS
    <2>3. more \in Seq(Seq(PieceOf)) /\ FitIn(more) /\ HeldIn(more, s) /\ OnlyOf(more, {s})
      BY <1>1, <1>7, <2>2, WholeHolds
    <2>4. whole \in Seq(PieceOf) /\ whole # << >>
      BY <1>1, WholeIs
    <2>5. next \in CutState /\ next.current = whole /\ next.done = Flushed(state)
      BY <1>2, <2>1, <2>4 DEF CutState
    <2>6. Follows(Flushed(next), Flushed(state), more)
      BY <2>2, <2>4, <2>5, FlushedIs DEF Follows
    <2>7. QED
      BY <1>3, <2>3, <2>5, <2>6, FlushedAndMore
  <1>8. QED
    BY <1>4, <1>5, <1>6, <1>7

(* The chunks of a text hold each of its sentences, and nothing else.       *)
LEMMA ChunksHold ==
  ASSUME NEW text \in Seq(Sentence), DistinctKeys(text), NEW list, list = SentenceAwareChunks(text)
  PROVE  /\ list \in Seq(Seq(PieceOf)) /\ FitIn(list) /\ OnlyOf(list, ToSet(text))
         /\ \A s \in ToSet(text) : HeldIn(list, s)
  <1> DEFINE N == Len(text)
             first == [done |-> << >>, current |-> << >>]
             step == [z \in CutState \X (1..N) |-> Add(z[1], text[z[2]])]
             Body(h) == [n \in 0..N |-> IF n = 0 THEN first ELSE Add(h[n - 1], text[n])]
             r == CHOOSE h : h = Body(h)
             Upto(n) == {text[i] : i \in 1..n}
  <1>1. N \in Nat /\ DOMAIN text = 1..N /\ \A i \in 1..N : text[i] \in Sentence
    OBVIOUS
  <1>2. list = Flushed(r[N])
    BY DEF SentenceAwareChunks
  <1>3. first \in CutState /\ Flushed(first) = << >>
    BY DEF CutState, Flushed
  <1>4. \A z \in CutState : \A n \in 1..N : step[<<z, n>>] = Add(z, text[n])
    OBVIOUS
  <1> HIDE DEF step, N, first
  <1>5. ASSUME NEW z \in CutState, NEW n \in 1..N
        PROVE  Add(z, text[n]) \in CutState
    <2>1. PICK s \in Sentence : s = text[n]
      BY <1>1
    <2>2. PICK whole : whole = <<Piece(s, 0, s.length)>>
      OBVIOUS
    <2>3. whole \in Seq(PieceOf) /\ Flushed(z) \in Seq(Seq(PieceOf)) /\ z.current \in Seq(PieceOf)
      BY <2>2, WholeIs, FlushedIs DEF CutState
    <2>4. z.current \o whole \in Seq(PieceOf)
      BY <2>3
    <2>5. s.length > ChunkSize => Flushed(z) \o Cuts(s) \in Seq(Seq(PieceOf))
      BY <2>3, CutsAre
    <2>6. s.length \in Nat /\ ChunkSize \in Nat
      BY SizesAssumption DEF Sentence
    <2>7. CASE s.length > ChunkSize
      <3>1. Add(z, s) = [done |-> Flushed(z) \o Cuts(s), current |-> << >>]
        BY <2>2, <2>7, AddIs
      <3>2. QED
        BY <2>1, <2>5, <2>7, <3>1 DEF CutState
    <2>8. CASE s.length <= ChunkSize /\ ChunkLength(z.current \o whole) <= ChunkSize
      <3>1. Add(z, s) = [z EXCEPT !.current = @ \o whole]
        BY <2>2, <2>8, AddIs
      <3>2. QED
        BY <2>1, <2>4, <3>1 DEF CutState
    <2>9. CASE s.length <= ChunkSize /\ ~(ChunkLength(z.current \o whole) <= ChunkSize)
      <3>1. Add(z, s) = [done |-> Flushed(z), current |-> whole]
        BY <2>2, <2>9, AddIs
      <3>2. QED
        BY <2>1, <2>3, <3>1 DEF CutState
    <2>10. QED
      BY <2>6, <2>7, <2>8, <2>9
  <1>6. StepsWithin(step, CutState, N)
    BY <1>4, <1>5 DEF StepsWithin
  <1>7. PICK f \in [0..N -> CutState] : f[0] = first /\ \A n \in 0..(N - 1) : f[n + 1] = step[<<f[n], n + 1>>]
    BY <1>1, <1>3, <1>6, Recursion
  <1>8. ASSUME NEW n \in 0..(N - 1)
        PROVE  f[n] \in CutState /\ f[n + 1] = Add(f[n], text[n + 1])
    <2>1. n \in 0..N /\ n + 1 \in 1..N
      BY <1>1
    <2>2. QED
      BY <1>4, <1>7, <2>1
  <1>9. ASSUME NEW n \in 0..N
        PROVE  f[n] = Body(f)[n]
    <2>1. CASE n = 0
      BY <1>7, <2>1
    <2>2. CASE n # 0
      <3>1. n - 1 \in 0..(N - 1) /\ n - 1 + 1 = n
        BY <1>1, <2>2
      <3>2. f[n] = Add(f[n - 1], text[n])
        BY <1>8, <3>1
      <3>3. QED
        BY <2>2, <3>2
    <2>3. QED
      BY <2>1, <2>2
  <1>10. f = Body(f)
    BY <1>7, <1>9
  <1>11. r = Body(r)
    BY <1>10
  <1> HIDE DEF r
  <1> DEFINE T == {n \in Nat : n <= N => CutSoFar(r[n], Upto(n))}
  <1>12. 0 \in T
    <2>1. 0 \in 0..N /\ Upto(0) = {}
      BY <1>1
    <2>2. r[0] = first
      BY <1>11, <2>1
    <2>3. CutSoFar(first, {})
      BY <1>3 DEF CutSoFar, FitIn, OnlyOf
    <2>4. QED
      BY <2>1, <2>2, <2>3
  <1>13. ASSUME NEW n \in Nat, n \in T
         PROVE  n + 1 \in T
    <2> HIDE DEF Upto
    <2> SUFFICES ASSUME n + 1 <= N PROVE CutSoFar(r[n + 1], Upto(n + 1))
      OBVIOUS
    <2>1. PICK k : k = n + 1
      OBVIOUS
    <2>2. k \in 0..N /\ k # 0 /\ k - 1 = n /\ k \in 1..N /\ n <= N
      BY <1>1, <2>1
    <2>3. r[k] = Add(r[k - 1], text[k])
      BY <1>11, <2>2
    <2>4. CutSoFar(r[n], Upto(n))
      BY <1>13, <2>2
    <2>5. PICK s \in Sentence : s = text[k]
      BY <1>1, <2>2
    <2>6. s \notin Upto(n)
      <3>1. \A i \in 1..n : i \in DOMAIN text /\ i # k
        BY <1>1, <2>2
      <3>2. k \in DOMAIN text
        BY <1>1, <2>2
      <3>3. QED
        BY <2>5, <3>1, <3>2 DEF Upto, DistinctKeys
    <2>7. Upto(n) \cup {s} = Upto(k)
      BY <2>1, <2>5 DEF Upto
    <2>8. PICK q, old : q = r[n] /\ old = Upto(n)
      OBVIOUS
    <2>9. CutSoFar(Add(q, s), old \cup {s})
      BY <2>4, <2>6, <2>8, AddKeeps
    <2>10. r[k] = Add(q, s)
      BY <2>2, <2>3, <2>5, <2>8
    <2>11. QED
      BY <2>1, <2>7, <2>8, <2>9, <2>10
  <1> HIDE DEF T
  <1>14. Nat \subseteq T
    BY <1>12, <1>13, NatSetInduction
  <1>15. N \in T /\ N <= N
    BY <1>1, <1>14
  <1>16. CutSoFar(r[N], Upto(N))
    BY <1>15 DEF T
  <1>17. Upto(N) = ToSet(text)
    BY <1>1 DEF ToSet
  <1>18. QED
    BY <1>2, <1>16, <1>17, FlushedIs DEF CutSoFar

TextsOf(list) == [n \in DOMAIN list |-> list[n].text]

(* The chunks hold these sentences, and nothing else.                       *)
Fills(list, old) == OnlyOf(TextsOf(list), old) /\ \A s \in old : HeldIn(TextsOf(list), s)

Disjoint(sets) == \A i, j \in DOMAIN sets : \A s \in sets[i] \cap sets[j] : i = j

LEMMA JoinedFills ==
  ASSUME NEW S, NEW lists \in Seq(Seq(S)),
         NEW sets, DOMAIN sets = DOMAIN lists, Disjoint(sets), \A n \in DOMAIN lists : Fills(lists[n], sets[n])
  PROVE  Fills(Joined(lists), UNION {sets[n] : n \in DOMAIN sets})
  <1> DEFINE joined == Joined(lists)
             u == TextsOf(joined)
  <1>1. PICK at : Matches(at, joined, lists)
    BY JoinedPlaces
  <1> HIDE DEF joined
  <1>2. \A k \in DOMAIN joined : /\ at[k] \in Spots(lists)
                                 /\ joined[k] = lists[at[k][1]][at[k][2]]
    BY <1>1 DEF Matches
  <1>3. \A k \in DOMAIN joined : at[k][1] \in DOMAIN lists /\ at[k][2] \in DOMAIN lists[at[k][1]]
                                 /\ at[k] = <<at[k][1], at[k][2]>>
    BY <1>2 DEF Spots
  <1>4. ASSUME NEW i \in DOMAIN lists, NEW j \in DOMAIN lists[i]
        PROVE  \E k \in DOMAIN joined : at[k] = <<i, j>>
    <2>1. PICK x : x = <<i, j>>
      OBVIOUS
    <2>2. x \in Spots(lists)
      BY <2>1 DEF Spots
    <2>3. x \in {at[k] : k \in DOMAIN at} /\ DOMAIN at = DOMAIN joined
      BY <1>1, <2>2 DEF Matches
    <2>4. QED
      BY <2>1, <2>3
  <1>5. /\ DOMAIN u = DOMAIN joined
        /\ \A k \in DOMAIN u : u[k] = joined[k].text
    BY DEF TextsOf
  <1>6. ASSUME NEW i \in DOMAIN lists
        PROVE  /\ DOMAIN TextsOf(lists[i]) = DOMAIN lists[i]
               /\ \A j \in DOMAIN lists[i] : TextsOf(lists[i])[j] = lists[i][j].text
    BY DEF TextsOf
  <1> HIDE DEF u
  <1>7. ASSUME NEW k \in DOMAIN u
        PROVE  /\ at[k][1] \in DOMAIN lists /\ at[k][2] \in DOMAIN TextsOf(lists[at[k][1]])
               /\ u[k] = TextsOf(lists[at[k][1]])[at[k][2]]
    BY <1>2, <1>3, <1>5, <1>6
  <1>8. ASSUME NEW i \in DOMAIN lists, NEW j \in DOMAIN TextsOf(lists[i])
        PROVE  \E k \in DOMAIN u : at[k] = <<i, j>> /\ u[k] = TextsOf(lists[i])[j]
    <2>1. PICK k \in DOMAIN joined : at[k] = <<i, j>>
      BY <1>4, <1>6
    <2>2. QED
      BY <1>5, <1>7, <2>1
  <1>9. OnlyOf(u, UNION {sets[n] : n \in DOMAIN sets})
    <2> SUFFICES ASSUME NEW k \in DOMAIN u, NEW x \in ToSet(u[k])
                 PROVE  \E n \in DOMAIN sets : x.of \in sets[n]
      BY DEF OnlyOf
    <2>1. PICK n \in DOMAIN lists : \E j \in DOMAIN TextsOf(lists[n]) : u[k] = TextsOf(lists[n])[j]
      BY <1>7
    <2>2. PICK j \in DOMAIN TextsOf(lists[n]) : x \in ToSet(TextsOf(lists[n])[j])
      BY <2>1
    <2>3. QED
      BY <2>2 DEF Fills, OnlyOf
  <1>10. ASSUME NEW n \in DOMAIN sets, NEW s \in sets[n]
         PROVE  HeldIn(u, s)
    <2>1. PICK v : v = TextsOf(lists[n])
      OBVIOUS
    <2>2. HeldIn(v, s)
      BY <2>1 DEF Fills
    <2>3. ASSUME NEW m \in DOMAIN lists, m # n, NEW j \in DOMAIN TextsOf(lists[m]), NEW x \in ToSet(TextsOf(lists[m])[j])
          PROVE  x.of # s
      <3>1. x.of \in sets[m]
        BY <2>3 DEF Fills, OnlyOf
      <3>2. QED
        BY <2>3, <3>1 DEF Disjoint
    <2>4. ASSUME NEW k \in DOMAIN u, NEW x \in ToSet(u[k]), x.of = s
          PROVE  at[k][1] = n /\ at[k][2] \in DOMAIN v /\ u[k] = v[at[k][2]]
      BY <1>7, <2>1, <2>3, <2>4
    <2>5. ASSUME NEW j \in DOMAIN v
          PROVE  \E k \in DOMAIN u : at[k] = <<n, j>> /\ u[k] = v[j]
      BY <1>8, <2>1
    <2>6. PiecesIn(u, s) = PiecesIn(v, s)
      <3>1. ASSUME NEW x \in PiecesIn(u, s)
            PROVE  x \in PiecesIn(v, s)
        BY <2>4 DEF PiecesIn
      <3>2. ASSUME NEW x \in PiecesIn(v, s)
            PROVE  x \in PiecesIn(u, s)
        BY <2>5 DEF PiecesIn
      <3>3. QED
        BY <3>1, <3>2
    <2>7. ASSUME NEW j, HoldersIn(v, s) = {j}
          PROVE  \E k : HoldersIn(u, s) = {k}
      <3>1. j \in DOMAIN v /\ \E x \in ToSet(v[j]) : x.of = s
        BY <2>7 DEF HoldersIn
      <3>2. PICK k \in DOMAIN u : at[k] = <<n, j>> /\ u[k] = v[j]
        BY <2>5, <3>1
      <3>3. k \in HoldersIn(u, s)
        BY <3>1, <3>2 DEF HoldersIn
      <3>4. ASSUME NEW m \in HoldersIn(u, s)
            PROVE  m = k
        <4>1. m \in DOMAIN u /\ \E x \in ToSet(u[m]) : x.of = s
          BY DEF HoldersIn
        <4>2. at[m][1] = n /\ at[m][2] \in HoldersIn(v, s)
          BY <2>4, <4>1 DEF HoldersIn
        <4>3. at[m][2] = j
          BY <2>7, <4>2
        <4>4. at[m] = at[k] /\ m \in DOMAIN at /\ k \in DOMAIN at
          BY <1>1, <1>3, <1>5, <3>2, <4>1, <4>2, <4>3 DEF Matches
        <4>5. QED
          BY <1>1, <4>4 DEF Matches
      <3>5. QED
        BY <3>3, <3>4
    <2>8. QED
      BY <2>2, <2>6, <2>7 DEF HeldIn
  <1>11. QED
    BY <1>9, <1>10 DEF Fills, u, joined

(* The chunks of a record: of each section its text.                        *)
LEMMA ChunkRecordIs ==
  ASSUME NEW p, NEW sections, ApartParts(sections, Sentence), NEW list, list = ChunkRecord(p, sections)
  PROVE  /\ IsList(list)
         /\ Fills(list, UNION {ToSet(sections[n].text) : n \in DOMAIN sections})
         /\ \A k \in ToSet(list) :
              /\ ChunkLength(k.text) \in 1..ChunkSize
              /\ \E n \in DOMAIN sections : /\ k.section = sections[n].key
                                            /\ \A x \in ToSet(k.text) : x.of \in ToSet(sections[n].text)
  <1> DEFINE cs(n) == SentenceAwareChunks(sections[n].text)
             lists == [n \in DOMAIN sections |->
                         [i \in DOMAIN cs(n) |-> [section |-> sections[n].key, index |-> i, text |-> cs(n)[i]]]]
             sets == [n \in DOMAIN sections |-> ToSet(sections[n].text)]
             S == UNION {ToSet(lists[n]) : n \in DOMAIN lists}
  <1>1. Len(sections) \in Nat /\ DOMAIN sections = 1..Len(sections)
    BY ListIs DEF ApartParts
  <1>2. ASSUME NEW n \in DOMAIN sections
        PROVE  /\ cs(n) \in Seq(Seq(PieceOf)) /\ FitIn(cs(n)) /\ OnlyOf(cs(n), ToSet(sections[n].text))
               /\ \A s \in ToSet(sections[n].text) : HeldIn(cs(n), s)
    <2>1. sections[n].text \in Seq(Sentence) /\ DistinctKeys(sections[n].text)
      BY DEF ApartParts
    <2>2. QED
      BY <2>1, ChunksHold
  <1> HIDE DEF cs
  <1>3. DOMAIN lists = DOMAIN sections /\ DOMAIN sets = DOMAIN lists
    OBVIOUS
  <1>4. ASSUME NEW n \in DOMAIN sections
        PROVE  /\ DOMAIN lists[n] = DOMAIN cs(n) /\ lists[n] \in Seq(ToSet(lists[n]))
               /\ \A i \in DOMAIN lists[n] : lists[n][i].section = sections[n].key /\ lists[n][i].text = cs(n)[i]
    <2>1. DOMAIN cs(n) = 1..Len(cs(n)) /\ Len(cs(n)) \in Nat
      BY <1>2
    <2>2. lists[n] = [i \in DOMAIN cs(n) |-> [section |-> sections[n].key, index |-> i, text |-> cs(n)[i]]]
      OBVIOUS
    <2>3. PICK l : l = lists[n]
      OBVIOUS
    <2> HIDE DEF lists
    <2>4. l = [i \in 1..Len(cs(n)) |-> l[i]] /\ DOMAIN l = DOMAIN cs(n)
      BY <2>1, <2>2, <2>3
    <2>5. l \in Seq(ToSet(l))
      BY <2>1, <2>4 DEF ToSet
    <2>6. QED
      BY <2>2, <2>3, <2>4, <2>5
  <1>5. ASSUME NEW n \in DOMAIN sections
        PROVE  TextsOf(lists[n]) = cs(n)
    <2>1. cs(n) = [i \in DOMAIN cs(n) |-> cs(n)[i]]
      BY <1>2
    <2> HIDE DEF lists
    <2>2. QED
      BY <1>4, <2>1 DEF TextsOf
  <1>6. \A n \in DOMAIN lists : Fills(lists[n], sets[n])
    <2> HIDE DEF lists
    <2>1. QED
      BY <1>2, <1>3, <1>5 DEF Fills
  <1>7. Disjoint(sets)
    BY DEF Disjoint, ApartParts
  <1>8. list = Joined(lists)
    BY DEF ChunkRecord, cs
  <1>9. \A n \in DOMAIN sections : sets[n] = ToSet(sections[n].text)
    OBVIOUS
  <1>10. lists = [n \in 1..Len(sections) |-> lists[n]]
    BY <1>1
  <1> HIDE DEF lists, sets
  <1>11. \A n \in DOMAIN lists : lists[n] \in Seq(S)
    <2> SUFFICES ASSUME NEW n \in DOMAIN lists PROVE lists[n] \in Seq(S)
      OBVIOUS
    <2>1. ToSet(lists[n]) \subseteq S /\ lists[n] \in Seq(ToSet(lists[n]))
      BY <1>3, <1>4
    <2> HIDE DEF S
    <2>2. QED
      BY <2>1
  <1> HIDE DEF S
  <1>12. lists \in Seq(Seq(S))
    BY <1>1, <1>3, <1>10, <1>11
  <1>13. Fills(list, UNION {sets[n] : n \in DOMAIN sets})
    BY <1>3, <1>6, <1>7, <1>8, <1>12, JoinedFills
  <1>14. UNION {sets[n] : n \in DOMAIN sets} = UNION {ToSet(sections[n].text) : n \in DOMAIN sections}
    BY <1>3, <1>9
  <1>15. IsList(list)
    BY <1>8, <1>12, JoinedPlaces, IsListOf
  <1>16. ToSet(list) = UNION {ToSet(lists[n]) : n \in DOMAIN lists}
    BY <1>8, <1>12, JoinedTexts
  <1>17. ASSUME NEW k \in ToSet(list)
         PROVE  /\ ChunkLength(k.text) \in 1..ChunkSize
                /\ \E n \in DOMAIN sections : /\ k.section = sections[n].key
                                              /\ \A x \in ToSet(k.text) : x.of \in ToSet(sections[n].text)
    <2>1. PICK n \in DOMAIN sections : k \in ToSet(lists[n])
      BY <1>3, <1>16
    <2>2. PICK i \in DOMAIN lists[n] : k = lists[n][i]
      BY <2>1 DEF ToSet
    <2>3. i \in DOMAIN cs(n) /\ k.section = sections[n].key /\ k.text = cs(n)[i]
      BY <1>4, <2>2
    <2>4. QED
      BY <1>2, <2>3 DEF FitIn, OnlyOf
  <1>18. QED
    BY <1>13, <1>14, <1>15, <1>17

(* A file that can be read, as it is uploaded.                              *)
Readable(f) == /\ f \in DOMAIN upload /\ f \in Nat
               /\ IsList(upload[f])
               /\ \A i \in DOMAIN upload[f] : upload[f][i].lengths \in Seq(Nat \ {0})

KeyAt(f, i) == KeyOf(SplitProfile, upload[f], i)

SentencesAt(f, i) == ToSet(Sentences(f, upload[f], i))

(* The sentences of a line: of its file and line, each once.                *)
LEMMA SentencesAre ==
  ASSUME NEW f, Readable(f), NEW i \in DOMAIN upload[f], NEW text, text = Sentences(f, upload[f], i)
  PROVE  /\ text \in Seq(Sentence) /\ DistinctKeys(text)
         /\ \A x \in ToSet(text) : x.file = f /\ x.line = i
  <1>1. PICK lengths \in Seq(Nat \ {0}) : lengths = upload[f][i].lengths
    BY DEF Readable
  <1>2. f \in Nat /\ i \in Nat
    BY ListIs DEF Readable
  <1>3. CASE upload[f][i].title # NoTitle
    <2>1. text = << >>
      BY <1>3 DEF Sentences
    <2>2. text \in Seq(Sentence) /\ DOMAIN text = {}
      BY <2>1
    <2>3. IsList(text)
      BY <2>2, IsListOf
    <2>4. QED
      BY <2>2, <2>3 DEF DistinctKeys, ToSet
  <1>4. CASE upload[f][i].title = NoTitle
    <2>1. text = [k \in DOMAIN lengths |-> [file |-> f, line |-> i, nth |-> k, length |-> lengths[k]]]
      BY <1>1, <1>4 DEF Sentences
    <2>2. DOMAIN lengths = 1..Len(lengths) /\ Len(lengths) \in Nat /\ \A k \in DOMAIN lengths : lengths[k] \in Nat \ {0}
      BY <1>1
    <2>3. \A k \in DOMAIN lengths : text[k] \in Sentence /\ text[k].file = f /\ text[k].line = i /\ text[k].nth = k
      BY <1>2, <2>1, <2>2 DEF Sentence
    <2>4. DOMAIN text = DOMAIN lengths /\ text = [k \in 1..Len(lengths) |-> text[k]]
      BY <2>1, <2>2
    <2>5. text \in Seq(Sentence)
      BY <2>2, <2>3, <2>4
    <2>6. IsList(text)
      BY <2>5, IsListOf
    <2>7. ASSUME NEW k \in DOMAIN text, NEW m \in DOMAIN text, text[k] = text[m]
          PROVE  k = m
      <3>1. text[k].nth = k /\ text[m].nth = m
        BY <2>3, <2>4
      <3>2. QED
        BY <2>7, <3>1
    <2>8. ASSUME NEW x \in ToSet(text)
          PROVE  x.file = f /\ x.line = i
      <3>1. PICK k \in DOMAIN text : x = text[k]
        BY DEF ToSet
      <3>2. QED
        BY <2>3, <2>4, <3>1
    <2>9. QED
      BY <2>5, <2>6, <2>7, <2>8 DEF DistinctKeys
  <1>5. QED
    BY <1>3, <1>4

(* The parts of a file: its lines, each under the key of its heading.        *)
LEMMA PartsAre ==
  ASSUME NEW f, Readable(f), NEW parts, parts = Parts(SplitProfile, f)
  PROVE  /\ ApartParts(parts, Sentence) /\ DOMAIN parts = DOMAIN upload[f]
         /\ \A i \in DOMAIN parts : parts[i].key = KeyAt(f, i) /\ ToSet(parts[i].text) = SentencesAt(f, i)
         /\ \A i \in DOMAIN parts : \A x \in ToSet(parts[i].text) : x.file = f /\ x.line = i
  <1>1. parts = [i \in DOMAIN upload[f] |-> [key |-> KeyAt(f, i), text |-> Sentences(f, upload[f], i)]]
    BY DEF Parts, KeyAt
  <1>2. Len(upload[f]) \in Nat /\ DOMAIN upload[f] = 1..Len(upload[f])
    BY ListIs DEF Readable
  <1>3. /\ DOMAIN parts = DOMAIN upload[f]
        /\ \A i \in DOMAIN parts : parts[i].key = KeyAt(f, i) /\ parts[i].text = Sentences(f, upload[f], i)
    BY <1>1
  <1>4. parts \in Seq({parts[i] : i \in DOMAIN parts})
    BY <1>1, <1>2
  <1>5. IsList(parts)
    BY <1>4 DEF IsList
  <1>6. \A i \in DOMAIN parts : /\ parts[i].text \in Seq(Sentence) /\ DistinctKeys(parts[i].text)
                                /\ \A x \in ToSet(parts[i].text) : x.file = f /\ x.line = i
    BY <1>3, SentencesAre
  <1>7. \A i, j \in DOMAIN parts : \A x \in ToSet(parts[i].text) \cap ToSet(parts[j].text) : i = j
    BY <1>6
  <1>8. QED
    BY <1>3, <1>5, <1>6, <1>7 DEF ApartParts, SentencesAt

(* Sections of a file, each of one key, with all its text.                  *)
SectionsOfFile(sections, f) ==
  /\ IsList(sections)
  /\ \A n \in DOMAIN sections :
       /\ sections[n] = [key |-> sections[n].key, text |-> AllUnder(Parts(SplitProfile, f), sections[n].key)]
       /\ \E i \in DOMAIN upload[f] : KeyAt(f, i) = sections[n].key
  /\ \A m, n \in DOMAIN sections : sections[m].key = sections[n].key => m = n

LEMMA SelectedSections ==
  ASSUME NEW f, NEW sections, SectionsOfFile(sections, f), NEW I \in SUBSET DOMAIN sections,
         NEW t, t = Subsequence(sections, I)
  PROVE  /\ SectionsOfFile(t, f) /\ Len(t) = Cardinality(I)
         /\ \A n \in DOMAIN t : \E i \in I : t[n] = sections[i]
         /\ \A i \in I : \E n \in DOMAIN t : t[n] = sections[i]
  <1>1. IsList(sections)
    BY DEF SectionsOfFile
  <1>2. /\ IsList(t) /\ Len(t) = Cardinality(I)
        /\ \A n \in DOMAIN t : Place(I, n) \in I /\ t[n] = sections[Place(I, n)]
        /\ \A i \in I : \E n \in DOMAIN t : Place(I, n) = i
        /\ \A m, n \in DOMAIN t : Place(I, m) = Place(I, n) => m = n
    BY <1>1, SelectedIs
  <1>3. \A m, n \in DOMAIN t : t[m].key = t[n].key => m = n
    BY <1>2 DEF SectionsOfFile
  <1>4. \A n \in DOMAIN t : \E i \in I : t[n] = sections[i]
    BY <1>2
  <1>5. \A n \in DOMAIN t :
          /\ t[n] = [key |-> t[n].key, text |-> AllUnder(Parts(SplitProfile, f), t[n].key)]
          /\ \E i \in DOMAIN upload[f] : KeyAt(f, i) = t[n].key
    BY <1>4 DEF SectionsOfFile
  <1>6. SectionsOfFile(t, f)
    BY <1>2, <1>3, <1>5 DEF SectionsOfFile
  <1>7. QED
    BY <1>2, <1>4, <1>6

(* The sections of a file: those of the keys that are not dropped.           *)
LEMMA SplitIs ==
  ASSUME NEW f, Readable(f), NEW sections, sections = SplitIntoSections(SplitProfile, f)
  PROVE  /\ SectionsOfFile(sections, f)
         /\ \A i \in DOMAIN upload[f] : ~Dropped(f, KeyAt(f, i)) <=> \E n \in DOMAIN sections : sections[n].key = KeyAt(f, i)
  <1>1. PICK parts : parts = Parts(SplitProfile, f)
    OBVIOUS
  <1>2. /\ ApartParts(parts, Sentence) /\ DOMAIN parts = DOMAIN upload[f]
        /\ \A i \in DOMAIN parts : parts[i].key = KeyAt(f, i)
    BY <1>1, PartsAre
  <1>3. PICK all : all = Gather(parts)
    OBVIOUS
  <1>4. /\ IsList(all)
        /\ \A n \in DOMAIN all : /\ all[n] = [key |-> all[n].key, text |-> AllUnder(parts, all[n].key)]
                                 /\ \E i \in DOMAIN parts : parts[i].key = all[n].key
        /\ \A i \in DOMAIN parts : \E n \in DOMAIN all : all[n].key = parts[i].key
        /\ \A m, n \in DOMAIN all : all[m].key = all[n].key => m = n
    BY <1>2, <1>3, GatherIs DEF ApartParts
  <1>5. SectionsOfFile(all, f)
    BY <1>1, <1>2, <1>4 DEF SectionsOfFile
  <1> DEFINE I == {n \in DOMAIN all : Size(all[n].text) >= ShortSection}
  <1>6. PICK long : long = Subsequence(all, I)
    OBVIOUS
  <1> DEFINE J == {n \in DOMAIN long : \/ Len(long) = 1
                                       \/ long[n].key # "full_document"
                                       \/ Size(long[n].text) >= ShortFront}
  <1>7. sections = Subsequence(long, J)
    BY <1>1, <1>3, <1>6 DEF SplitIntoSections
  <1>8. I \subseteq DOMAIN all /\ J \subseteq DOMAIN long
    OBVIOUS
  <1>9. \A n \in DOMAIN all : n \in I <=> IsLong(f, all[n].key)
    <2>1. \A n \in DOMAIN all : all[n].text = TextUnder(f, all[n].key)
      BY <1>1, <1>4 DEF TextUnder
    <2>2. QED
      BY <2>1 DEF IsLong
  <1> HIDE DEF I
  <1>10. /\ SectionsOfFile(long, f) /\ Len(long) = Cardinality(I)
         /\ \A n \in DOMAIN long : \E i \in I : long[n] = all[i]
         /\ \A i \in I : \E n \in DOMAIN long : long[n] = all[i]
    BY <1>5, <1>6, <1>8, SelectedSections
  <1>11. \A n \in DOMAIN long : n \in J <=> \/ Len(long) = 1
                                            \/ long[n].key # "full_document"
                                            \/ Size(TextUnder(f, long[n].key)) >= ShortFront
    <2>1. \A n \in DOMAIN long : long[n].text = TextUnder(f, long[n].key)
      BY <1>10 DEF TextUnder, SectionsOfFile
    <2>2. QED
      BY <2>1
  <1> HIDE DEF J
  <1>12. /\ SectionsOfFile(sections, f)
         /\ \A n \in DOMAIN sections : \E i \in J : sections[n] = long[i]
         /\ \A i \in J : \E n \in DOMAIN sections : sections[n] = long[i]
    BY <1>7, <1>8, <1>10, SelectedSections
  <1>13. ASSUME NEW i \in DOMAIN upload[f]
         PROVE  IsLong(f, KeyAt(f, i)) <=> \E n \in DOMAIN long : long[n].key = KeyAt(f, i)
    <2>1. PICK m \in DOMAIN all : all[m].key = KeyAt(f, i)
      BY <1>2, <1>4
    <2>2. m \in I <=> IsLong(f, KeyAt(f, i))
      BY <1>9, <2>1
    <2>3. m \in I => \E n \in DOMAIN long : long[n].key = KeyAt(f, i)
      BY <1>10, <2>1
    <2>4. ASSUME NEW n \in DOMAIN long, long[n].key = KeyAt(f, i)
          PROVE  m \in I
      <3>1. PICK k \in I : long[n] = all[k]
        BY <1>10
      <3>2. k = m
        BY <1>4, <1>8, <2>1, <2>4, <3>1
      <3>3. QED
        BY <3>1, <3>2
    <2>5. QED
      BY <2>2, <2>3, <2>4
  <1>14. Len(long) \in Nat /\ DOMAIN long = 1..Len(long)
    BY <1>10, ListIs DEF SectionsOfFile
  <1>15. ASSUME NEW n \in DOMAIN long
         PROVE  Len(long) = 1 <=> ~\E i \in DOMAIN upload[f] : KeyAt(f, i) # long[n].key /\ IsLong(f, KeyAt(f, i))
    <2>1. CASE Len(long) = 1
      <3>1. \A m \in DOMAIN long : m = n
        BY <1>14, <2>1
      <3>2. QED
        BY <1>13, <2>1, <3>1
    <2>2. CASE Len(long) # 1
      <3>1. PICK m \in DOMAIN long : m # n
        <4>1. 1 \in DOMAIN long /\ 2 \in DOMAIN long
          BY <1>14, <2>2
        <4>2. QED
          BY <4>1
      <3>2. PICK i \in DOMAIN upload[f] : KeyAt(f, i) = long[m].key
        BY <1>10 DEF SectionsOfFile
      <3>3. long[m].key # long[n].key
        BY <1>10, <3>1 DEF SectionsOfFile
      <3>4. IsLong(f, KeyAt(f, i))
        BY <1>13, <3>2
      <3>5. QED
        BY <2>2, <3>2, <3>3, <3>4
    <2>3. QED
      BY <2>1, <2>2
  <1>16. ASSUME NEW key
         PROVE  Dropped(f, key) <=> \/ ~IsLong(f, key)
                                    \/ /\ key = "full_document" /\ Size(TextUnder(f, key)) < ShortFront
                                       /\ \E i \in DOMAIN upload[f] : KeyAt(f, i) # key /\ IsLong(f, KeyAt(f, i))
    BY DEF Dropped, KeyAt
  <1>17. ASSUME NEW key
         PROVE  Size(TextUnder(f, key)) < ShortFront <=> ~(Size(TextUnder(f, key)) >= ShortFront)
    <2>1. PICK text : text = TextUnder(f, key)
      OBVIOUS
    <2>2. text \in Seq(Sentence)
      BY <1>1, <1>2, <2>1, UnderIs DEF TextUnder
    <2>3. ASSUME NEW i \in DOMAIN text
          PROVE  text[i].length \in Nat
      <3>1. text[i] \in Sentence
        BY <2>2
      <3>2. QED
        BY <3>1 DEF Sentence
    <2>4. IsList(text)
      BY <2>2, IsListOf
    <2>5. Size(text) \in Nat
      BY <2>3, <2>4, SizeIs
    <2>6. QED
      BY <2>1, <2>5, SizesAssumption
  <1>18. ASSUME NEW i \in DOMAIN upload[f]
         PROVE  ~Dropped(f, KeyAt(f, i)) <=> \E n \in DOMAIN sections : sections[n].key = KeyAt(f, i)
    <2>1. PICK key : key = KeyAt(f, i)
      OBVIOUS
    <2>2. CASE ~IsLong(f, key)
      <3>1. \A n \in DOMAIN long : long[n].key # key
        BY <1>13, <2>1, <2>2
      <3>2. \A n \in DOMAIN sections : sections[n].key # key
        BY <1>8, <1>12, <3>1
      <3>3. QED
        BY <1>16, <2>1, <2>2, <3>2
    <2>3. CASE IsLong(f, key)
      <3>1. PICK n \in DOMAIN long : long[n].key = key
        BY <1>13, <2>1, <2>3
      <3>2. n \in J <=> ~Dropped(f, key)
        BY <1>11, <1>15, <1>16, <1>17, <2>3, <3>1
      <3>3. n \in J <=> \E m \in DOMAIN sections : sections[m].key = key
        <4>1. ASSUME NEW m \in DOMAIN sections, sections[m].key = key
              PROVE  n \in J
          <5>1. PICK k \in J : sections[m] = long[k]
            BY <1>12
          <5>2. k = n
            BY <1>8, <1>10, <3>1, <4>1, <5>1 DEF SectionsOfFile
          <5>3. QED
            BY <5>1, <5>2
        <4>2. n \in J => \E m \in DOMAIN sections : sections[m].key = key
          BY <1>12, <3>1
        <4>3. QED
          BY <4>1, <4>2
      <3>4. QED
        BY <2>1, <3>2, <3>3
    <2>4. QED
      BY <2>2, <2>3
  <1>19. QED
    BY <1>12, <1>18

(* What the chunks of a file hold: what is not dropped.                     *)
KeptLines(f) == {i \in DOMAIN upload[f] : ~Dropped(f, KeyAt(f, i))}

KeptOf(f) == UNION {SentencesAt(f, i) : i \in KeptLines(f)}

InSection(k, q) == /\ ChunkLength(k.text) \in 1..ChunkSize
                   /\ \A x \in ToSet(k.text) : k.section = CanonicalKey(q, KeyAt(x.of.file, x.of.line))

TextIn(parts) == UNION {ToSet(parts[n].text) : n \in DOMAIN parts}

Plain(t) == \A n \in DOMAIN t : t[n] = [key |-> t[n].key, text |-> t[n].text]

(* The sections of a file have the sentences that are not dropped.           *)
LEMMA SectionsApart ==
  ASSUME NEW f, Readable(f), NEW t, t = SplitIntoSections(SplitProfile, f)
  PROVE  /\ ApartParts(t, Sentence) /\ TextIn(t) = KeptOf(f) /\ Plain(t)
         /\ \A n \in DOMAIN t : \A x \in ToSet(t[n].text) : x.file = f /\ KeyAt(x.file, x.line) = t[n].key
  <1>1. PICK parts : parts = Parts(SplitProfile, f)
    OBVIOUS
  <1>2. /\ ApartParts(parts, Sentence) /\ DOMAIN parts = DOMAIN upload[f]
        /\ \A i \in DOMAIN parts : parts[i].key = KeyAt(f, i) /\ ToSet(parts[i].text) = SentencesAt(f, i)
        /\ \A i \in DOMAIN parts : \A x \in ToSet(parts[i].text) : x.file = f /\ x.line = i
    BY <1>1, PartsAre
  <1>3. /\ SectionsOfFile(t, f)
        /\ \A i \in DOMAIN upload[f] : ~Dropped(f, KeyAt(f, i)) <=> \E n \in DOMAIN t : t[n].key = KeyAt(f, i)
    BY SplitIs
  <1>4. \A n \in DOMAIN t : t[n] = [key |-> t[n].key, text |-> AllUnder(parts, t[n].key)]
    BY <1>1, <1>3 DEF SectionsOfFile
  <1>5. ASSUME NEW n \in DOMAIN t
        PROVE  /\ t[n].text \in Seq(Sentence) /\ DistinctKeys(t[n].text)
               /\ \A x : x \in ToSet(t[n].text) <=> \E i \in DOMAIN parts : parts[i].key = t[n].key /\ x \in ToSet(parts[i].text)
    <2>1. PICK key : key = t[n].key
      OBVIOUS
    <2>2. t[n].text = AllUnder(parts, key)
      BY <1>4, <2>1
    <2>3. /\ AllUnder(parts, key) \in Seq(Sentence) /\ DistinctKeys(AllUnder(parts, key))
          /\ \A x : x \in ToSet(AllUnder(parts, key)) <=> \E i \in DOMAIN parts : parts[i].key = key /\ x \in ToSet(parts[i].text)
      BY <1>2, UnderIs
    <2>4. QED
      BY <2>1, <2>2, <2>3
  <1>6. ASSUME NEW n \in DOMAIN t, NEW x \in ToSet(t[n].text)
        PROVE  x.file = f /\ KeyAt(x.file, x.line) = t[n].key
    BY <1>2, <1>5
  <1>7. ASSUME NEW m \in DOMAIN t, NEW n \in DOMAIN t, NEW x \in ToSet(t[m].text) \cap ToSet(t[n].text)
        PROVE  m = n
    <2>1. t[m].key = t[n].key
      BY <1>6
    <2>2. QED
      BY <1>3, <2>1 DEF SectionsOfFile
  <1>8. ApartParts(t, Sentence)
    BY <1>3, <1>5, <1>7 DEF ApartParts, SectionsOfFile
  <1>9. ASSUME NEW x
        PROVE  (\E n \in DOMAIN t : x \in ToSet(t[n].text)) <=> x \in KeptOf(f)
    <2>1. ASSUME NEW n \in DOMAIN t, x \in ToSet(t[n].text)
          PROVE  x \in KeptOf(f)
      <3>1. PICK i \in DOMAIN parts : parts[i].key = t[n].key /\ x \in ToSet(parts[i].text)
        BY <1>5, <2>1
      <3>2. i \in KeptLines(f) /\ x \in SentencesAt(f, i)
        BY <1>2, <1>3, <3>1 DEF KeptLines
      <3>3. QED
        BY <3>2 DEF KeptOf
    <2>2. ASSUME x \in KeptOf(f)
          PROVE  \E n \in DOMAIN t : x \in ToSet(t[n].text)
      <3>1. PICK i \in KeptLines(f) : x \in SentencesAt(f, i)
        BY <2>2 DEF KeptOf
      <3>2. i \in DOMAIN upload[f] /\ ~Dropped(f, KeyAt(f, i))
        BY DEF KeptLines
      <3>3. PICK n \in DOMAIN t : t[n].key = KeyAt(f, i)
        BY <1>3, <3>2
      <3>4. QED
        BY <1>2, <1>5, <3>1, <3>2, <3>3
    <2>3. QED
      BY <2>1, <2>2
  <1>10. TextIn(t) = KeptOf(f)
    BY <1>9 DEF TextIn
  <1>11. \A n \in DOMAIN t : t[n] = [key |-> t[n].key, text |-> t[n].text]
    <2> SUFFICES ASSUME NEW n \in DOMAIN t
                 PROVE  t[n] = [key |-> t[n].key, text |-> t[n].text]
      OBVIOUS
    <2>1. PICK key, words : t[n] = [key |-> key, text |-> words]
      BY <1>4
    <2>2. QED
      BY <2>1
  <1>12. QED
    BY <1>6, <1>8, <1>10, <1>11 DEF Plain

LookedUp(e, t, q) ==
  \A n \in DOMAIN e : \A x \in ToSet(e[n].text) :
    \E m \in DOMAIN t : x \in ToSet(t[m].text) /\ e[n].key = CanonicalKey(q, t[m].key)

(* Sections whose keys are looked up again, and put together.               *)
LEMMA ExtractIs ==
  ASSUME NEW q, NEW t, ApartParts(t, Sentence), Plain(t),
         NEW e, e = ExtractSections(q, t)
  PROVE  ApartParts(e, Sentence) /\ TextIn(e) = TextIn(t) /\ LookedUp(e, t, q)
  <1> DEFINE parts == [n \in DOMAIN t |-> [t[n] EXCEPT !.key = CanonicalKey(q, @)]]
  <1>1. e = Gather(parts)
    BY DEF ExtractSections
  <1>2. DOMAIN parts = DOMAIN t
    OBVIOUS
  <1>3. ASSUME NEW n \in DOMAIN t
        PROVE  parts[n].key = CanonicalKey(q, t[n].key) /\ parts[n].text = t[n].text
    <2>1. PICK key, words : t[n] = [key |-> key, text |-> words]
      BY DEF Plain
    <2>2. parts[n] = [key |-> CanonicalKey(q, key), text |-> words]
      BY <2>1
    <2>3. QED
      BY <2>1, <2>2
  <1>4. Len(t) \in Nat /\ DOMAIN t = 1..Len(t)
    BY ListIs DEF ApartParts
  <1>5. parts = [n \in 1..Len(t) |-> parts[n]]
    BY <1>4
  <1> HIDE DEF parts
  <1>6. parts \in Seq({parts[n] : n \in DOMAIN parts})
    BY <1>2, <1>4, <1>5
  <1>7. ApartParts(parts, Sentence)
    BY <1>2, <1>3, <1>6 DEF ApartParts, IsList
  <1>8. /\ IsList(e)
        /\ \A n \in DOMAIN e : /\ e[n] = [key |-> e[n].key, text |-> AllUnder(parts, e[n].key)]
                               /\ \E i \in DOMAIN parts : parts[i].key = e[n].key
        /\ \A i \in DOMAIN parts : \E n \in DOMAIN e : e[n].key = parts[i].key
        /\ \A m, n \in DOMAIN e : e[m].key = e[n].key => m = n
    BY <1>1, <1>7, GatherIs DEF ApartParts
  <1>9. ASSUME NEW n \in DOMAIN e
        PROVE  /\ e[n].text \in Seq(Sentence) /\ DistinctKeys(e[n].text)
               /\ \A x : x \in ToSet(e[n].text) <=> \E i \in DOMAIN parts : parts[i].key = e[n].key /\ x \in ToSet(parts[i].text)
    <2>1. PICK key : key = e[n].key
      OBVIOUS
    <2>2. e[n].text = AllUnder(parts, key)
      BY <1>8, <2>1
    <2>3. /\ AllUnder(parts, key) \in Seq(Sentence) /\ DistinctKeys(AllUnder(parts, key))
          /\ \A x : x \in ToSet(AllUnder(parts, key)) <=> \E i \in DOMAIN parts : parts[i].key = key /\ x \in ToSet(parts[i].text)
      BY <1>7, UnderIs
    <2>4. QED
      BY <2>1, <2>2, <2>3
  <1>10. ASSUME NEW m \in DOMAIN e, NEW n \in DOMAIN e, NEW x \in ToSet(e[m].text) \cap ToSet(e[n].text)
         PROVE  m = n
    <2>1. PICK i \in DOMAIN parts : parts[i].key = e[m].key /\ x \in ToSet(parts[i].text)
      BY <1>9
    <2>2. PICK j \in DOMAIN parts : parts[j].key = e[n].key /\ x \in ToSet(parts[j].text)
      BY <1>9
    <2>3. i = j
      BY <1>7, <2>1, <2>2 DEF ApartParts
    <2>4. QED
      BY <1>8, <2>1, <2>2, <2>3
  <1>11. ApartParts(e, Sentence)
    BY <1>8, <1>9, <1>10 DEF ApartParts
  <1>12. ASSUME NEW n \in DOMAIN e, NEW x \in ToSet(e[n].text)
         PROVE  \E m \in DOMAIN t : x \in ToSet(t[m].text) /\ e[n].key = CanonicalKey(q, t[m].key)
    <2>1. PICK i \in DOMAIN parts : parts[i].key = e[n].key /\ x \in ToSet(parts[i].text)
      BY <1>9
    <2>2. QED
      BY <1>2, <1>3, <2>1
  <1>13. ASSUME NEW m \in DOMAIN t, NEW x \in ToSet(t[m].text)
         PROVE  \E n \in DOMAIN e : x \in ToSet(e[n].text)
    <2>1. PICK n \in DOMAIN e : e[n].key = parts[m].key
      BY <1>2, <1>8
    <2>2. QED
      BY <1>2, <1>3, <1>9, <2>1
  <1>14. TextIn(e) = TextIn(t)
    BY <1>12, <1>13 DEF TextIn
  <1>15. LookedUp(e, t, q)
    BY <1>12 DEF LookedUp
  <1>16. QED
    BY <1>11, <1>14, <1>15

(* The chunks of a file.                                                   *)
LEMMA FileChunks ==
  ASSUME NEW f, Readable(f), NEW q,
         NEW list, list = ChunkRecord(q, ExtractSections(q, SplitIntoSections(SplitProfile, f)))
  PROVE  IsList(list) /\ Fills(list, KeptOf(f)) /\ \A k \in ToSet(list) : InSection(k, q)
  <1>1. PICK t : t = SplitIntoSections(SplitProfile, f)
    OBVIOUS
  <1>2. PICK e : e = ExtractSections(q, t)
    OBVIOUS
  <1>3. /\ ApartParts(t, Sentence) /\ TextIn(t) = KeptOf(f) /\ Plain(t)
        /\ \A n \in DOMAIN t : \A x \in ToSet(t[n].text) : x.file = f /\ KeyAt(x.file, x.line) = t[n].key
    BY <1>1, SectionsApart
  <1>4. ApartParts(e, Sentence) /\ TextIn(e) = TextIn(t) /\ LookedUp(e, t, q)
    BY <1>2, <1>3, ExtractIs
  <1>5. list = ChunkRecord(q, e)
    BY <1>1, <1>2
  <1>6. /\ IsList(list)
        /\ Fills(list, TextIn(e))
        /\ \A k \in ToSet(list) :
              /\ ChunkLength(k.text) \in 1..ChunkSize
              /\ \E n \in DOMAIN e : /\ k.section = e[n].key
                                     /\ \A x \in ToSet(k.text) : x.of \in ToSet(e[n].text)
    BY <1>4, <1>5, ChunkRecordIs DEF TextIn
  <1>7. ASSUME NEW k \in ToSet(list)
        PROVE  InSection(k, q)
    <2>1. PICK n \in DOMAIN e : k.section = e[n].key /\ \A x \in ToSet(k.text) : x.of \in ToSet(e[n].text)
      BY <1>6
    <2>2. ASSUME NEW x \in ToSet(k.text)
          PROVE  k.section = CanonicalKey(q, KeyAt(x.of.file, x.of.line))
      <3>1. PICK m \in DOMAIN t : x.of \in ToSet(t[m].text) /\ e[n].key = CanonicalKey(q, t[m].key)
        BY <1>4, <2>1 DEF LookedUp
      <3>2. KeyAt(x.of.file, x.of.line) = t[m].key
        BY <1>3, <3>1
      <3>3. QED
        BY <2>1, <3>1, <3>2
    <2>3. QED
      BY <1>6, <2>2 DEF InSection
  <1>8. QED
    BY <1>3, <1>4, <1>6, <1>7

ReadableFiles == {f \in DOMAIN upload : upload[f] # Unreadable}

AllKept == UNION {KeptOf(f) : f \in ReadableFiles}

Handed(c) == /\ IsList(c.list) /\ Fills(c.list, AllKept)
             /\ \A k \in ToSet(c.list) : InSection(k, c.by)

ReportSoFar == /\ upload \in Uploads \cup {<< >>}
               /\ report \in Seq(BOOLEAN) /\ Len(report) <= Len(upload)

RecordsSoFar ==
  /\ IsList(records)
  /\ \A n \in DOMAIN records : /\ records[n].file \in ReadableFiles /\ records[n].file <= Len(report)
                               /\ records[n].sections = SplitIntoSections(SplitProfile, records[n].file)
  /\ \A m, n \in DOMAIN records : records[m].file = records[n].file => m = n
  /\ \A f \in ReadableFiles : f <= Len(report) => \E n \in DOMAIN records : records[n].file = f

ChunksHanded == chunks # {} => upload # << >> /\ \A c \in chunks : Handed(c)

UploadInv == ReportSoFar /\ RecordsSoFar /\ ChunksHanded

(* A file that is not skipped can be read.                                  *)
LEMMA FilesAre ==
  ASSUME UploadsAssumption, ReportSoFar
  PROVE  /\ IsList(upload) /\ Len(upload) \in Nat /\ DOMAIN upload = 1..Len(upload)
         /\ \A f \in ReadableFiles : Readable(f)
  <1>1. CASE upload = << >>
    <2>1. upload \in Seq({}) /\ DOMAIN upload = {} /\ Len(upload) = 0
      BY <1>1
    <2>2. IsList(upload)
      BY <2>1, IsListOf
    <2>3. QED
      BY <2>1, <2>2 DEF ReadableFiles
  <1>2. CASE upload # << >>
    <2>1. upload \in Uploads
      BY <1>2 DEF ReportSoFar
    <2>2. /\ IsList(upload)
          /\ \A f \in DOMAIN upload : upload[f] # Unreadable =>
               IsList(upload[f]) /\ \A i \in DOMAIN upload[f] : upload[f][i].lengths \in Seq(Nat \ {0})
      BY <2>1, UploadsAssumption
    <2>3. Len(upload) \in Nat /\ DOMAIN upload = 1..Len(upload)
      BY <2>2, ListIs
    <2>4. ASSUME NEW f \in ReadableFiles
          PROVE  Readable(f)
      <3>1. f \in DOMAIN upload /\ upload[f] # Unreadable /\ f \in Nat
        BY <2>3 DEF ReadableFiles
      <3>2. QED
        BY <2>2, <3>1 DEF Readable
    <2>5. QED
      BY <2>2, <2>3, <2>4
  <1>3. QED
    BY <1>1, <1>2

LEMMA KeptIs ==
  ASSUME NEW f, Readable(f), NEW s
  PROVE  /\ s \in KeptOf(f) => s.file = f
         /\ \A i \in DOMAIN upload[f] : s \in SentencesAt(f, i) =>
              s.file = f /\ (s \in KeptOf(f) <=> ~Dropped(f, KeyAt(f, i)))
  <1>1. ASSUME NEW i \in DOMAIN upload[f], s \in SentencesAt(f, i)
        PROVE  s.file = f /\ s.line = i
    BY <1>1, SentencesAre DEF SentencesAt
  <1>2. s \in KeptOf(f) <=> \E i \in DOMAIN upload[f] : ~Dropped(f, KeyAt(f, i)) /\ s \in SentencesAt(f, i)
    BY DEF KeptOf, KeptLines
  <1>3. QED
    BY <1>1, <1>2

LEMMA InitUpload == ASSUME UploadInit PROVE UploadInv
  <1>1. upload = << >> /\ records = << >> /\ report = << >> /\ chunks = {}
    BY DEF UploadInit
  <1>2. DOMAIN upload = {} /\ Len(upload) = 0 /\ report \in Seq(BOOLEAN) /\ Len(report) = 0
    BY <1>1
  <1>3. records \in Seq({}) /\ DOMAIN records = {}
    BY <1>1
  <1>4. IsList(records)
    BY <1>3, IsListOf
  <1>5. QED
    BY <1>1, <1>2, <1>3, <1>4 DEF UploadInv, ReportSoFar, RecordsSoFar, ChunksHanded, ReadableFiles

LEMMA ReceiveFilesKeeps ==
  ASSUME UploadsAssumption, UploadInv, ReceiveFiles
  PROVE  UploadInv'
  <1>1. upload = << >> /\ upload' \in Uploads /\ records' = records /\ report' = report /\ chunks' = chunks
    BY DEF ReceiveFiles
  <1>2. Len(report) = 0 /\ report \in Seq(BOOLEAN) /\ DOMAIN upload = {} /\ chunks = {}
    BY <1>1 DEF UploadInv, ReportSoFar, ChunksHanded
  <1>3. DOMAIN records = {} /\ IsList(records)
    BY <1>2 DEF UploadInv, RecordsSoFar, ReadableFiles
  <1>4. Len(upload') \in Nat /\ DOMAIN upload' = 1..Len(upload')
    BY <1>1, ListIs, UploadsAssumption
  <1>5. ReportSoFar'
    BY <1>1, <1>2, <1>4 DEF ReportSoFar
  <1>6. \A f \in ReadableFiles' : ~(f <= Len(report'))
    BY <1>1, <1>2, <1>4 DEF ReadableFiles
  <1>7. RecordsSoFar'
    BY <1>1, <1>3, <1>6 DEF RecordsSoFar
  <1>8. ChunksHanded'
    BY <1>1, <1>2 DEF ChunksHanded
  <1>9. QED
    BY <1>5, <1>7, <1>8 DEF UploadInv

(* What is said of the files is said of them after the step.               *)
LEMMA SameFiles ==
  ASSUME upload' = upload, splitBy' = splitBy
  PROVE  /\ ReadableFiles' = ReadableFiles
         /\ \A f : SplitIntoSections(SplitProfile, f)' = SplitIntoSections(SplitProfile, f)
         /\ chunks' = chunks /\ ChunksHanded => ChunksHanded'
  <1>1. ReadableFiles' = ReadableFiles
    BY DEF ReadableFiles
  <1>2. SplitProfile' = SplitProfile
    BY DEF SplitProfile
  <1>3. ASSUME NEW f
        PROVE  SplitIntoSections(SplitProfile, f)' = SplitIntoSections(SplitProfile, f)
    BY <1>2 DEF SplitIntoSections, Parts
  <1>4. AllKept' = AllKept
    BY <1>1, <1>2 DEF AllKept, KeptOf, KeptLines, SentencesAt, KeyAt, Dropped, IsLong, TextUnder, Parts
  <1>5. ASSUME NEW c
        PROVE  Handed(c) => Handed(c)'
    BY <1>2, <1>4 DEF Handed, InSection, KeyAt
  <1>6. chunks' = chunks /\ ChunksHanded => ChunksHanded'
    BY <1>5 DEF ChunksHanded
  <1>7. QED
    BY <1>1, <1>3, <1>6

LEMMA ReadFileKeeps ==
  ASSUME UploadsAssumption, UploadInv, ReadFile
  PROVE  UploadInv'
  <1> DEFINE new == [file |-> NextFile, sections |-> SplitIntoSections(SplitProfile, NextFile)]
  <1>1. /\ upload' = upload /\ splitBy' = splitBy /\ chunks' = chunks
        /\ NextFile \in ReadableFiles
        /\ records' = Append(records, new) /\ report' = Append(report, TRUE)
    BY DEF ReadFile, ReadableFiles
  <1>2. /\ IsList(upload) /\ Len(upload) \in Nat /\ DOMAIN upload = 1..Len(upload)
    BY FilesAre DEF UploadInv
  <1>3. report \in Seq(BOOLEAN) /\ Len(report) \in Nat /\ NextFile = Len(report) + 1 /\ NextFile <= Len(upload)
    BY <1>1, <1>2 DEF UploadInv, ReportSoFar, NextFile, ReadableFiles
  <1>4. report' \in Seq(BOOLEAN) /\ Len(report') = NextFile
    BY <1>1, <1>3
  <1>5. ReportSoFar'
    BY <1>1, <1>3, <1>4 DEF UploadInv, ReportSoFar
  <1>6. records \in Seq(ToSet(records)) /\ Len(records) \in Nat /\ DOMAIN records = 1..Len(records)
    BY ListIs DEF UploadInv, RecordsSoFar
  <1>7. new.file = NextFile /\ new.sections = SplitIntoSections(SplitProfile, NextFile)
    OBVIOUS
  <1> HIDE DEF new
  <1>8. /\ records' \in Seq(ToSet(records) \cup {new}) /\ DOMAIN records' = DOMAIN records \cup {Len(records) + 1}
        /\ Len(records) + 1 \notin DOMAIN records
        /\ records'[Len(records) + 1] = new /\ \A n \in DOMAIN records : records'[n] = records[n]
    BY <1>1, <1>6
  <1>9. IsList(records')
    BY <1>8, IsListOf
  <1>10. /\ ReadableFiles' = ReadableFiles
         /\ \A f : SplitIntoSections(SplitProfile, f)' = SplitIntoSections(SplitProfile, f)
         /\ ChunksHanded'
    BY <1>1, SameFiles DEF UploadInv
  <1>11. \A n \in DOMAIN records : records[n].file \in ReadableFiles /\ records[n].file <= Len(report)
    BY DEF UploadInv, RecordsSoFar
  <1>12. \A f \in ReadableFiles : f \in Int
    BY <1>2 DEF ReadableFiles
  <1>13. ASSUME NEW n \in DOMAIN records'
         PROVE  /\ records'[n].file \in ReadableFiles /\ records'[n].file <= Len(report')
                /\ records'[n].sections = SplitIntoSections(SplitProfile, records'[n].file)
    <2>1. CASE n \in DOMAIN records
      <3>1. records'[n] = records[n] /\ records[n].sections = SplitIntoSections(SplitProfile, records[n].file)
        BY <1>8, <2>1 DEF UploadInv, RecordsSoFar
      <3>2. QED
        BY <1>3, <1>4, <1>10, <1>11, <1>12, <2>1, <3>1
    <2>2. CASE n = Len(records) + 1
      <3>1. records'[n] = new
        BY <1>8, <2>2
      <3>2. QED
        BY <1>1, <1>3, <1>4, <1>7, <1>10, <3>1
    <2>3. QED
      BY <1>8, <2>1, <2>2
  <1>14. ASSUME NEW m \in DOMAIN records', NEW n \in DOMAIN records', records'[m].file = records'[n].file
         PROVE  m = n
    <2>1. \A k \in DOMAIN records : records'[k].file # new.file
      BY <1>3, <1>7, <1>8, <1>11, <1>12
    <2>2. CASE m \in DOMAIN records /\ n \in DOMAIN records
      BY <1>8, <1>14, <2>2 DEF UploadInv, RecordsSoFar
    <2>3. QED
      BY <1>8, <1>14, <2>1, <2>2
  <1>15. ASSUME NEW f \in ReadableFiles, f <= Len(report')
         PROVE  \E n \in DOMAIN records' : records'[n].file = f
    <2>1. CASE f <= Len(report)
      <3>1. PICK n \in DOMAIN records : records[n].file = f
        BY <2>1 DEF UploadInv, RecordsSoFar
      <3>2. QED
        BY <1>8, <3>1
    <2>2. CASE ~(f <= Len(report))
      <3>1. f = NextFile
        BY <1>3, <1>4, <1>12, <1>15, <2>2
      <3>2. QED
        BY <1>7, <1>8, <3>1
    <2>3. QED
      BY <2>1, <2>2
  <1>16. RecordsSoFar'
    BY <1>9, <1>10, <1>13, <1>14, <1>15 DEF RecordsSoFar
  <1>17. QED
    BY <1>5, <1>10, <1>16 DEF UploadInv

LEMMA SkipFileKeeps ==
  ASSUME UploadsAssumption, UploadInv, SkipFile
  PROVE  UploadInv'
  <1>1. /\ upload' = upload /\ splitBy' = splitBy /\ records' = records /\ chunks' = chunks
        /\ NextFile \in DOMAIN upload /\ NextFile \notin ReadableFiles
        /\ report' = Append(report, FALSE)
    BY DEF SkipFile, ReadableFiles
  <1>2. /\ IsList(upload) /\ Len(upload) \in Nat /\ DOMAIN upload = 1..Len(upload)
    BY FilesAre DEF UploadInv
  <1>3. report \in Seq(BOOLEAN) /\ Len(report) \in Nat /\ NextFile = Len(report) + 1 /\ NextFile <= Len(upload)
    BY <1>1, <1>2 DEF UploadInv, ReportSoFar, NextFile
  <1>4. report' \in Seq(BOOLEAN) /\ Len(report') = NextFile
    BY <1>1, <1>3
  <1>5. ReportSoFar'
    BY <1>1, <1>3, <1>4 DEF UploadInv, ReportSoFar
  <1>6. /\ ReadableFiles' = ReadableFiles
        /\ \A f : SplitIntoSections(SplitProfile, f)' = SplitIntoSections(SplitProfile, f)
        /\ ChunksHanded'
    BY <1>1, SameFiles DEF UploadInv
  <1>7. \A f \in ReadableFiles : f \in Int
    BY <1>2 DEF ReadableFiles
  <1>8. \A f \in ReadableFiles : f <= Len(report) <=> f <= Len(report')
    BY <1>1, <1>3, <1>4, <1>7
  <1>9. ASSUME NEW n \in DOMAIN records
        PROVE  /\ records[n].file \in ReadableFiles /\ records[n].file <= Len(report')
               /\ records[n].sections = SplitIntoSections(SplitProfile, records[n].file)
    <2>1. /\ records[n].file \in ReadableFiles /\ records[n].file <= Len(report)
          /\ records[n].sections = SplitIntoSections(SplitProfile, records[n].file)
      BY DEF UploadInv, RecordsSoFar
    <2>2. QED
      BY <1>8, <2>1
  <1>10. /\ IsList(records)
         /\ \A m, n \in DOMAIN records : records[m].file = records[n].file => m = n
         /\ \A f \in ReadableFiles : f <= Len(report) => \E n \in DOMAIN records : records[n].file = f
    BY DEF UploadInv, RecordsSoFar
  <1>11. RecordsSoFar'
    BY <1>1, <1>6, <1>8, <1>9, <1>10 DEF RecordsSoFar
  <1>12. QED
    BY <1>5, <1>6, <1>11 DEF UploadInv

(* The chunks of all records hold what the files kept.                      *)
LEMMA AllHanded ==
  ASSUME UploadsAssumption, UploadInv, Len(report) = Len(upload), NEW q,
         NEW c, c = [by |-> q, list |-> Joined([n \in DOMAIN records |->
                                          ChunkRecord(q, ExtractSections(q, records[n].sections))])]
  PROVE  Handed(c)
  <1> DEFINE lists == [n \in DOMAIN records |-> ChunkRecord(q, ExtractSections(q, records[n].sections))]
             sets == [n \in DOMAIN records |-> KeptOf(records[n].file)]
             S == UNION {ToSet(lists[n]) : n \in DOMAIN lists}
  <1>1. c.by = q /\ c.list = Joined(lists)
    OBVIOUS
  <1>2. Len(records) \in Nat /\ DOMAIN records = 1..Len(records)
    BY ListIs DEF UploadInv, RecordsSoFar
  <1>3. /\ DOMAIN upload = 1..Len(upload) /\ \A f \in ReadableFiles : Readable(f)
    BY FilesAre DEF UploadInv
  <1>4. ASSUME NEW n \in DOMAIN records
        PROVE  IsList(lists[n]) /\ Fills(lists[n], sets[n]) /\ \A k \in ToSet(lists[n]) : InSection(k, q)
    <2>1. PICK f : f = records[n].file
      OBVIOUS
    <2>2. f \in ReadableFiles /\ records[n].sections = SplitIntoSections(SplitProfile, f)
      BY <2>1 DEF UploadInv, RecordsSoFar
    <2>3. PICK l : l = lists[n]
      OBVIOUS
    <2>4. l = ChunkRecord(q, ExtractSections(q, SplitIntoSections(SplitProfile, f)))
      BY <2>2, <2>3
    <2>5. IsList(l) /\ Fills(l, KeptOf(f)) /\ \A k \in ToSet(l) : InSection(k, q)
      BY <1>3, <2>2, <2>4, FileChunks
    <2>6. sets[n] = KeptOf(f)
      BY <2>1
    <2>7. QED
      BY <2>3, <2>5, <2>6
  <1>5. DOMAIN lists = DOMAIN records /\ DOMAIN sets = DOMAIN lists
    OBVIOUS
  <1>6. lists = [n \in 1..Len(records) |-> lists[n]]
    BY <1>2
  <1>7. \A n \in DOMAIN records : sets[n] = KeptOf(records[n].file)
    OBVIOUS
  <1> HIDE DEF lists, sets
  <1>8. Disjoint(sets)
    <2> SUFFICES ASSUME NEW m \in DOMAIN records, NEW n \in DOMAIN records, NEW s \in sets[m] \cap sets[n]
                 PROVE  m = n
      BY <1>5 DEF Disjoint
    <2>1. Readable(records[m].file) /\ Readable(records[n].file)
      BY <1>3 DEF UploadInv, RecordsSoFar
    <2>2. s.file = records[m].file /\ s.file = records[n].file
      BY <1>7, <2>1, KeptIs
    <2>3. QED
      BY <2>2 DEF UploadInv, RecordsSoFar
  <1>9. \A n \in DOMAIN lists : lists[n] \in Seq(S)
    <2> SUFFICES ASSUME NEW n \in DOMAIN lists PROVE lists[n] \in Seq(S)
      OBVIOUS
    <2>1. ToSet(lists[n]) \subseteq S /\ lists[n] \in Seq(ToSet(lists[n]))
      BY <1>4, <1>5, ListIs
    <2> HIDE DEF S
    <2>2. QED
      BY <2>1
  <1> HIDE DEF S
  <1>10. lists \in Seq(Seq(S))
    BY <1>2, <1>5, <1>6, <1>9
  <1>11. Fills(c.list, UNION {sets[n] : n \in DOMAIN sets})
    <2>1. \A n \in DOMAIN lists : Fills(lists[n], sets[n])
      BY <1>4, <1>5
    <2>2. Fills(Joined(lists), UNION {sets[n] : n \in DOMAIN sets})
      BY <1>5, <1>8, <1>10, <2>1, JoinedFills
    <2>3. QED
      BY <1>1, <2>2
  <1>12. UNION {sets[n] : n \in DOMAIN sets} = AllKept
    <2>1. ASSUME NEW n \in DOMAIN sets
          PROVE  \E f \in ReadableFiles : sets[n] = KeptOf(f)
      BY <1>5, <1>7 DEF UploadInv, RecordsSoFar
    <2>2. ASSUME NEW f \in ReadableFiles
          PROVE  \E n \in DOMAIN sets : sets[n] = KeptOf(f)
      <3>1. f <= Len(report)
        BY <1>3 DEF ReadableFiles
      <3>2. PICK n \in DOMAIN records : records[n].file = f
        BY <3>1 DEF UploadInv, RecordsSoFar
      <3>3. QED
        BY <1>5, <1>7, <3>2
    <2>3. QED
      BY <2>1, <2>2 DEF AllKept
  <1>13. IsList(c.list)
    BY <1>1, <1>10, JoinedPlaces, IsListOf
  <1>14. ToSet(c.list) = UNION {ToSet(lists[n]) : n \in DOMAIN lists}
    BY <1>1, <1>10, JoinedTexts
  <1>15. \A k \in ToSet(c.list) : InSection(k, c.by)
    BY <1>1, <1>4, <1>5, <1>14
  <1>16. QED
    BY <1>11, <1>12, <1>13, <1>15 DEF Handed

LEMMA HandOnKeeps ==
  ASSUME UploadsAssumption, UploadInv, HandOn
  PROVE  UploadInv'
  <1>1. /\ upload' = upload /\ splitBy' = splitBy /\ records' = records /\ report' = report
        /\ upload # << >> /\ Len(report) = Len(upload) /\ chunks = {}
    BY DEF HandOn
  <1>2. PICK q : chunks' = {[by |-> q, list |-> Joined([n \in DOMAIN records |->
                                           ChunkRecord(q, ExtractSections(q, records[n].sections))])]}
    BY DEF HandOn
  <1>3. \A c \in chunks' : Handed(c)
    BY <1>1, <1>2, AllHanded
  <1>4. /\ ReadableFiles' = ReadableFiles
        /\ \A f : SplitIntoSections(SplitProfile, f)' = SplitIntoSections(SplitProfile, f)
    BY <1>1, SameFiles
  <1>5. ReportSoFar' /\ RecordsSoFar'
    BY <1>1, <1>4 DEF UploadInv, ReportSoFar, RecordsSoFar
  <1>6. SplitProfile' = SplitProfile
    BY <1>1 DEF SplitProfile
  <1>7. AllKept' = AllKept
    BY <1>1, <1>4, <1>6 DEF AllKept, KeptOf, KeptLines, SentencesAt, KeyAt, Dropped, IsLong, TextUnder, Parts
  <1>8. \A c : Handed(c) => Handed(c)'
    BY <1>1, <1>6, <1>7 DEF Handed, InSection, KeyAt
  <1>9. ChunksHanded'
    BY <1>1, <1>3, <1>8 DEF ChunksHanded
  <1>10. QED
    BY <1>5, <1>9 DEF UploadInv

LEMMA UploadStepKeeps ==
  ASSUME UploadsAssumption, UploadInv, [UploadNext]_uploadVars
  PROVE  UploadInv'
  <1>1. CASE ReceiveFiles
    BY <1>1, ReceiveFilesKeeps
  <1>2. CASE ReadFile
    BY <1>2, ReadFileKeeps
  <1>3. CASE SkipFile
    BY <1>3, SkipFileKeeps
  <1>4. CASE HandOn
    BY <1>4, HandOnKeeps
  <1>5. CASE UNCHANGED uploadVars
    <2>1. upload' = upload /\ splitBy' = splitBy /\ records' = records /\ report' = report /\ chunks' = chunks
      BY <1>5 DEF uploadVars
    <2>2. /\ ReadableFiles' = ReadableFiles
          /\ \A f : SplitIntoSections(SplitProfile, f)' = SplitIntoSections(SplitProfile, f)
          /\ ChunksHanded'
      BY <2>1, SameFiles DEF UploadInv
    <2>3. QED
      BY <2>1, <2>2 DEF UploadInv, ReportSoFar, RecordsSoFar
  <1>6. QED
    BY <1>1, <1>2, <1>3, <1>4, <1>5 DEF UploadNext

(* What is handed on is what UploadKept promises.                           *)
LEMMA HandedKept ==
  ASSUME UploadsAssumption, UploadInv
  PROVE  UploadKept
  <1>1. \A f \in ReadableFiles : Readable(f)
    BY FilesAre DEF UploadInv
  <1>2. \A c \in chunks : Handed(c)
    BY DEF UploadInv, ChunksHanded
  <1>3. ChunksFit
    <2> SUFFICES ASSUME NEW c \in chunks, NEW k \in ToSet(c.list)
                 PROVE  /\ ChunkLength(k.text) \in 1..ChunkSize
                        /\ \A x \in ToSet(k.text) :
                             k.section = CanonicalKey(c.by, KeyOf(SplitProfile, upload[x.of.file], x.of.line))
      BY DEF ChunksFit
    <2>1. InSection(k, c.by)
      BY <1>2 DEF Handed
    <2>2. QED
      BY <2>1 DEF InSection, KeyAt
  <1>4. ASSUME NEW c \in chunks, NEW f \in DOMAIN upload, upload[f] # Unreadable,
               NEW i \in DOMAIN upload[f], NEW s \in ToSet(Sentences(f, upload[f], i))
        PROVE  LET holders == {n \in DOMAIN c.list : \E x \in ToSet(c.list[n].text) : x.of = s}
                   pieces  == {x \in UNION {ToSet(c.list[n].text) : n \in holders} : x.of = s}
                   covered(at) == \E x \in pieces : x.from <= at /\ at < x.to
               IN  IF Dropped(f, KeyOf(SplitProfile, upload[f], i)) THEN pieces = {}
                   ELSE /\ \A at \in {0} \cup {x.to : x \in pieces} : at < s.length => covered(at)
                        /\ s.length <= ChunkSize => pieces = {Piece(s, 0, s.length)} /\ Cardinality(holders) = 1
    <2> DEFINE holders == {n \in DOMAIN c.list : \E x \in ToSet(c.list[n].text) : x.of = s}
               pieces  == {x \in UNION {ToSet(c.list[n].text) : n \in holders} : x.of = s}
               covered(at) == \E x \in pieces : x.from <= at /\ at < x.to
    <2>1. PICK texts : texts = TextsOf(c.list)
      OBVIOUS
    <2>2. DOMAIN texts = DOMAIN c.list /\ \A n \in DOMAIN texts : texts[n] = c.list[n].text
      BY <2>1 DEF TextsOf
    <2>3. holders = HoldersIn(texts, s) /\ pieces = PiecesIn(texts, s)
      BY <2>2 DEF HoldersIn, PiecesIn
    <2>4. f \in ReadableFiles /\ Readable(f)
      BY <1>1, <1>4 DEF ReadableFiles
    <2>5. s \in SentencesAt(f, i)
      BY DEF SentencesAt
    <2>6. s.file = f /\ (s \in KeptOf(f) <=> ~Dropped(f, KeyAt(f, i)))
      BY <2>4, <2>5, KeptIs
    <2>7. s \in AllKept <=> s \in KeptOf(f)
      <3>1. \A g \in ReadableFiles : s \in KeptOf(g) => g = f
        BY <1>1, <2>6, KeptIs
      <3>2. QED
        BY <2>4, <3>1 DEF AllKept
    <2>8. OnlyOf(texts, AllKept) /\ (s \in AllKept => HeldIn(texts, s))
      BY <1>2, <2>1 DEF Handed, Fills
    <2>9. CASE Dropped(f, KeyAt(f, i))
      <3>1. pieces = {}
        BY <2>3, <2>6, <2>7, <2>8, <2>9, NoneOf
      <3>2. QED
        BY <2>9, <3>1 DEF KeyAt
    <2>10. CASE ~Dropped(f, KeyAt(f, i))
      <3>1. HeldIn(texts, s)
        BY <2>6, <2>7, <2>8, <2>10
      <3> HIDE DEF holders, pieces
      <3>2. \A at \in {0} \cup {x.to : x \in pieces} : at < s.length => covered(at)
        BY <2>3, <3>1 DEF HeldIn, CoveredBy
      <3>3. s.length <= ChunkSize => pieces = {Piece(s, 0, s.length)} /\ \E n : holders = {n}
        BY <2>3, <3>1 DEF HeldIn
      <3>4. s.length <= ChunkSize => Cardinality(holders) = 1
        BY <3>3, FS_Singleton
      <3> HIDE DEF covered
      <3>5. /\ \A at \in {0} \cup {x.to : x \in pieces} : at < s.length => covered(at)
            /\ s.length <= ChunkSize => pieces = {Piece(s, 0, s.length)} /\ Cardinality(holders) = 1
        BY <3>2, <3>3, <3>4
      <3> USE DEF holders, pieces, covered
      <3>6. QED
        BY <2>10, <3>5 DEF KeyAt
    <2>11. QED
      BY <2>9, <2>10
  <1>5. NothingLost
    BY <1>4 DEF NothingLost
  <1>6. QED
    BY <1>3, <1>5 DEF UploadKept

-----------------------------------------------------------------------------
(* A step of the whole is a step of each part, or leaves it alone.          *)
LEMMA StepsOfAnalysis ==
  [AnalysisNext]_<<bidVars, dealVars, researchVars, uploadVars, loadVars, ledgerVars>> =>
    [BidNext]_bidVars /\ [DealNext]_dealVars /\ [ResearchNext]_researchVars /\ [UploadNext]_uploadVars
    /\ [LoadNext]_loadVars /\ [LedgerNext]_ledgerVars
  BY DEF AnalysisNext, BidStep, DealStep, ResearchStep, UploadStep, LoadStep, LedgerStep

(* Fit and coverage of a bid can be explained by what was matched and       *)
(* drafted (Summarize, Covered), whatever the model answers, whichever tool *)
(* fails and however the profile is edited meanwhile.                      *)
THEOREM BidScoresAreExplained == AnalysisSpec => []ScoresExplained
  <1>1. AnalysisInit => BidInv
    BY InitBid DEF AnalysisInit
  <1>2. BidInv /\ [AnalysisNext]_<<bidVars, dealVars, researchVars, uploadVars, loadVars, ledgerVars>>
          => BidInv'
    BY StepsOfAnalysis, BidStepKeeps
  <1>3. BidInv => ScoresExplained
    BY DEF BidInv, ScoresExplained
  <1>4. QED
    BY <1>1, <1>2, <1>3, PTL DEF AnalysisSpec

(* Every drafted section counts as present when the proposal is scored      *)
(* (section_for), and sections answered with an id and stored rows match    *)
(* one to one (save_workflow).                                             *)
THEOREM NoDraftIsLost == AnalysisSpec => []NoDraftLost
  <1>1. AnalysisInit => BidInv
    BY InitBid DEF AnalysisInit
  <1>2. BidInv /\ [AnalysisNext]_<<bidVars, dealVars, researchVars, uploadVars, loadVars, ledgerVars>>
          => BidInv'
    BY StepsOfAnalysis, BidStepKeeps
  <1>3. BidInv => NoDraftLost
    BY DEF BidInv, NoDraftLost
  <1>4. QED
    BY <1>1, <1>2, <1>3, PTL DEF AnalysisSpec

(* The answer to a conversation keeps what detection and framing found, its *)
(* rating, stage and roles agree, and its product fit is the one found,      *)
(* whose stage, matches and score agree with one profile                    *)
(* (run_intent_detection_workflow, normalize_output, heuristic_output),     *)
(* whichever agents failed or worked without the model.                     *)
THEOREM ConversationIsSound == AnalysisSpec => []DealSound
  <1>1. AnalysisInit => DealInv
    BY InitDeal DEF AnalysisInit
  <1>2. DealInv /\ [AnalysisNext]_<<bidVars, dealVars, researchVars, uploadVars, loadVars, ledgerVars>>
          => DealInv'
    BY StepsOfAnalysis, DealStepKeeps
  <1>3. DealInv => DealSound
    BY DEF DealInv
  <1>4. QED
    BY <1>1, <1>2, <1>3, PTL DEF AnalysisSpec

(* A search for vendors answers every company that it found and did not     *)
(* reject, but for those that enough better ones displace (rank, screen),   *)
(* and a fact, an offering or a source once learnt of a company stays,      *)
(* whichever search or thread brings the next (research, _enrich_via_search, *)
(* finish, _llm_extract).                                                  *)
THEOREM ResearchIsSound == AnalysisSpec => ResearchSound
  <1>1. AnalysisInit => ResearchInv
    BY InitResearch DEF AnalysisInit
  <1>2. [AnalysisNext]_<<bidVars, dealVars, researchVars, uploadVars, loadVars, ledgerVars>>
          => [ResearchNext]_researchVars
    BY StepsOfAnalysis
  <1>3. ResearchInv /\ [AnalysisNext]_<<bidVars, dealVars, researchVars, uploadVars, loadVars, ledgerVars>>
          => ResearchInv'
    BY <1>2, ResearchStepKeeps
  <1>4. ResearchInv /\ [AnalysisNext]_<<bidVars, dealVars, researchVars, uploadVars, loadVars, ledgerVars>>
          => [stage = "search" /\ stage' = "enrich" =>
                \A c \in DOMAIN hits \ (rejected' \cup ToSet(ranked')) :
                  \/ Cardinality({r \in ToSet(ranked') : Before(r, c)}) = MaxCompanies
                  \/ Cardinality({d \in DOMAIN hits : Before(d, c)}) >= 2 * MaxCompanies]_researchVars
    BY <1>2, AnswerIsScreened
  <1>5. ResearchInv /\ [AnalysisNext]_<<bidVars, dealVars, researchVars, uploadVars, loadVars, ledgerVars>>
          => [\A c \in DOMAIN hits :
                /\ c \in DOMAIN hits'
                /\ \A f \in Facts : hits[c].facts[f] # Nothing => hits'[c].facts[f] = hits[c].facts[f]
                /\ IsPrefix(hits[c].solutions, hits'[c].solutions)
                /\ hits[c].sources \subseteq hits'[c].sources]_researchVars
    BY <1>2, ResearchStepKeeps DEF AllGrow, Grows
  <1>6. QED
    BY <1>1, <1>3, <1>4, <1>5, PTL DEF AnalysisSpec, ResearchSound, NoVendorLost, FactsKept

(* What is uploaded is kept: every sentence of a readable file is in the     *)
(* chunks, all of it, in one piece of one chunk if it fits, unless its      *)
(* section is dropped for being short; and chunks are not too long, not     *)
(* empty, and of the section their heading names now (_sentence_aware_chunks, *)
(* chunk_record, split_into_sections), however large a chunk and the overlap *)
(* are and however the profile is edited between the two readings of it.    *)
THEOREM UploadIsKept == AnalysisSpec => []UploadKept
  <1>1. AnalysisInit => UploadInv
    BY InitUpload DEF AnalysisInit
  <1>2. UploadInv /\ [AnalysisNext]_<<bidVars, dealVars, researchVars, uploadVars, loadVars, ledgerVars>>
          => UploadInv'
    BY StepsOfAnalysis, UploadStepKeeps, UploadsAssumption
  <1>3. UploadInv => UploadKept
    BY HandedKept, UploadsAssumption
  <1>4. QED
    BY <1>1, <1>2, <1>3, PTL DEF AnalysisSpec

(* The scripts of a bulk load may be stopped at any step and run again, with *)
(* the export edited in between: an id is loaded once but for a batch that *)
(* brings it twice, a load that ended left no text of its file out, and    *)
(* its totals are those of its file and of the library.                    *)
THEOREM BulkLoadIsSafe == AnalysisSpec => []SafeToRerun
  <1>1. AnalysisInit => LoadInv
    BY InitLoad DEF AnalysisInit
  <1>2. LoadInv /\ [AnalysisNext]_<<bidVars, dealVars, researchVars, uploadVars, loadVars, ledgerVars>>
          => LoadInv'
    BY StepsOfAnalysis, LoadStepKeeps
  <1>3. LoadInv => SafeToRerun
    BY LoadInvSound
  <1>4. QED
    BY <1>1, <1>2, <1>3, PTL DEF AnalysisSpec

(* The calls of runs at a time are told, stored and shown as they were made: *)
(* a run's records are its own calls, each with the tool and section it was *)
(* made for, though sections are drafted by threads (record_usage,          *)
(* copy_context); what is stored of a run is what it was told, or nothing   *)
(* (save_workflow); and the views agree with each other (routers/usage.py).  *)
THEOREM UsageIsTrue == AnalysisSpec => []LedgerTrue
  <1>1. AnalysisInit => LedgerInv
    BY InitLedger DEF AnalysisInit
  <1>2. LedgerInv /\ [AnalysisNext]_<<bidVars, dealVars, researchVars, uploadVars, loadVars, ledgerVars>>
          => LedgerInv'
    BY LedgerAssumption, StepsOfAnalysis, LedgerStepKeeps
  <1>3. LedgerInv => LedgerTrue
    BY LedgerAssumption, LedgerInvSound
  <1>4. QED
    BY <1>1, <1>2, <1>3, PTL DEF AnalysisSpec
=============================================================================
