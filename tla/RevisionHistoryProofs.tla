----------------------- MODULE RevisionHistoryProofs -----------------------
(* Theorems about RevisionHistory, for any set of concurrent requests.      *)
EXTENDS RevisionHistory, FiniteSetTheorems, TLAPS

LEMMA InitIInv == Init => IInv
  <1> SUFFICES ASSUME Init
               PROVE  IInv
    OBVIOUS
  <1> DEFINE d == [id |-> "draft", number |-> 1, base |-> "none"]
  <1>1. revisions = {d} /\ d.id = "draft" /\ d.number = 1
    BY DEF Init
  <1>2. TypeOK
    BY <1>1 DEF Init, TypeOK, Ids, PcValues
  <1>3. NumbersUnique /\ NumbersGapless /\ LatestIsNewest
    BY <1>1 DEF Init, NumbersUnique, NumbersGapless, LatestIsNewest, IsNewest, Taken
  <1>4. NumbersComputed /\ OneUncommitted /\ PendingUntilSaved
    BY DEF Init, NumbersComputed, OneUncommitted, PendingUntilSaved
  <1>5. WritesOnce
    BY <1>1, RequestsAssumption DEF Init, WritesOnce
  <1>6. QED
    BY <1>2, <1>3, <1>4, <1>5 DEF IInv

(* The steps that leave the committed rows alone.                          *)
SameRows == UNCHANGED <<revisions, latest>>

LEMMA RowsKept ==
  ASSUME SameRows
  PROVE  /\ NumbersUnique => NumbersUnique'
         /\ NumbersGapless => NumbersGapless'
         /\ LatestIsNewest => LatestIsNewest'
         /\ \A n : Taken(n)' <=> Taken(n)
  BY DEF SameRows, NumbersUnique, NumbersGapless, LatestIsNewest, IsNewest, Taken

LEMMA ReadStepsIInv ==
  ASSUME IInv, NEW r \in Requests,
         Load(r) \/ RunRevises(r) \/ RunYieldsNothing(r) \/ RunRaises(r)
           \/ ReadSection(r) \/ SaveUsage(r)
  PROVE  IInv'
  <1>1. SameRows /\ number' = number
    BY DEF Load, RunRevises, RunYieldsNothing, RunRaises, ReadSection, SaveUsage, SameRows
  <1>2. TypeOK'
    BY DEF IInv, TypeOK, Load, RunRevises, RunYieldsNothing, RunRaises, ReadSection, SaveUsage,
           Goto, PcValues
  <1>3. /\ pc[r] \notin {"insert", "commit"} /\ pc'[r] \notin {"insert", "commit"}
        /\ \A q \in Requests \ {r} : pc'[q] = pc[q]
    BY DEF IInv, TypeOK, Load, RunRevises, RunYieldsNothing, RunRaises, ReadSection, SaveUsage,
           Goto
  <1>4. NumbersComputed' /\ OneUncommitted'
    BY <1>1, <1>3, RowsKept DEF IInv, NumbersComputed, OneUncommitted, NextNumber
  <1>5. /\ saved' \in [Requests -> {"pending", "saved", "lost", "no_text"}]
        /\ \A q \in Requests : saved'[q] = "saved" <=> saved[q] = "saved"
        /\ \A q \in Requests \ {r} : saved'[q] = saved[q]
        /\ pc'[r] \in PcValues \ {"save_usage", "answered"} => saved'[r] = "pending"
    BY DEF IInv, TypeOK, PendingUntilSaved, Load, RunRevises, RunYieldsNothing, RunRaises,
           ReadSection, SaveUsage, Goto, PcValues
  <1>6. WritesOnce' /\ PendingUntilSaved'
    BY <1>1, <1>3, <1>5 DEF IInv, WritesOnce, PendingUntilSaved, SameRows, TypeOK
  <1>7. QED
    BY <1>1, <1>2, <1>4, <1>6, RowsKept DEF IInv

LEMMA ReadMaxIInv ==
  ASSUME IInv, NEW r \in Requests, ReadMax(r)
  PROVE  IInv'
  <1>1. PICK x \in revisions : IsNewest(x) /\ number' = [number EXCEPT ![r] = x.number + 1]
    BY DEF ReadMax
  <1>2. SameRows /\ x.number \in Nat
    BY DEF ReadMax, SameRows, IInv, TypeOK
  <1>3. TypeOK'
    BY <1>1, <1>2 DEF IInv, TypeOK, ReadMax, Goto, PcValues
  <1>4. number'[r] = x.number + 1 /\ Taken(number'[r] - 1)
    BY <1>1, <1>2 DEF Taken, IInv, TypeOK
  <1>5. /\ pc'[r] = "insert"
        /\ \A q \in Requests \ {r} : pc'[q] = pc[q] /\ number'[q] = number[q]
    BY <1>1 DEF ReadMax, Goto, IInv, TypeOK
  <1>6. NumbersComputed' /\ OneUncommitted'
    BY <1>2, <1>4, <1>5, RowsKept DEF IInv, NumbersComputed, OneUncommitted, NextNumber
  <1>7. WritesOnce' /\ PendingUntilSaved'
    BY <1>2, <1>5 DEF ReadMax, IInv, WritesOnce, PendingUntilSaved, PcValues, SameRows
  <1>8. QED
    BY <1>2, <1>3, <1>6, <1>7, RowsKept DEF IInv

LEMMA InsertIInv ==
  ASSUME IInv, NEW r \in Requests, Insert(r)
  PROVE  IInv'
  <1>1. SameRows /\ number' = number
    BY DEF Insert, SameRows
  <1>2. TypeOK'
    BY DEF IInv, TypeOK, Insert, Goto, PcValues
  <1>3. /\ pc[r] = "insert" /\ pc'[r] = "commit"
        /\ \A q \in Requests \ {r} : pc'[q] = pc[q]
    BY DEF Insert, Goto, IInv, TypeOK
  <1>4. NumbersComputed'
    BY <1>1, <1>3, RowsKept DEF Insert, IInv, NumbersComputed, NextNumber
  <1>5. ASSUME NEW q \in Requests \ {r}, pc[q] = "commit"
        PROVE  FALSE
    <2>1. /\ number[q] \in Nat \ {0} /\ number[r] \in Nat \ {0}
          /\ ~Taken(number[q]) /\ Taken(number[q] - 1)
          /\ ~Taken(number[r]) /\ Taken(number[r] - 1)
      BY <1>3, <1>5 DEF Insert, IInv, TypeOK, NumbersComputed, NextNumber
    <2>2. number[q] # number[r]
      BY <1>5 DEF Insert, Locked
    <2>3. ASSUME NEW m \in Nat \ {0}, NEW n \in Nat \ {0}, m < n, Taken(n - 1)
          PROVE  Taken(m)
      <3>1. PICK x \in revisions : x.number = n - 1
        BY <2>3 DEF Taken
      <3>2. m \in 1..x.number
        BY <2>3, <3>1
      <3>3. QED
        BY <3>1, <3>2 DEF IInv, NumbersGapless
    <2>4. number[q] < number[r] \/ number[r] < number[q]
      BY <2>1, <2>2
    <2>5. QED
      BY <2>1, <2>3, <2>4
  <1>6. OneUncommitted'
    BY <1>3, <1>5 DEF IInv, OneUncommitted
  <1>7. WritesOnce' /\ PendingUntilSaved'
    BY <1>1, <1>3 DEF Insert, IInv, WritesOnce, PendingUntilSaved, PcValues, SameRows
  <1>8. QED
    BY <1>1, <1>2, <1>4, <1>6, <1>7, RowsKept DEF IInv

LEMMA LoseIInv ==
  ASSUME IInv, NEW r \in Requests, InsertConflict(r) \/ DatabaseError(r)
  PROVE  IInv'
  <1>1. /\ SameRows /\ number' = number
        /\ Lose(r) /\ pc[r] \in PcValues \ {"save_usage", "answered"}
    BY DEF InsertConflict, DatabaseError, Lose, SameRows, PcValues
  <1>2. TypeOK'
    BY <1>1 DEF IInv, TypeOK, Lose, Goto, PcValues
  <1>3. /\ pc'[r] = "save_usage" /\ saved'[r] = "lost" /\ saved[r] = "pending"
        /\ \A q \in Requests \ {r} : pc'[q] = pc[q] /\ saved'[q] = saved[q]
    BY <1>1 DEF Lose, Goto, IInv, TypeOK, PendingUntilSaved
  <1>4. NumbersComputed' /\ OneUncommitted'
    BY <1>1, <1>3, RowsKept DEF IInv, NumbersComputed, OneUncommitted, NextNumber
  <1>5. WritesOnce' /\ PendingUntilSaved'
    BY <1>1, <1>3 DEF IInv, WritesOnce, PendingUntilSaved, SameRows
  <1>6. QED
    BY <1>1, <1>2, <1>4, <1>5, RowsKept DEF IInv

LEMMA CommitIInv ==
  ASSUME IInv, NEW r \in Requests, Commit(r)
  PROVE  IInv'
  <1> DEFINE new == [id |-> r, number |-> number[r], base |-> base[r]]
             n   == number[r]
  <1>1. /\ revisions' = revisions \cup {new} /\ latest' = r /\ number' = number
        /\ new.id = r /\ new.number = n /\ base' = base /\ source' = source
        /\ persisted' = persisted
    BY DEF Commit
  <1>2. n \in Nat \ {0} /\ ~Taken(n) /\ Taken(n - 1)
    BY DEF Commit, IInv, TypeOK, NumbersComputed, NextNumber
  <1>3. ASSUME NEW x \in revisions
        PROVE  x.number \in Nat /\ x.number < n /\ x.id # r
    <2>1. x.number \in Nat
      BY DEF IInv, TypeOK
    <2>2. ~(n \in 1..x.number)
      BY <1>2 DEF IInv, NumbersGapless
    <2>3. x.id # r
      BY DEF IInv, WritesOnce, PendingUntilSaved, Commit, PcValues
    <2>4. QED
      BY <1>2, <2>1, <2>2, <2>3
  <1>4. \A m : Taken(m)' <=> Taken(m) \/ m = n
    BY <1>1 DEF Taken
  <1>5. TypeOK'
    <2>1. new \in [id : Ids, number : Nat, base : Ids \cup {"none"}]
      BY DEF IInv, TypeOK, Ids
    <2>2. QED
      BY <1>1, <2>1 DEF IInv, TypeOK, Commit, Goto, PcValues, Ids
  <1>6. NumbersUnique'
    BY <1>1, <1>2, <1>3 DEF IInv, NumbersUnique
  <1>7. NumbersGapless'
    <2> SUFFICES ASSUME NEW m \in 1..n
                 PROVE  Taken(m)'
      BY <1>1, <1>4 DEF IInv, NumbersGapless
    <2>1. CASE m = n
      BY <2>1, <1>4
    <2>2. CASE m < n
      <3>1. PICK x \in revisions : x.number = n - 1
        BY <1>2 DEF Taken
      <3>2. m \in 1..x.number
        BY <2>2, <3>1, <1>2
      <3>3. QED
        BY <3>2, <1>4 DEF IInv, NumbersGapless
    <2>3. QED
      BY <2>1, <2>2, <1>2
  <1>8. LatestIsNewest'
    <2>1. new \in revisions' /\ \A y \in revisions' : y.number <= new.number
      BY <1>1, <1>2, <1>3
    <2>2. QED
      BY <1>1, <2>1 DEF LatestIsNewest, IsNewest
  <1>9. /\ pc[r] = "commit" /\ pc'[r] = "save_usage" /\ saved'[r] = "saved"
        /\ \A q \in Requests \ {r} : pc'[q] = pc[q] /\ saved'[q] = saved[q]
        /\ \A q \in Requests \ {r} : pc[q] # "commit"
    BY DEF Commit, Goto, IInv, TypeOK, OneUncommitted
  <1>10. NumbersComputed' /\ OneUncommitted'
    BY <1>1, <1>4, <1>9 DEF IInv, NumbersComputed, OneUncommitted
  <1>11. WritesOnce'
    <2>1. ASSUME NEW q \in Requests
          PROVE  (\E x \in revisions' : x.id = q) <=> q = r \/ (\E x \in revisions : x.id = q)
      BY <1>1
    <2>2. QED
      BY <2>1, <1>9 DEF IInv, WritesOnce
  <1>12. PendingUntilSaved'
    BY <1>9 DEF IInv, PendingUntilSaved
  <1>13. QED
    BY <1>5, <1>6, <1>7, <1>8, <1>10, <1>11, <1>12 DEF IInv

LEMMA StutterIInv == IInv /\ UNCHANGED vars => IInv'
  BY DEF IInv, TypeOK, NumbersUnique, NumbersGapless, LatestIsNewest, IsNewest, NumbersComputed,
         NextNumber, Taken, OneUncommitted, WritesOnce, PendingUntilSaved, vars

(* IInv holds throughout.                                                  *)
THEOREM Invariance == Spec => []IInv
  <1>1. IInv /\ [Next]_vars => IInv'
    BY ReadStepsIInv, ReadMaxIInv, InsertIInv, LoseIInv, CommitIInv, StutterIInv
       DEF Next, RequestStep, Proceed, AllAnswered
  <1>2. QED
    BY InitIInv, <1>1, PTL DEF Spec

(* The state of the store and the requests stays within its types.         *)
THEOREM TypeCorrect == Spec => []TypeOK
  <1>1. IInv => TypeOK
    BY DEF IInv
  <1>2. QED
    BY <1>1, Invariance, PTL

-----------------------------------------------------------------------------
(* The recorded bases.  A request that has loaded its text took it from a    *)
(* stored revision, and the base it has read is not older than that one.    *)
NotOlder(y, src) == src # "client" => \E z \in revisions : z.id = src /\ z.number <= y.number

BasesKnown ==
  \A r \in Requests :
    /\ pc[r] \in {"run", "read_section"} /\ source[r] # "client" =>
         \E z \in revisions : z.id = source[r]
    /\ pc[r] \in {"read_max", "insert", "commit"} =>
         \E y \in revisions : y.id = base[r] /\ NotOlder(y, source[r])

LEMMA InitBases == Init => BaseIsEarlier /\ BasesKnown
  BY DEF Init, BaseIsEarlier, BasesKnown

LEMMA LoadBases ==
  ASSUME IInv, BaseIsEarlier, BasesKnown, NEW r \in Requests, Load(r)
  PROVE  BaseIsEarlier' /\ BasesKnown'
  <1>1. revisions' = revisions /\ base' = base /\ pc[r] = "load" /\ pc'[r] = "run"
    BY DEF Load, Goto, IInv, TypeOK
  <1>2. \A q \in Requests \ {r} : source'[q] = source[q] /\ pc'[q] = pc[q]
    BY DEF Load, Goto, IInv, TypeOK
  <1>3. source'[r] = "client" \/ source'[r] = latest
    BY DEF Load, IInv, TypeOK
  <1>4. \E z \in revisions : z.id = latest
    BY DEF IInv, LatestIsNewest
  <1>5. \A x \in revisions : x.id # r /\ (x.id # "draft" => x.id \in Requests)
    BY <1>1 DEF IInv, TypeOK, Ids, WritesOnce, PendingUntilSaved, PcValues
  <1>6. BaseIsEarlier'
    BY <1>1, <1>2, <1>5 DEF BaseIsEarlier
  <1>7. BasesKnown'
    BY <1>1, <1>2, <1>3, <1>4 DEF BasesKnown, NotOlder
  <1>8. QED
    BY <1>6, <1>7

LEMMA ReadSectionBases ==
  ASSUME IInv, BaseIsEarlier, BasesKnown, NEW r \in Requests, ReadSection(r)
  PROVE  BaseIsEarlier' /\ BasesKnown'
  <1>1. /\ revisions' = revisions /\ source' = source
        /\ pc[r] = "read_section" /\ pc'[r] = "read_max" /\ base'[r] = latest
    BY DEF ReadSection, Goto, IInv, TypeOK
  <1>2. \A q \in Requests \ {r} : base'[q] = base[q] /\ pc'[q] = pc[q]
    BY DEF ReadSection, Goto, IInv, TypeOK
  <1>3. PICK y \in revisions : y.id = latest /\ \A z \in revisions : z.number <= y.number
    BY DEF IInv, LatestIsNewest, IsNewest
  <1>4. NotOlder(y, source[r])
    BY <1>1, <1>3 DEF BasesKnown, NotOlder
  <1>5. BaseIsEarlier'
    BY <1>1 DEF BaseIsEarlier
  <1>6. BasesKnown'
    BY <1>1, <1>2, <1>3, <1>4 DEF BasesKnown, NotOlder
  <1>7. QED
    BY <1>5, <1>6

LEMMA CommitBases ==
  ASSUME IInv, BaseIsEarlier, BasesKnown, NEW r \in Requests, Commit(r)
  PROVE  BaseIsEarlier' /\ BasesKnown'
  <1> DEFINE new == [id |-> r, number |-> number[r], base |-> base[r]]
  <1>1. /\ revisions' = revisions \cup {new} /\ source' = source /\ base' = base
        /\ new.id = r /\ new.number = number[r] /\ new.base = base[r] /\ pc[r] = "commit"
    BY DEF Commit
  <1>2. pc'[r] = "save_usage" /\ \A q \in Requests \ {r} : pc'[q] = pc[q]
    BY DEF Commit, Goto, IInv, TypeOK
  <1>3. ASSUME NEW x \in revisions
        PROVE  x.number < number[r]
    <2>1. x.number \in Nat /\ number[r] \in Nat \ {0} /\ ~Taken(number[r])
      BY <1>1 DEF IInv, TypeOK, NumbersComputed, NextNumber
    <2>2. ~(number[r] \in 1..x.number)
      BY <2>1 DEF IInv, NumbersGapless
    <2>3. QED
      BY <2>1, <2>2
  <1>4. \A y \in revisions : \A src : NotOlder(y, src) => NotOlder(y, src)'
    BY <1>1 DEF NotOlder
  <1>5. PICK y \in revisions : y.id = base[r] /\ NotOlder(y, source[r])
    BY <1>1 DEF BasesKnown
  <1>6. BaseIsEarlier'
    <2> SUFFICES ASSUME NEW x \in revisions', x.id # "draft"
                 PROVE  \E u \in revisions' : /\ u.id = x.base
                                              /\ u.number < x.number
                                              /\ NotOlder(u, source[x.id])'
      BY <1>1 DEF BaseIsEarlier, NotOlder
    <2>1. CASE x = new
      BY <1>1, <1>3, <1>4, <1>5, <2>1 DEF NotOlder
    <2>2. CASE x \in revisions
      <3>1. PICK u \in revisions : u.id = x.base /\ u.number < x.number /\ NotOlder(u, source[x.id])
        BY <2>2 DEF BaseIsEarlier, NotOlder
      <3>2. QED
        BY <1>1, <1>4, <3>1 DEF NotOlder
    <2>3. QED
      BY <1>1, <2>1, <2>2
  <1>7. BasesKnown'
    BY <1>1, <1>2, <1>4 DEF BasesKnown, NotOlder
  <1>8. QED
    BY <1>6, <1>7

LEMMA OtherBases ==
  ASSUME IInv, BaseIsEarlier, BasesKnown, NEW r \in Requests,
         \/ RunRevises(r) \/ RunYieldsNothing(r) \/ RunRaises(r) \/ ReadMax(r) \/ Insert(r)
         \/ InsertConflict(r) \/ DatabaseError(r) \/ SaveUsage(r)
  PROVE  BaseIsEarlier' /\ BasesKnown'
  <1>1. revisions' = revisions /\ source' = source /\ base' = base
    BY DEF RunRevises, RunYieldsNothing, RunRaises, ReadMax, Insert, InsertConflict,
           DatabaseError, Lose, SaveUsage
  <1>2. /\ \A q \in Requests \ {r} : pc'[q] = pc[q]
        /\ pc'[r] \in {"run", "read_section"} => pc[r] \in {"run", "read_section"}
        /\ pc'[r] \in {"read_max", "insert", "commit"} => pc[r] \in {"read_max", "insert", "commit"}
    BY DEF RunRevises, RunYieldsNothing, RunRaises, ReadMax, Insert, InsertConflict,
           DatabaseError, Lose, SaveUsage, Goto, IInv, TypeOK
  <1>3. QED
    BY <1>1, <1>2 DEF BaseIsEarlier, BasesKnown, NotOlder

(* The base a revision records precedes it, and is not older than the text  *)
(* it revised, although the base is read later and committed later still.   *)
THEOREM BasesAreEarlier == Spec => []BaseIsEarlier
  <1>1. IInv /\ BaseIsEarlier /\ BasesKnown /\ [Next]_vars => BaseIsEarlier' /\ BasesKnown'
    <2> SUFFICES ASSUME IInv, BaseIsEarlier, BasesKnown, [Next]_vars
                 PROVE  BaseIsEarlier' /\ BasesKnown'
      OBVIOUS
    <2>1. CASE UNCHANGED vars
      BY <2>1 DEF vars, BaseIsEarlier, BasesKnown, NotOlder
    <2>2. QED
      BY <2>1, LoadBases, ReadSectionBases, CommitBases, OtherBases
         DEF Next, RequestStep, Proceed, AllAnswered
  <1>2. QED
    BY <1>1, InitBases, Invariance, PTL DEF Spec

(* However many requests revise a section at once, its revision numbers     *)
(* stay unique and gapless, the latest pointer names the highest, and every *)
(* base precedes what was made of it.                                      *)
THEOREM HistoryStaysConsistent == Spec => []HistoryConsistent
  <1>1. IInv /\ BaseIsEarlier => HistoryConsistent
    BY DEF IInv, HistoryConsistent
  <1>2. QED
    BY <1>1, Invariance, BasesAreEarlier, PTL

-----------------------------------------------------------------------------
(* RevisionHistory implements AppendOnlyHistory.                             *)

(* The committed numbers are 1..n, one revision each, n of them.            *)
LogComplete == /\ IsFiniteSet(revisions)
               /\ \A x \in revisions : x.number \in 1..Cardinality(revisions)
               /\ \A n \in 1..Cardinality(revisions) : Taken(n)

(* A number identifies the entry of the log at its place.                   *)
LEMMA EntryAt ==
  ASSUME IInv, NEW x \in revisions
  PROVE  (CHOOSE y \in revisions : y.number = x.number).id = x.id
  BY DEF IInv, NumbersUnique

LEMMA InitLogComplete == Init => LogComplete /\ CommittedLog = <<"draft">>
  <1> SUFFICES ASSUME Init
               PROVE  LogComplete /\ CommittedLog = <<"draft">>
    OBVIOUS
  <1> DEFINE d == [id |-> "draft", number |-> 1, base |-> "none"]
  <1>1. revisions = {d} /\ d.id = "draft" /\ d.number = 1
    BY DEF Init
  <1>2. IsFiniteSet(revisions) /\ Cardinality(revisions) = 1
    BY <1>1, FS_Singleton
  <1>3. LogComplete
    BY <1>1, <1>2 DEF LogComplete, Taken
  <1>4. (CHOOSE x \in revisions : x.number = 1).id = "draft"
    BY <1>1
  <1>5. CommittedLog = [n \in 1..1 |-> "draft"]
    BY <1>2, <1>4 DEF CommittedLog
  <1>6. QED
    BY <1>3, <1>5

(* A commit puts its revision at the end of the log.                        *)
LEMMA CommitAppends ==
  ASSUME IInv, LogComplete, NEW r \in Requests, Commit(r)
  PROVE  LogComplete' /\ CommittedLog' = Append(CommittedLog, r)
  <1> DEFINE new == [id |-> r, number |-> number[r], base |-> base[r]]
  <1>1. /\ revisions' = revisions \cup {new}
        /\ new.id = r /\ new.number = number[r]
    BY DEF Commit
  <1>2. PICK N : N = Cardinality(revisions)
    OBVIOUS
  <1>3. N \in Nat /\ IsFiniteSet(revisions)
    BY <1>2, FS_CardinalityType DEF LogComplete
  <1>4. number[r] = N + 1
    <2>1. number[r] \in Nat \ {0} /\ ~Taken(number[r]) /\ Taken(number[r] - 1)
      BY DEF Commit, IInv, TypeOK, NumbersComputed, NextNumber
    <2>2. number[r] - 1 \in 1..N
      BY <1>2, <2>1 DEF LogComplete, Taken
    <2>3. ~(number[r] \in 1..N)
      BY <1>2, <2>1 DEF LogComplete
    <2>4. QED
      BY <1>3, <2>1, <2>2, <2>3
  <1>5. new \notin revisions
    BY <1>1, <1>2, <1>3, <1>4 DEF LogComplete
  <1>6. IsFiniteSet(revisions') /\ Cardinality(revisions') = N + 1
    BY <1>1, <1>2, <1>3, <1>5, FS_AddElement
  <1>7. LogComplete'
    <2>1. \A x \in revisions' : x.number \in 1..(N + 1)
      BY <1>1, <1>2, <1>3, <1>4 DEF LogComplete
    <2>2. ASSUME NEW n \in 1..(N + 1)
          PROVE  \E x \in revisions' : x.number = n
      <3>1. CASE n \in 1..N
        BY <1>1, <1>2, <3>1 DEF LogComplete, Taken
      <3>2. CASE n = N + 1
        <4>1. new \in revisions' /\ new.number = n
          BY <1>1, <1>4, <3>2
        <4>2. QED
          BY <4>1
      <3>3. QED
        BY <1>3, <3>1, <3>2
    <2>3. QED
      BY <1>6, <2>1, <2>2 DEF LogComplete, Taken
  <1>8. IInv'
    BY CommitIInv
  <1>9. ASSUME NEW n \in 1..N
        PROVE  CommittedLog'[n] = CommittedLog[n]
    <2>1. PICK x \in revisions : x.number = n
      BY <1>2 DEF LogComplete, Taken
    <2>2. CommittedLog[n] = x.id
      BY <1>2, <2>1, EntryAt DEF CommittedLog
    <2>3. (CHOOSE y \in revisions' : y.number = n).id = x.id
      BY <1>1, <1>8, <2>1 DEF IInv, NumbersUnique
    <2>4. CommittedLog'[n] = x.id
      BY <1>3, <1>6, <2>3 DEF CommittedLog
    <2>5. QED
      BY <2>2, <2>4
  <1>10. CommittedLog'[N + 1] = r
    <2>1. (CHOOSE y \in revisions' : y.number = N + 1).id = r
      BY <1>1, <1>4, <1>8 DEF IInv, NumbersUnique
    <2>2. QED
      BY <1>3, <1>6, <2>1 DEF CommittedLog
  <1>11. CommittedLog \in Seq(Ids) /\ Len(CommittedLog) = N
    <2>1. ASSUME NEW n \in 1..N
          PROVE  CommittedLog[n] \in Ids
      <3>1. PICK x \in revisions : x.number = n
        BY <1>2 DEF LogComplete, Taken
      <3>2. QED
        BY <1>2, <3>1, EntryAt DEF CommittedLog, IInv, TypeOK
    <2>2. CommittedLog = [n \in 1..N |-> CommittedLog[n]]
      BY <1>2 DEF CommittedLog
    <2>3. QED
      BY <1>3, <2>1, <2>2
  <1>12. CommittedLog' = [n \in 1..(N + 1) |-> CommittedLog'[n]]
    BY <1>6 DEF CommittedLog
  <1>13. QED
    BY <1>3, <1>7, <1>9, <1>10, <1>11, <1>12

(* The steps that leave the rows alone leave the log alone.                 *)
LEMMA SameLog ==
  ASSUME SameRows
  PROVE  CommittedLog' = CommittedLog /\ (LogComplete => LogComplete')
  BY DEF SameRows, CommittedLog, LogComplete, Taken

LEMMA StoreIsAbstract ==
  ASSUME IInv, LogComplete, NEW r \in Requests, Commit(r)
  PROVE  History!Store(r)
  <1>1. saved[r] = "pending" /\ saved' = [saved EXCEPT ![r] = "saved"]
    BY DEF Commit, IInv, PendingUntilSaved, PcValues
  <1>2. saved \in [Requests -> {"pending", "saved", "lost", "no_text"}]
    BY DEF IInv, TypeOK
  <1>3. Answer[r] = "pending" /\ Answer' = [Answer EXCEPT ![r] = "stored"]
    BY <1>1, <1>2 DEF Answer
  <1>4. QED
    BY <1>3, CommitAppends DEF History!Store

LEMMA RefusalIsAbstract ==
  ASSUME IInv, NEW r \in Requests,
         RunYieldsNothing(r) \/ RunRaises(r) \/ InsertConflict(r) \/ DatabaseError(r)
  PROVE  History!Refuse(r)
  <1>1. PICK v \in {"lost", "no_text"} : saved' = [saved EXCEPT ![r] = v]
    BY DEF RunYieldsNothing, RunRaises, InsertConflict, DatabaseError, Lose
  <1>2. saved[r] = "pending" /\ saved \in [Requests -> {"pending", "saved", "lost", "no_text"}]
    BY DEF RunYieldsNothing, RunRaises, InsertConflict, DatabaseError, IInv, PendingUntilSaved,
           PcValues, TypeOK
  <1>3. Answer[r] = "pending" /\ Answer' = [Answer EXCEPT ![r] = "not_stored"]
    BY <1>1, <1>2 DEF Answer
  <1>4. SameRows
    BY DEF RunYieldsNothing, RunRaises, InsertConflict, DatabaseError, Lose, SameRows
  <1>5. QED
    BY <1>3, <1>4, SameLog DEF History!Refuse

(* However the reads, inserts and commits of concurrent requests             *)
(* interleave, the stored history is a log that grows at its end only, and  *)
(* a request has stored its revision exactly when it was told so.           *)
THEOREM HistoryIsAppendOnly == Spec => ImplementsHistory
  <1>1. Init => History!Init
    <2> SUFFICES ASSUME Init
                 PROVE  History!Init
      OBVIOUS
    <2>1. Answer = [r \in Requests |-> "pending"]
      BY DEF Init, Answer
    <2>2. QED
      BY <2>1, InitLogComplete DEF History!Init
  <1>2. IInv /\ LogComplete /\ [Next]_vars
          => LogComplete' /\ [History!Next]_(History!historyVars)
    <2> SUFFICES ASSUME IInv, LogComplete, [Next]_vars
                 PROVE  LogComplete' /\ [History!Next]_(History!historyVars)
      OBVIOUS
    <2>1. ASSUME NEW r \in Requests, Commit(r)
          PROVE  LogComplete' /\ History!Next
      BY <2>1, CommitAppends, StoreIsAbstract DEF History!Next
    <2>2. ASSUME NEW r \in Requests,
                 RunYieldsNothing(r) \/ RunRaises(r) \/ InsertConflict(r) \/ DatabaseError(r)
          PROVE  LogComplete' /\ History!Next
      <3>1. SameRows
        BY <2>2 DEF RunYieldsNothing, RunRaises, InsertConflict, DatabaseError, Lose, SameRows
      <3>2. QED
        BY <2>2, <3>1, SameLog, RefusalIsAbstract DEF History!Next
    <2>3. ASSUME NEW r \in Requests,
                 Load(r) \/ RunRevises(r) \/ ReadSection(r) \/ ReadMax(r) \/ Insert(r)
                   \/ SaveUsage(r)
          PROVE  LogComplete' /\ UNCHANGED History!historyVars
      <3>1. SameRows /\ saved' = saved
        BY <2>3 DEF Load, RunRevises, ReadSection, ReadMax, Insert, SaveUsage, SameRows
      <3>2. QED
        BY <3>1, SameLog DEF History!historyVars, Answer
    <2>4. CASE UNCHANGED vars
      <3>1. SameRows /\ saved' = saved
        BY <2>4 DEF vars, SameRows
      <3>2. QED
        BY <3>1, SameLog DEF History!historyVars, Answer
    <2>5. QED
      BY <2>1, <2>2, <2>3, <2>4 DEF Next, RequestStep, Proceed, AllAnswered
  <1>3. Init => LogComplete
    BY InitLogComplete
  <1>4. QED
    BY <1>1, <1>2, <1>3, Invariance, PTL DEF Spec, ImplementsHistory, History!Spec
=============================================================================
