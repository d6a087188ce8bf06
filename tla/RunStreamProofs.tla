--------------------------- MODULE RunStreamProofs ---------------------------
(* Theorems about both ends of a run's stream: about RunStream, for any      *)
(* sections, threads and events, and at the end about RunRecovery, for any *)
(* number of runs started one after the other and any number of polls.     *)
EXTENDS RunStream, RunRecovery, FiniteSetTheorems, SequenceTheorems, TLAPS

-----------------------------------------------------------------------------
(* Constants and sequences.                                                *)

LEMMA SectionsSplit ==
  /\ First \in Keys
  /\ Rest \in Seq(STRING) /\ Len(Rest) \in Nat
  /\ \A i \in DOMAIN Rest : Rest[i] \in Keys
  /\ \A k \in Keys : k = First \/ \E i \in DOMAIN Rest : Rest[i] = k
  <1> USE ConstantsAssumption
  <1>1. First = Sections[1] /\ 1 \in DOMAIN Sections
    BY DEF First
  <1>2. /\ Rest \in Seq(STRING) /\ Len(Rest) = Len(Sections) - 1
        /\ \A i \in 1..Len(Rest) : Rest[i] = Sections[i + 1]
    BY DEF Rest
  <1>3. Len(Sections) \in Nat \ {0} /\ DOMAIN Sections = 1..Len(Sections) /\ DOMAIN Rest = 1..Len(Rest)
    BY <1>2
  <1>4. ASSUME NEW i \in DOMAIN Rest
        PROVE  Rest[i] \in Keys
    <2>1. i + 1 \in DOMAIN Sections /\ Rest[i] = Sections[i + 1]
      BY <1>2, <1>3
    <2>2. QED
      BY <2>1 DEF Keys
  <1>5. ASSUME NEW k \in Keys, k # First
        PROVE  \E i \in DOMAIN Rest : Rest[i] = k
    <2>1. PICK i \in DOMAIN Sections : k = Sections[i]
      BY DEF Keys
    <2>2. i - 1 \in DOMAIN Rest /\ Rest[i - 1] = Sections[i]
      BY <1>1, <1>2, <1>3, <1>5, <2>1
    <2>3. QED
      BY <2>1, <2>2
  <1>6. First \in Keys
    BY <1>1 DEF Keys
  <1>7. QED
    BY <1>2, <1>3, <1>4, <1>5, <1>6

LEMMA KeysFinite == IsFiniteSet(Keys)
  <1>1. Len(Sections) \in Nat /\ DOMAIN Sections = 1..Len(Sections) /\ Sections = [i \in 1..Len(Sections) |-> Sections[i]]
    BY ConstantsAssumption
  <1>2. \A i \in 1..Len(Sections) : Sections[i] \in Keys
    BY <1>1 DEF Keys
  <1>3. Sections \in [1..Len(Sections) -> Keys]
    BY <1>1, <1>2
  <1>4. \A k \in Keys : \E i \in 1..Len(Sections) : Sections[i] = k
    BY <1>1 DEF Keys
  <1>5. Sections \in Surjection(1..Len(Sections), Keys)
    BY <1>3, <1>4 DEF Surjection
  <1>6. IsFiniteSet(1..Len(Sections))
    BY <1>1, 1 \in Int, Len(Sections) \in Int, FS_Interval
  <1>7. QED
    BY <1>5, <1>6, FS_Surjection

LEMMA ThreadsCounted ==
  /\ Workers \in Nat
  /\ Max({1, Workers}) \in Nat
  /\ Max({1, Workers}) >= 1 /\ Max({1, Workers}) >= Workers
  <1>1. Concurrency \in Nat /\ Len(Rest) \in Nat
    BY ConstantsAssumption, SectionsSplit
  <1>2. \E x \in {Concurrency, Len(Rest)} : \A y \in {Concurrency, Len(Rest)} : x <= y
    BY <1>1
  <1>3. Workers \in {Concurrency, Len(Rest)}
    BY <1>2 DEF Workers, Min
  <1>4. Workers \in Nat
    BY <1>1, <1>3
  <1>5. \E x \in {1, Workers} : \A y \in {1, Workers} : x >= y
    BY <1>4
  <1>6. QED
    BY <1>4, <1>5 DEF Max

LEMMA AppendHas ==
  ASSUME NEW S, NEW s \in Seq(S), NEW e, NEW kinds
  PROVE  Has(Append(s, e), kinds) <=> Has(s, kinds) \/ e \in kinds
  <1>1. /\ DOMAIN s = 1..Len(s) /\ Len(s) \in Nat
        /\ DOMAIN Append(s, e) = 1..(Len(s) + 1)
        /\ \A i \in 1..Len(s) : Append(s, e)[i] = s[i]
        /\ Append(s, e)[Len(s) + 1] = e
    OBVIOUS
  <1>2. QED
    BY <1>1 DEF Has

LEMMA TailHas ==
  ASSUME NEW S, NEW s \in Seq(S), s # << >>, NEW kinds
  PROVE  Has(s, kinds) <=> Head(s) \in kinds \/ Has(Tail(s), kinds)
  <1>1. /\ Len(s) \in Nat \ {0} /\ DOMAIN s = 1..Len(s)
        /\ Head(s) = s[1]
        /\ DOMAIN Tail(s) = 1..(Len(s) - 1)
        /\ \A i \in 1..(Len(s) - 1) : Tail(s)[i] = s[i + 1]
    OBVIOUS
  <1>2. Has(Tail(s), kinds) <=> \E j \in 2..Len(s) : s[j] \in kinds
    <2>1. ASSUME NEW i \in 1..(Len(s) - 1), s[i + 1] \in kinds
          PROVE  \E j \in 2..Len(s) : s[j] \in kinds
      BY <1>1, <2>1
    <2>2. ASSUME NEW j \in 2..Len(s), s[j] \in kinds
          PROVE  \E i \in 1..(Len(s) - 1) : s[i + 1] \in kinds
      <3>1. j - 1 \in 1..(Len(s) - 1) /\ s[(j - 1) + 1] \in kinds
        BY <1>1, <2>2
      <3>2. QED
        BY <3>1
    <2>3. QED
      BY <1>1, <2>1, <2>2 DEF Has
  <1>3. QED
    BY <1>1, <1>2 DEF Has

-----------------------------------------------------------------------------
(* What a step does to the events.  Until the outcome is put on the queue,  *)
(* the workflow is working: it adds nothing but progress.                  *)

Working == Stages \ {"closing", "over", "dead"}

Types == /\ stage \in Stages
         /\ section \in [Keys -> {"none", "queued", "writing"} \cup Finished]
         /\ collected \in 0..Len(Rest)
         /\ traces \in 0..MaxTraces
         /\ rounds \in 0..MaxRounds
         /\ saved \in {"none", "stored", "lost"}
         /\ link \in {"open", "ended", "cut"}

EventTypes == queue \in Seq(Kinds \cup {"DONE"}) /\ heard \in Seq(Kinds)

Progress == queue' = queue \/ Emit("progress")

LEMMA NothingSentYet ==
  ASSUME IInv, stage \in Working
  PROVE  /\ ~Has(queue, Outcome) /\ ~Has(heard, Outcome)
         /\ ~Has(queue, {"DONE"})
  <1>1. ~Sent(Outcome)
    BY DEF IInv, StageSent, Working
  <1>2. QED
    BY <1>1 DEF IInv, StageSent, Working, Sent

LEMMA HeardIsKinds ==
  ASSUME EventTypes
  PROVE  ~Has(heard, {"DONE"})
  BY DEF EventTypes, Has, Kinds

LEMMA QuietQueue ==
  ASSUME NEW q \in Seq(Kinds \cup {"DONE"}), ~Has(q, Outcome), ~Has(q, {"DONE"})
  PROVE  /\ \A i \in DOMAIN q : q[i] \notin Outcome /\ q[i] # "DONE"
         /\ ~Has(q, {"result"}) /\ ~Has(q, {"error"}) /\ ~Has(q, {"result", "error", "DONE"})
  BY DEF Has, Outcome

LEMMA ProgressKeeps ==
  ASSUME IInv, stage \in Working, stage' \in Working \cup {"dead"}, Progress,
         UNCHANGED heard, link' = link \/ link' = "cut"
  PROVE  /\ EventTypes' /\ QueueShape' /\ StageSent'
         /\ StoredBeforeTold' /\ ~Announced'
  <1> USE DEF EventTypes
  <1>1. EventTypes
    BY DEF IInv, TypeOK
  <1>2. ~Has(queue, Outcome) /\ ~Has(heard, Outcome) /\ ~Has(queue, {"DONE"})
    BY NothingSentYet
  <1>3. queue' \in Seq(Kinds \cup {"DONE"})
    BY <1>1 DEF Progress, Emit, Kinds
  <1>4. ~Has(queue', Outcome) /\ ~Has(queue', {"DONE"})
    <2>1. CASE queue' = queue
      BY <1>2, <2>1
    <2>2. CASE queue' = Append(queue, "progress")
      BY <1>1, <1>2, <2>2, AppendHas DEF Outcome
    <2>3. QED
      BY <2>1, <2>2 DEF Progress, Emit
  <1>5. /\ \A i \in DOMAIN queue' : queue'[i] \notin Outcome /\ queue'[i] # "DONE"
        /\ ~Has(queue', {"result"}) /\ ~Has(queue', {"error"})
        /\ ~Has(queue', {"result", "error", "DONE"})
    BY <1>3, <1>4, QuietQueue
  <1>6. heard \in Seq(Kinds \cup {"DONE"}) /\ ~Has(heard, {"DONE"})
    BY <1>1, HeardIsKinds DEF Kinds
  <1>7. ~Has(heard, {"result"}) /\ ~Has(heard, {"error"}) /\ ~Has(heard, {"result", "error", "DONE"})
    BY <1>2, <1>6, QuietQueue
  <1>8. QueueShape'
    BY <1>2, <1>5 DEF QueueShape, Has
  <1>9. link' # "ended"
    BY DEF IInv, StageSent, Working
  <1>10. ~Sent(Outcome)'
    BY <1>2, <1>4 DEF Sent
  <1>11. QED
    BY <1>1, <1>3, <1>4, <1>5, <1>7, <1>8, <1>9, <1>10
       DEF StageSent, StoredBeforeTold, Announced, Sent, Working, Stages

-----------------------------------------------------------------------------
(* How many sections are being drafted.                                    *)

LEMMA WritingFinite == IsFiniteSet(Writing) /\ Cardinality(Writing) \in Nat
  BY KeysFinite, FS_Subset, FS_CardinalityType DEF Writing

LEMMA NoneStarted ==
  ASSUME PoolBound, \A k \in Keys : section'[k] = "writing" => section[k] = "writing"
  PROVE  PoolBound'
  <1>1. Writing' \in SUBSET Writing
    BY DEF Writing
  <1>2. Cardinality(Writing') <= Cardinality(Writing)
    BY <1>1, WritingFinite, FS_Subset
  <1>3. IsFiniteSet(Writing')
    BY <1>1, WritingFinite, FS_Subset
  <1>4. Cardinality(Writing') \in Nat
    BY <1>3, FS_CardinalityType
  <1>5. QED
    BY <1>2, <1>4, WritingFinite, ThreadsCounted DEF PoolBound

LEMMA OneStarted ==
  ASSUME Types, NEW k \in Keys, section' = [section EXCEPT ![k] = "writing"],
         Writing = {} \/ Cardinality(Writing) < Workers
  PROVE  PoolBound'
  <1>1. Writing' = Writing \cup {k}
    BY DEF Writing, Types
  <1>2. /\ IsFiniteSet(Writing \cup {k})
        /\ Cardinality(Writing \cup {k})
             = IF k \in Writing THEN Cardinality(Writing) ELSE Cardinality(Writing) + 1
    BY WritingFinite, FS_AddElement
  <1>3. IsFiniteSet(Writing') /\ Cardinality(Writing') <= Cardinality(Writing) + 1
    BY <1>1, <1>2, WritingFinite
  <1>4. Cardinality(Writing') \in Nat
    BY <1>3, FS_CardinalityType
  <1>5. Writing = {} => Cardinality(Writing) = 0
    BY FS_EmptySet
  <1>6. QED
    BY <1>3, <1>4, <1>5, WritingFinite, ThreadsCounted DEF PoolBound

-----------------------------------------------------------------------------
(* Every step keeps the invariant.                                         *)

LEMMA InvariantParts ==
  ASSUME Types', EventTypes', PoolBound', StageSections', FirstAlone', StageSaved',
         StoredBeforeTold', QueueShape', StageSent'
  PROVE  IInv'
  BY DEF IInv, TypeOK, Types, EventTypes

LEMMA PartsOfInvariant ==
  ASSUME IInv
  PROVE  Types /\ EventTypes /\ PoolBound
  BY DEF IInv, TypeOK, Types, EventTypes

LEMMA TraceKeeps == ASSUME IInv, Trace PROVE IInv'
  <1> USE DEF Trace, Working, Stages, Alive
  <1>1. Types /\ EventTypes /\ PoolBound
    BY PartsOfInvariant
  <1>2. EventTypes' /\ QueueShape' /\ StageSent' /\ StoredBeforeTold' /\ ~Announced'
    BY ProgressKeeps DEF Progress
  <1>3. Types'
    BY <1>1, ConstantsAssumption DEF Types
  <1>4. PoolBound'
    BY <1>1, NoneStarted
  <1>5. StageSections' /\ FirstAlone' /\ StageSaved'
    BY <1>2 DEF IInv, StageSections, FirstAlone, StageSaved, Idle
  <1>6. QED
    BY <1>2, <1>3, <1>4, <1>5, InvariantParts

LEMMA PlanSectionsKeeps == ASSUME IInv, PlanSections PROVE IInv'
  <1> USE DEF PlanSections, Working, Stages, Finished
  <1>1. Types /\ EventTypes /\ PoolBound
    BY PartsOfInvariant
  <1>2. EventTypes' /\ QueueShape' /\ StageSent' /\ StoredBeforeTold' /\ ~Announced'
    BY ProgressKeeps DEF Progress
  <1>3. Types'
    BY <1>1, ConstantsAssumption, SectionsSplit DEF Types
  <1>4. PoolBound'
    BY <1>1, NoneStarted
  <1>5. StageSections' /\ FirstAlone' /\ StageSaved'
    BY <1>2 DEF IInv, StageSections, FirstAlone, StageSaved, Idle
  <1>6. QED
    BY <1>2, <1>3, <1>4, <1>5, InvariantParts

LEMMA StageOnlyKeeps ==
  ASSUME IInv, Retrieve \/ Validate \/ RunRaises
  PROVE  IInv'
  <1> USE DEF Retrieve, Validate, RunRaises, Working, Stages
  <1>1. Types /\ EventTypes /\ PoolBound
    BY PartsOfInvariant
  <1>2. EventTypes' /\ QueueShape' /\ StageSent' /\ StoredBeforeTold' /\ ~Announced'
    BY ProgressKeeps DEF Progress
  <1>3. Types'
    BY <1>1 DEF Types
  <1>4. PoolBound'
    BY <1>1, NoneStarted
  <1>5. FirstAlone' /\ StageSaved'
    BY DEF IInv, FirstAlone, StageSaved
  <1>6. StageSections'
    BY <1>2, SectionsSplit DEF IInv, StageSections, Idle
  <1>7. QED
    BY <1>2, <1>3, <1>4, <1>5, <1>6, InvariantParts

LEMMA FirstDraftedKeeps == ASSUME IInv, FirstDrafted PROVE IInv'
  <1> USE DEF FirstDrafted, Working, Stages
  <1>1. Types /\ EventTypes /\ PoolBound
    BY PartsOfInvariant
  <1>2. EventTypes' /\ QueueShape' /\ StageSent' /\ StoredBeforeTold' /\ ~Announced'
    BY ProgressKeeps DEF Progress
  <1>3. Types'
    BY <1>1 DEF Types
  <1>4. PoolBound'
    BY <1>1, NoneStarted
  <1>5. \A k \in Keys \ {First} : section[k] = "none"
    BY DEF IInv, StageSections
  <1>6. StageSections'
    BY <1>1, <1>2, <1>5, SectionsSplit DEF StageSections, Idle, Types, Finished
  <1>7. FirstAlone' /\ StageSaved'
    BY <1>5, SectionsSplit DEF IInv, FirstAlone, StageSaved
  <1>8. QED
    BY <1>2, <1>3, <1>4, <1>6, <1>7, InvariantParts

LEMMA CollectOneKeeps == ASSUME IInv, CollectOne PROVE IInv'
  <1> USE DEF CollectOne, Working, Stages
  <1>1. Types /\ EventTypes /\ PoolBound
    BY PartsOfInvariant
  <1>2. EventTypes' /\ QueueShape' /\ StageSent' /\ StoredBeforeTold' /\ ~Announced'
    BY ProgressKeeps DEF Progress
  <1>3. Types'
    BY <1>1, SectionsSplit DEF Types
  <1>4. PoolBound'
    BY <1>1, NoneStarted
  <1>5. StageSections' /\ FirstAlone' /\ StageSaved'
    BY <1>2 DEF IInv, StageSections, FirstAlone, StageSaved, Idle
  <1>6. QED
    BY <1>2, <1>3, <1>4, <1>5, InvariantParts

LEMMA LeavePoolKeeps == ASSUME IInv, LeavePool PROVE IInv'
  <1> USE DEF LeavePool, Working, Stages
  <1>1. Types /\ EventTypes /\ PoolBound
    BY PartsOfInvariant
  <1>2. EventTypes' /\ QueueShape' /\ StageSent' /\ StoredBeforeTold' /\ ~Announced'
    BY ProgressKeeps DEF Progress
  <1>3. Types'
    BY <1>1 DEF Types
  <1>4. PoolBound'
    BY <1>1, NoneStarted
  <1>5. \A k \in Keys : section[k] \in Finished
    BY SectionsSplit DEF IInv, StageSections, PoolIdle
  <1>6. StageSections'
    BY <1>2, <1>5 DEF StageSections, Idle, Finished
  <1>7. FirstAlone' /\ StageSaved'
    BY DEF IInv, FirstAlone, StageSaved
  <1>8. QED
    BY <1>2, <1>3, <1>4, <1>6, <1>7, InvariantParts

LEMMA PersistKeeps == ASSUME IInv, Persist PROVE IInv'
  <1> USE DEF Persist, Working, Stages
  <1>1. Types /\ EventTypes /\ PoolBound
    BY PartsOfInvariant
  <1>2. EventTypes' /\ QueueShape' /\ StageSent' /\ StoredBeforeTold' /\ ~Announced'
    BY ProgressKeeps DEF Progress
  <1>3. Types'
    BY <1>1 DEF Types
  <1>4. PoolBound'
    BY <1>1, NoneStarted
  <1>5. StageSections' /\ FirstAlone' /\ StageSaved'
    BY <1>2 DEF IInv, StageSections, FirstAlone, StageSaved, Idle
  <1>6. QED
    BY <1>2, <1>3, <1>4, <1>5, InvariantParts

(* A section may be waiting or in work only while the drafting lasts.       *)
LEMMA BusyStage ==
  ASSUME IInv, Alive, NEW k \in Keys, section[k] \in {"queued", "writing"}
  PROVE  \/ stage = "first" /\ k = First
         \/ stage \in {"collecting", "unwinding"} /\ k # First
  <1>1. stage \in {"first", "collecting", "unwinding"}
    <2>1. stage \in Stages \ {"dead"} /\ ~Idle
      BY DEF IInv, TypeOK, Alive, Idle
    <2>2. QED
      BY <2>1 DEF IInv, StageSections, Stages
  <1>2. stage = "first" => k = First
    BY DEF IInv, StageSections
  <1>3. stage \in {"collecting", "unwinding"} => k # First
    BY DEF IInv, StageSections, Finished
  <1>4. QED
    BY <1>1, <1>2, <1>3

LEMMA StartSectionKeeps == ASSUME IInv, NEW k \in Keys, StartSection(k) PROVE IInv'
  <1> USE DEF StartSection, Working, Stages
  <1>1. Types /\ EventTypes /\ PoolBound
    BY PartsOfInvariant
  <1>2. \/ stage = "first" /\ k = First /\ section[k] = "none"
        \/ stage \in {"collecting", "unwinding"} /\ k # First /\ Cardinality(Writing) < Workers
    <2>1. CASE stage = "first" /\ k = First /\ section[k] = "none"
      BY <2>1
    <2>2. CASE Alive /\ NextQueued(k) /\ Cardinality(Writing) < Workers
      <3>1. section[k] = "queued" /\ Alive
        BY <2>2 DEF NextQueued
      <3>2. stage # "first"
        BY <3>1, BusyStage DEF IInv, StageSections
      <3>3. QED
        BY <2>2, <3>1, <3>2, BusyStage
    <2>3. QED
      BY <2>1, <2>2 DEF MayStart
  <1>3. EventTypes' /\ QueueShape' /\ StageSent' /\ StoredBeforeTold' /\ ~Announced'
    BY <1>2, ProgressKeeps DEF Progress
  <1>4. Types'
    BY <1>1 DEF Types
  <1>5. PoolBound'
    <2>1. stage = "first" => Writing = {}
      BY <1>2 DEF IInv, StageSections, Writing
    <2>2. QED
      BY <1>1, <1>2, <2>1, OneStarted
  <1>6. StageSections' /\ FirstAlone' /\ StageSaved'
    BY <1>1, <1>2, <1>3, SectionsSplit
       DEF IInv, StageSections, FirstAlone, StageSaved, Idle, Types, Finished
  <1>7. QED
    BY <1>3, <1>4, <1>5, <1>6, InvariantParts

LEMMA FinishSectionKeeps == ASSUME IInv, NEW k \in Keys, FinishSection(k) PROVE IInv'
  <1> USE DEF FinishSection, Working, Stages
  <1>1. Types /\ EventTypes /\ PoolBound
    BY PartsOfInvariant
  <1>2. \/ stage = "first" /\ k = First
        \/ stage \in {"collecting", "unwinding"} /\ k # First
    BY BusyStage
  <1>3. EventTypes' /\ QueueShape' /\ StageSent' /\ StoredBeforeTold' /\ ~Announced'
    BY <1>2, ProgressKeeps DEF Progress
  <1>4. PICK o \in Finished : section' = [section EXCEPT ![k] = o]
    OBVIOUS
  <1>5. Types'
    BY <1>1, <1>4 DEF Types
  <1>6. PoolBound'
    BY <1>1, <1>4, NoneStarted DEF Types, Finished
  <1>7. StageSections' /\ FirstAlone' /\ StageSaved'
    BY <1>1, <1>2, <1>3, <1>4, SectionsSplit
       DEF IInv, StageSections, FirstAlone, StageSaved, Idle, Types, Finished
  <1>8. QED
    BY <1>3, <1>5, <1>6, <1>7, InvariantParts

LEMMA OutcomePutKeeps == ASSUME IInv, PutResult \/ PutError PROVE IInv'
  <1> USE DEF PutResult, PutError, Emit, Working, Stages
  <1>1. Types /\ EventTypes /\ PoolBound
    BY PartsOfInvariant
  <1>2. PICK e \in Outcome : /\ queue' = Append(queue, e)
                             /\ e = "result" => stage = "returning"
                             /\ e = "error" => stage = "raising"
    BY DEF Outcome
  <1>3. /\ stage' = "closing" /\ stage \in {"returning", "raising"}
        /\ UNCHANGED <<section, collected, traces, rounds, saved, heard, link>>
    OBVIOUS
  <1> HIDE DEF PutResult, PutError, Emit
  <1>4. /\ ~Has(queue, Outcome) /\ ~Has(heard, Outcome) /\ ~Has(queue, {"DONE"})
    BY <1>3, NothingSentYet
  <1>5. \A i \in DOMAIN queue : queue[i] \notin Outcome /\ queue[i] # "DONE"
    BY <1>4 DEF Has
  <1>6. EventTypes'
    BY <1>1, <1>2, <1>3 DEF EventTypes, Outcome, Kinds
  <1>7. Types' /\ PoolBound'
    BY <1>1, <1>3, NoneStarted DEF Types
  <1>8. /\ Has(queue', Outcome) /\ ~Has(queue', {"DONE"})
        /\ Has(queue', {"result"}) => e = "result"
        /\ Has(queue', {"error"}) => e = "error"
    <2>1. \A kinds : Has(queue', kinds) <=> Has(queue, kinds) \/ e \in kinds
      BY <1>1, <1>2, AppendHas DEF EventTypes
    <2>2. ~Has(queue, {"result"}) /\ ~Has(queue, {"error"}) /\ e # "DONE"
      BY <1>5 DEF Has, Outcome
    <2>3. QED
      BY <1>4, <2>1, <2>2
  <1>9. QueueShape'
    <2>1. /\ DOMAIN queue = 1..Len(queue) /\ Len(queue) \in Nat
          /\ DOMAIN queue' = 1..(Len(queue) + 1) /\ Len(queue') = Len(queue) + 1
          /\ \A i \in 1..Len(queue) : queue'[i] = queue[i]
          /\ queue'[Len(queue) + 1] = e
      BY <1>1, <1>2 DEF EventTypes
    <2>2. e # "DONE"
      BY DEF Outcome
    <2>3. QED
      BY <1>3, <1>4, <1>5, <2>1, <2>2 DEF QueueShape, Has
  <1>10. StageSent'
    BY <1>3, <1>8 DEF IInv, StageSent, Sent
  <1>11. StoredBeforeTold'
    <2>1. ~Has(heard, {"result"}) /\ ~Has(heard, {"error"})
      BY <1>4 DEF Has, Outcome
    <2>2. QED
      BY <1>2, <1>3, <1>8, <2>1 DEF IInv, StoredBeforeTold, StageSaved, Sent
  <1>12. StageSections' /\ FirstAlone' /\ StageSaved'
    BY <1>3 DEF IInv, StageSections, FirstAlone, StageSaved, Idle
  <1>13. QED
    BY <1>6, <1>7, <1>9, <1>10, <1>11, <1>12, InvariantParts

LEMMA PutDoneKeeps == ASSUME IInv, PutDone PROVE IInv'
  <1> USE DEF PutDone, Working, Stages
  <1>1. Types /\ EventTypes /\ PoolBound
    BY PartsOfInvariant
  <1>2. queue' = Append(queue, "DONE")
    BY DEF Emit
  <1>3. Sent(Outcome) /\ ~Has(queue, {"DONE"})
    BY DEF IInv, StageSent
  <1>4. EventTypes'
    BY <1>1, <1>2 DEF EventTypes
  <1>5. Types' /\ PoolBound'
    BY <1>1, NoneStarted DEF Types
  <1>6. \A kinds : Has(queue', kinds) <=> Has(queue, kinds) \/ "DONE" \in kinds
    BY <1>1, <1>2, AppendHas DEF EventTypes
  <1>7. QueueShape'
    <2>1. /\ DOMAIN queue = 1..Len(queue) /\ Len(queue) \in Nat
          /\ DOMAIN queue' = 1..(Len(queue) + 1) /\ Len(queue') = Len(queue) + 1
          /\ \A i \in 1..Len(queue) : queue'[i] = queue[i]
          /\ queue'[Len(queue) + 1] = "DONE"
      BY <1>1, <1>2 DEF EventTypes
    <2>2. \A i \in DOMAIN queue : queue[i] # "DONE"
      BY <1>3 DEF Has
    <2>3. \A i \in DOMAIN queue' : queue'[i] = "DONE" => i = Len(queue')
      BY <2>1, <2>2
    <2>4. \A i, j \in DOMAIN queue' : i < j /\ queue'[i] \in Outcome => queue'[j] = "DONE"
      BY <2>1 DEF IInv, QueueShape, Outcome
    <2>5. Has(heard', Outcome) => \A i \in DOMAIN queue' : queue'[i] = "DONE"
      BY <2>1 DEF IInv, QueueShape, Has
    <2>6. QED
      BY <2>3, <2>4, <2>5 DEF QueueShape
  <1>8. StageSent'
    BY <1>3, <1>6 DEF IInv, StageSent, Sent
  <1>9. StoredBeforeTold'
    BY <1>6 DEF IInv, StoredBeforeTold, Sent
  <1>10. StageSections' /\ FirstAlone' /\ StageSaved'
    BY DEF IInv, StageSections, FirstAlone, StageSaved, Idle
  <1>11. QED
    BY <1>4, <1>5, <1>7, <1>8, <1>9, <1>10, InvariantParts

LEMMA LinkLostKeeps == ASSUME IInv, Disconnect \/ ServerDies PROVE IInv'
  <1> USE DEF Disconnect, ServerDies
  <1>1. Types /\ EventTypes /\ PoolBound
    BY PartsOfInvariant
  <1>2. /\ UNCHANGED <<section, collected, traces, rounds, saved, queue, heard>>
        /\ stage' = stage \/ stage' = "dead"
        /\ link' = link \/ link' = "cut"
    OBVIOUS
  <1> HIDE DEF Disconnect, ServerDies
  <1>3. Types' /\ EventTypes' /\ PoolBound'
    BY <1>1, <1>2, NoneStarted DEF Types, EventTypes, Stages
  <1>4. QueueShape' /\ StageSent' /\ StoredBeforeTold'
    BY <1>2 DEF IInv, QueueShape, StageSent, StoredBeforeTold, Sent, Has
  <1>5. StageSections' /\ FirstAlone' /\ StageSaved'
    BY <1>2 DEF IInv, StageSections, FirstAlone, StageSaved, Idle, Announced, Sent, Has
  <1>6. QED
    BY <1>3, <1>4, <1>5, InvariantParts

(* The end marker is taken last, by a reader that has heard the outcome.    *)
LEMMA LastTaken ==
  ASSUME IInv, queue # << >>, Head(queue) = "DONE"
  PROVE  Tail(queue) = << >> /\ Has(heard, Outcome) /\ ~Has(queue, Outcome)
  <1>1. /\ queue \in Seq(Kinds \cup {"DONE"}) /\ Len(queue) \in Nat \ {0}
        /\ DOMAIN queue = 1..Len(queue) /\ Head(queue) = queue[1]
    BY DEF IInv, TypeOK
  <1>2. Len(queue) = 1
    BY <1>1 DEF IInv, QueueShape
  <1>3. Tail(queue) = << >>
    <2>1. Tail(queue) \in Seq(Kinds \cup {"DONE"}) /\ Len(Tail(queue)) = 0
      BY <1>1, <1>2
    <2>2. QED
      BY <2>1, EmptySeq
  <1>4. ~Has(queue, Outcome)
    BY <1>1, <1>2 DEF Has, Outcome
  <1>5. Has(queue, {"DONE"})
    BY <1>1 DEF Has
  <1>6. QED
    BY <1>3, <1>4, <1>5 DEF IInv, StageSent, Sent

(* Nothing but the end marker comes after the outcome.                      *)
LEMMA NextHeard ==
  ASSUME IInv, queue # << >>, Head(queue) # "DONE"
  PROVE  /\ Head(queue) \in Kinds
         /\ ~Has(heard, Outcome)
         /\ Head(queue) \in Outcome => \A i \in DOMAIN Tail(queue) : Tail(queue)[i] = "DONE"
  <1>1. /\ queue \in Seq(Kinds \cup {"DONE"}) /\ Len(queue) \in Nat \ {0}
        /\ DOMAIN queue = 1..Len(queue) /\ Head(queue) = queue[1]
        /\ DOMAIN Tail(queue) = 1..(Len(queue) - 1)
        /\ \A i \in 1..(Len(queue) - 1) : Tail(queue)[i] = queue[i + 1]
    BY DEF IInv, TypeOK
  <1>2. queue[1] \in Kinds \cup {"DONE"}
    BY <1>1
  <1>3. ~Has(heard, Outcome)
    BY <1>1 DEF IInv, QueueShape
  <1>4. ASSUME Head(queue) \in Outcome, NEW i \in DOMAIN Tail(queue)
        PROVE  Tail(queue)[i] = "DONE"
    <2>1. /\ i + 1 \in DOMAIN queue /\ 1 \in DOMAIN queue /\ 1 < i + 1
          /\ Tail(queue)[i] = queue[i + 1]
      BY <1>1, <1>4
    <2>2. QED
      BY <1>1, <1>4, <2>1 DEF IInv, QueueShape
  <1>5. QED
    BY <1>1, <1>2, <1>3, <1>4

LEMMA DeliverKeeps == ASSUME IInv, Deliver PROVE IInv'
  <1>1. /\ Alive /\ link = "open" /\ queue # << >> /\ queue' = Tail(queue)
        /\ UNCHANGED <<stage, section, collected, traces, rounds, saved>>
    BY DEF Deliver
  <1>2. Types /\ EventTypes /\ PoolBound
    BY PartsOfInvariant
  <1>3. /\ Len(queue) \in Nat \ {0} /\ DOMAIN queue = 1..Len(queue)
        /\ DOMAIN queue' = 1..(Len(queue) - 1) /\ Len(queue') = Len(queue) - 1
        /\ \A i \in 1..(Len(queue) - 1) : queue'[i] = queue[i + 1]
        /\ queue' \in Seq(Kinds \cup {"DONE"}) /\ Head(queue) \in Kinds \cup {"DONE"}
    BY <1>1, <1>2 DEF EventTypes
  <1>4. PoolBound'
    BY <1>1, <1>2, NoneStarted
  <1>5. FirstAlone' /\ StageSaved'
    BY <1>1 DEF IInv, FirstAlone, StageSaved
  <1>6. \A kinds : Has(queue, kinds) <=> Head(queue) \in kinds \/ Has(queue', kinds)
    BY <1>1, <1>2, TailHas DEF EventTypes
  <1>7. CASE Head(queue) = "DONE"
    <2>1. link' = "ended" /\ heard' = heard
      BY <1>7 DEF Deliver
    <2>2. queue' = << >> /\ Has(heard, Outcome) /\ stage = "over"
      <3>1. Has(queue, {"DONE"})
        BY <1>6, <1>7
      <3>2. QED
        BY <1>1, <1>7, <3>1, LastTaken DEF IInv, StageSent, Alive
    <2>3. Types' /\ EventTypes' /\ QueueShape'
      BY <1>1, <1>2, <1>3, <2>1, <2>2 DEF Types, EventTypes, QueueShape
    <2>4. \A kinds : ~Has(queue', kinds)
      BY <2>2 DEF Has
    <2>5. StageSent' /\ StoredBeforeTold'
      BY <1>1, <2>1, <2>2, <2>4 DEF IInv, StageSent, StoredBeforeTold, Sent
    <2>6. StageSections'
      BY <1>1, <2>2 DEF IInv, StageSections, Idle
    <2>7. QED
      BY <1>4, <1>5, <2>3, <2>5, <2>6, InvariantParts
  <1>8. CASE Head(queue) # "DONE"
    <2>1. link' = link /\ heard' = Append(heard, Head(queue))
      BY <1>1, <1>8 DEF Deliver
    <2>2. /\ Head(queue) \in Kinds /\ ~Has(heard, Outcome)
          /\ Head(queue) \in Outcome => \A i \in DOMAIN queue' : queue'[i] = "DONE"
      BY <1>1, <1>8, NextHeard
    <2>3. Types' /\ EventTypes'
      BY <1>1, <1>2, <1>3, <2>1, <2>2 DEF Types, EventTypes
    <2>4. \A kinds : Has(heard', kinds) <=> Has(heard, kinds) \/ Head(queue) \in kinds
      BY <1>2, <2>1, AppendHas DEF EventTypes
    <2>5. QueueShape'
      <3>1. \A i \in DOMAIN queue' : i + 1 \in DOMAIN queue /\ queue'[i] = queue[i + 1]
        BY <1>3
      <3>2. \A i \in DOMAIN queue' : queue'[i] = "DONE" => i = Len(queue')
        BY <1>3, <3>1 DEF IInv, QueueShape
      <3>3. \A i, j \in DOMAIN queue' : i < j /\ queue'[i] \in Outcome => queue'[j] = "DONE"
        <4>1. \A i, j \in DOMAIN queue' : i < j => i + 1 < j + 1
          BY <1>3
        <4>2. QED
          BY <3>1, <4>1 DEF IInv, QueueShape
      <3>4. QED
        BY <2>2, <2>4, <3>2, <3>3 DEF QueueShape
    <2>6. \A kinds : Sent(kinds)' <=> Sent(kinds)
      BY <1>6, <2>4 DEF Sent
    <2>7. StageSent' /\ StoredBeforeTold' /\ StageSections'
      BY <1>1, <1>6, <2>1, <2>6
         DEF IInv, StageSent, StoredBeforeTold, StageSections, Announced, Idle
    <2>8. QED
      BY <1>4, <1>5, <2>3, <2>5, <2>7, InvariantParts
  <1>9. QED
    BY <1>7, <1>8

LEMMA InitIInv == Init => IInv
  <1> SUFFICES ASSUME Init PROVE IInv
    OBVIOUS
  <1> USE DEF Init
  <1>1. Writing = {}
    BY DEF Writing
  <1>2. PoolBound
    BY <1>1, FS_EmptySet, ThreadsCounted DEF PoolBound
  <1>3. TypeOK
    BY <1>2, SectionsSplit, ConstantsAssumption DEF TypeOK, Stages, Kinds
  <1>4. \A kinds : ~Sent(kinds)
    BY DEF Sent, Has
  <1>5. StageSections /\ FirstAlone /\ StageSaved /\ StoredBeforeTold /\ QueueShape /\ StageSent
    BY <1>4, SectionsSplit DEF StageSections, FirstAlone, StageSaved, StoredBeforeTold,
       QueueShape, StageSent, Idle, Announced, Has, Finished
  <1>6. QED
    BY <1>3, <1>5 DEF IInv

LEMMA NextIInv == IInv /\ [Next]_vars => IInv'
  <1> SUFFICES ASSUME IInv, [Next]_vars PROVE IInv'
    OBVIOUS
  <1>1. CASE UNCHANGED vars
    BY <1>1 DEF vars, IInv, TypeOK, PoolBound, Writing, StageSections, Idle, Announced, Sent, Has,
       FirstAlone, StageSaved, StoredBeforeTold, QueueShape, StageSent
  <1>2. CASE WorkerStep
    BY <1>2, TraceKeeps, PlanSectionsKeeps, StageOnlyKeeps, FirstDraftedKeeps, CollectOneKeeps,
       LeavePoolKeeps, PersistKeeps, OutcomePutKeeps, PutDoneKeeps DEF WorkerStep
  <1>3. CASE \E k \in Keys : SectionStep(k)
    BY <1>3, StartSectionKeeps, FinishSectionKeeps DEF SectionStep
  <1>4. CASE Deliver \/ Disconnect \/ ServerDies
    BY <1>4, DeliverKeeps, LinkLostKeeps
  <1>5. QED
    BY <1>1, <1>2, <1>3, <1>4 DEF Next, Stopped

LEMMA Invariant == Spec => []IInv
  BY InitIInv, NextIInv, PTL DEF Spec

-----------------------------------------------------------------------------
(* The results.                                                            *)

(* Queue, received events, counters and sections keep their types, and no   *)
(* more sections are drafted at a time than the pool has threads.          *)
THEOREM TypeCorrect == Spec => []TypeOK
  <1>1. IInv => TypeOK
    BY DEF IInv
  <1>2. QED
    BY <1>1, Invariant, PTL

(* Once the worker has left the pool, or an outcome is on its way, no       *)
(* section is waiting or in work.                                          *)
THEOREM NoOrphanThreads == Spec => []NoOrphans
  <1>1. IInv => NoOrphans
    BY DEF IInv, StageSections, NoOrphans, Idle
  <1>2. QED
    BY <1>1, Invariant, PTL

(* In every round the first section is finished before another is begun.    *)
THEOREM FirstIsAlone == Spec => []FirstAlone
  <1>1. IInv => FirstAlone
    BY DEF IInv
  <1>2. QED
    BY <1>1, Invariant, PTL

(* A result on its way, or heard, has been stored or has failed to be; an   *)
(* error leaves no stored run behind.                                      *)
THEOREM StoredFirst == Spec => []StoredBeforeTold
  <1>1. IInv => StoredBeforeTold
    BY DEF IInv
  <1>2. QED
    BY <1>1, Invariant, PTL

-----------------------------------------------------------------------------
(* Refinement.                                                             *)

LEMMA InitRefines == Init => Stream!Init
  BY DEF Init, Stream!Init

LEMMA NextRefines == IInv /\ [Next]_vars => [Stream!Next]_(Stream!streamVars)
  <1> SUFFICES ASSUME IInv, [Next]_vars
               PROVE  Stream!Next \/ UNCHANGED <<heard, link>>
    BY DEF Stream!streamVars
  <1>1. CASE UNCHANGED vars
    BY <1>1 DEF vars
  <1>2. CASE WorkerStep
    BY <1>2 DEF WorkerStep, Trace, PlanSections, Retrieve, FirstDrafted, CollectOne, LeavePool,
       Validate, Persist, PutResult, RunRaises, PutError, PutDone
  <1>3. CASE \E k \in Keys : SectionStep(k)
    BY <1>3 DEF SectionStep, StartSection, FinishSection
  <1>4. CASE Deliver
    <2>1. link = "open" /\ queue # << >>
      BY <1>4 DEF Deliver
    <2>2. Stream!Told <=> Has(heard, Outcome)
      BY DEF Stream!Told, Has, Outcome
    <2>3. CASE Head(queue) = "DONE"
      <3>1. link' = "ended" /\ heard' = heard
        BY <1>4, <2>3 DEF Deliver
      <3>2. Stream!End
        BY <2>1, <2>2, <2>3, <3>1, LastTaken DEF Stream!End
      <3>3. QED
        BY <3>2 DEF Stream!Next
    <2>4. CASE Head(queue) # "DONE"
      <3>1. link' = link /\ heard' = Append(heard, Head(queue))
        BY <1>4, <2>4 DEF Deliver
      <3>2. Stream!Hear(Head(queue)) /\ Head(queue) \in Kinds
        BY <2>1, <2>2, <2>4, <3>1, NextHeard DEF Stream!Hear
      <3>3. QED
        BY <3>2 DEF Stream!Next, Kinds
    <2>5. QED
      BY <2>3, <2>4
  <1>5. CASE Disconnect \/ ServerDies
    BY <1>5 DEF Disconnect, ServerDies, Stream!Next, Stream!Cut
  <1>6. QED
    BY <1>1, <1>2, <1>3, <1>4, <1>5 DEF Next, Stopped

(* Whatever the threads do and however the connection breaks, the reader of *)
(* the stream hears progress, then at most one outcome and nothing after   *)
(* it; a stream the server ends has told one.                              *)
THEOREM StreamKeepsItsPromise == Spec => ImplementsEventStream
  BY Invariant, InitRefines, NextRefines, PTL DEF Spec, ImplementsEventStream, Stream!Spec

-----------------------------------------------------------------------------
(* The browser's hook.                                                     *)

(* Runs are started in order.                                              *)
StartedInOrder == \A p, q \in Runs : p < q /\ call[p] = "idle" => call[q] = "idle"

(* Only a call that sleeps or polls can have been aborted without having    *)
(* returned.                                                               *)
AbortReachesReaders == \A r \in Runs : call[r] \in {"idle", "reading"} => ~aborted[r]

PollsCounted ==
  \A r \in Runs : /\ call[r] = "sleeping" => polls[r] < MaxPolls
                  /\ call[r] = "asking" => polls[r] > 0
                  /\ call[r] \in {"idle", "reading"} => polls[r] = 0
                  /\ answer[r] = "completed" => stored[r] = "completed"

RecoveryInv == /\ RecoveryTypeOK
               /\ StartedInOrder
               /\ AbortReachesReaders
               /\ PollsCounted
               /\ ShownIsReal
               /\ OneLiveCall
               /\ StaleOnlyFromPoll

Phases == {"idle", "running", "done", "error"}

Calls == {"idle", "reading", "sleeping", "asking", "returned"}

LEMMA InitRecoveryInv == RecoveryInit => RecoveryInv
  <1> SUFFICES ASSUME RecoveryInit
               PROVE  RecoveryInv
    OBVIOUS
  <1>1. None \in Runs \cup {None} /\ None \notin Runs /\ 0 \in 0..MaxPolls
    BY RunsAssumption DEF None, Runs
  <1>2. RecoveryTypeOK
    BY <1>1 DEF RecoveryInit, RecoveryTypeOK
  <1>3. StartedInOrder /\ AbortReachesReaders /\ PollsCounted
    BY DEF RecoveryInit, StartedInOrder, AbortReachesReaders, PollsCounted
  <1>4. ShownIsReal /\ OneLiveCall /\ StaleOnlyFromPoll
    BY DEF RecoveryInit, ShownIsReal, OneLiveCall, StaleOnlyFromPoll
  <1>5. QED
    BY <1>2, <1>3, <1>4 DEF RecoveryInv

-----------------------------------------------------------------------------
(* A step of one call that has been started and has not returned: it may    *)
(* return or change what is shown, and starts and aborts nothing.          *)
Within(r) == /\ call' \in [Runs -> Calls]
             /\ call[r] \notin {"idle", "returned"} /\ call'[r] # "idle"
             /\ call'[r] = "reading" => call[r] = "reading"
             /\ \A q \in Runs \ {r} : call'[q] = call[q]
             /\ aborted' = aborted
             /\ view'.run = view.run

LEMMA WithinKeeps ==
  ASSUME RecoveryInv, NEW r \in Runs, Within(r)
  PROVE  StartedInOrder' /\ AbortReachesReaders' /\ OneLiveCall'
  <1>1. \A q \in Runs : call'[q] = "idle" <=> call[q] = "idle"
    BY DEF Within
  <1>2. StartedInOrder' /\ AbortReachesReaders'
    BY <1>1 DEF RecoveryInv, StartedInOrder, AbortReachesReaders, Within
  <1>3. \A q \in Runs : Current(q)' <=> Current(q)
    BY <1>1 DEF Current
  <1>4. OneLiveCall'
    BY <1>3 DEF RecoveryInv, OneLiveCall, Within, RecoveryTypeOK
  <1>5. QED
    BY <1>2, <1>4

(* The result of a stream is shown by the call of the run on the screen.    *)
LEMMA ReadersAreShown ==
  ASSUME RecoveryInv, NEW r \in Runs, call[r] = "reading"
  PROVE  view.run = r
  BY DEF RecoveryInv, AbortReachesReaders, OneLiveCall

LEMMA ShowIsTyped ==
  ASSUME RecoveryInv, NEW phase \in Phases, NEW shown \in Runs \cup {None}, Show(phase, shown)
  PROVE  /\ view' \in [run : Runs \cup {None}, phase : Phases, shown : Runs \cup {None}]
         /\ view'.run = view.run /\ view'.shown = shown
  BY DEF RecoveryInv, RecoveryTypeOK, Show, Phases

LEMMA ReadIInv ==
  ASSUME RecoveryInv, NEW r \in Runs,
         \/ HearProgress(r) \/ HearResult(r) \/ HearError(r) \/ ReadToEnd(r) \/ NoticeBreak(r)
         \/ RequestFails(r)
  PROVE  RecoveryInv'
  <1> USE DEF RecoveryInv
  <1>1. /\ call[r] = "reading" /\ view.run = r /\ view.shown \in Runs \cup {None}
        /\ polls[r] = 0 /\ 0 < MaxPolls
        /\ aborted' = aborted /\ polls' = polls /\ answer' = answer /\ stored' = stored
        /\ server' = server
    BY ReadersAreShown, RunsAssumption
       DEF HearProgress, HearResult, HearError, ReadToEnd, NoticeBreak, RequestFails, Receives,
           PollsCounted, RecoveryTypeOK
  <1>2. /\ call' \in [Runs -> Calls] /\ call'[r] \in {"reading", "sleeping", "returned"}
        /\ \A q \in Runs \ {r} : call'[q] = call[q]
    BY <1>1 DEF HearProgress, HearResult, HearError, ReadToEnd, NoticeBreak, RequestFails, Goto,
                RecoveryTypeOK, Calls
  <1>3. /\ view' \in [run : Runs \cup {None}, phase : Phases, shown : Runs \cup {None}]
        /\ view'.run = view.run /\ told' \in [Runs -> {"nothing", "result", "error"}]
        /\ \/ view'.shown = view.shown /\ \A q \in Runs : told[q] = "result" => told'[q] = "result"
           \/ /\ view'.shown = r /\ told'[r] = "result"
    <2>1. CASE HearResult(r)
      <3>1. Show("done", r)
        BY <2>1 DEF HearResult
      <3>2. QED
        BY <2>1, <3>1, ShowIsTyped DEF HearResult, RecoveryTypeOK, Phases
    <2>2. CASE HearError(r)
      <3>1. Show("error", view.shown) /\ told[r] = "nothing" /\ told' = [told EXCEPT ![r] = "error"]
        BY <2>2 DEF HearError, Receives
      <3>2. QED
        BY <1>1, <3>1, ShowIsTyped DEF RecoveryTypeOK, Phases
    <2>3. CASE Show("error", view.shown) /\ told' = told
      BY <1>1, <2>3, ShowIsTyped DEF RecoveryTypeOK, Phases
    <2>4. CASE view' = view /\ told' = told
      BY <2>4 DEF RecoveryTypeOK, Phases
    <2>5. QED
      BY <2>1, <2>2, <2>3, <2>4 DEF HearProgress, ReadToEnd, NoticeBreak, RequestFails
  <1>4. knows' \in [Runs -> BOOLEAN] /\ conn' \in [Runs -> {"none", "open", "ended", "cut"}]
    BY DEF HearProgress, HearResult, HearError, ReadToEnd, NoticeBreak, RequestFails, RecoveryTypeOK
  <1>5. RecoveryTypeOK'
    BY <1>1, <1>2, <1>3, <1>4 DEF RecoveryTypeOK, Calls, Phases
  <1>6. Within(r)
    BY <1>1, <1>2, <1>3 DEF Within
  <1>7. PollsCounted'
    BY <1>1, <1>2 DEF PollsCounted
  <1>8. ShownIsReal'
    BY <1>1, <1>3 DEF ShownIsReal, RecoveryTypeOK
  <1>9. StaleOnlyFromPoll'
    BY <1>1, <1>3 DEF StaleOnlyFromPoll
  <1>10. QED
    BY <1>5, <1>6, <1>7, <1>8, <1>9, WithinKeeps

LEMMA PollIInv ==
  ASSUME RecoveryInv, NEW r \in Runs, Ask(r) \/ Recover(r) \/ AskAgain(r) \/ GiveUp(r)
  PROVE  RecoveryInv'
  <1> USE DEF RecoveryInv
  <1>1. /\ call[r] \in {"sleeping", "asking"} /\ polls[r] \in Nat /\ view.shown \in Runs \cup {None}
        /\ UNCHANGED <<aborted, knows, told, stored, conn, server>>
    BY DEF Ask, Recover, AskAgain, GiveUp, RecoveryTypeOK
  <1>2. /\ call' \in [Runs -> Calls] /\ call'[r] \in {"sleeping", "asking", "returned"}
        /\ \A q \in Runs \ {r} : call'[q] = call[q]
    BY DEF Ask, Recover, AskAgain, GiveUp, Goto, RecoveryTypeOK, Calls
  <1>3. /\ polls' \in [Runs -> 0..MaxPolls]
        /\ answer' \in [Runs -> {"none", "completed", "failed", "unauthorized"}]
        /\ \A q \in Runs : polls[q] > 0 => polls'[q] > 0
        /\ PollsCounted'
    <2>1. CASE Ask(r)
      <3>1. /\ polls[r] < MaxPolls /\ polls' = [polls EXCEPT ![r] = @ + 1]
            /\ call' = [call EXCEPT ![r] = "asking"] /\ stored' = stored
        BY <2>1 DEF Ask, Goto, PollsCounted
      <3>2. PICK a \in {stored[r], "none", "unauthorized"} : answer' = [answer EXCEPT ![r] = a]
        BY <2>1 DEF Ask
      <3>3. /\ polls' \in [Runs -> 0..MaxPolls] /\ polls'[r] = polls[r] + 1
            /\ \A q \in Runs \ {r} : polls'[q] = polls[q]
        BY <1>1, <3>1, RunsAssumption DEF RecoveryTypeOK
      <3>4. answer' \in [Runs -> {"none", "completed", "failed", "unauthorized"}]
        BY <3>2 DEF RecoveryTypeOK
      <3>5. PollsCounted'
        BY <1>1, <3>1, <3>2, <3>3, <3>4 DEF PollsCounted, RecoveryTypeOK
      <3>6. QED
        BY <1>1, <3>3, <3>4, <3>5
    <2>2. CASE AskAgain(r)
      <3>1. /\ polls' = polls /\ answer' = answer /\ polls[r] < MaxPolls /\ stored' = stored
            /\ call' = [call EXCEPT ![r] = "sleeping"]
        BY <2>2 DEF AskAgain, Goto
      <3>2. QED
        BY <3>1 DEF PollsCounted, RecoveryTypeOK
    <2>3. CASE Recover(r) \/ GiveUp(r)
      <3>1. /\ polls' = polls /\ answer' = answer /\ stored' = stored
            /\ call' = [call EXCEPT ![r] = "returned"]
        BY <2>3 DEF Recover, GiveUp, Goto
      <3>2. QED
        BY <3>1 DEF PollsCounted, RecoveryTypeOK
    <2>4. QED
      BY <2>1, <2>2, <2>3
  <1>4. /\ view' \in [run : Runs \cup {None}, phase : Phases, shown : Runs \cup {None}]
        /\ view'.run = view.run
        /\ \/ view'.shown = view.shown
           \/ view'.shown = r /\ stored[r] = "completed" /\ polls[r] > 0 /\ call[r] = "asking"
    <2>1. CASE Recover(r)
      <3>1. Show("done", r) /\ stored[r] = "completed" /\ call[r] = "asking" /\ polls[r] > 0
        BY <2>1 DEF Recover, PollsCounted
      <3>2. QED
        BY <3>1, ShowIsTyped DEF Phases
    <2>2. CASE GiveUp(r)
      <3>1. Show("error", view.shown)
        BY <2>2 DEF GiveUp
      <3>2. QED
        BY <1>1, <3>1, ShowIsTyped DEF Phases
    <2>3. CASE view' = view
      BY <2>3 DEF RecoveryTypeOK, Phases
    <2>4. QED
      BY <2>1, <2>2, <2>3 DEF Ask, AskAgain
  <1>5. RecoveryTypeOK'
    BY <1>1, <1>2, <1>3, <1>4 DEF RecoveryTypeOK, Calls, Phases
  <1>6. Within(r)
    BY <1>1, <1>2, <1>4 DEF Within
  <1>7. ShownIsReal'
    BY <1>1, <1>4 DEF ShownIsReal
  <1>8. StaleOnlyFromPoll'
    <2>1. CASE view'.shown = view.shown
      BY <1>1, <1>3, <1>4, <2>1 DEF StaleOnlyFromPoll, RecoveryTypeOK
    <2>2. CASE view'.shown = r /\ polls[r] > 0 /\ call[r] = "asking"
      <3>1. aborted[r] \/ view.run = r
        BY <2>2 DEF OneLiveCall
      <3>2. QED
        BY <1>1, <1>3, <1>4, <2>2, <3>1 DEF StaleOnlyFromPoll
    <2>3. QED
      BY <1>4, <2>1, <2>2
  <1>9. QED
    BY <1>3, <1>5, <1>6, <1>7, <1>8, WithinKeeps

-----------------------------------------------------------------------------
(* The server and the network change nothing the calls have.               *)
LEMMA ServerIInv ==
  ASSUME RecoveryInv, NEW r \in Runs, ServerStep(r) \/ CutStream(r)
  PROVE  RecoveryInv'
  <1>1. UNCHANGED <<call, aborted, knows, polls, answer, view, told>>
    BY DEF ServerStep, StoreRun, EndRun, EndStream, CutStream
  <1>2. /\ stored' \in [Runs -> {"none", "completed", "failed"}]
        /\ \A q \in Runs : stored[q] = "completed" => stored'[q] = "completed"
    BY DEF RecoveryInv, RecoveryTypeOK, ServerStep, StoreRun, EndRun, EndStream, CutStream
  <1>3. /\ conn' \in [Runs -> {"none", "open", "ended", "cut"}]
        /\ server' \in [Runs -> {"off", "working", "over"}]
    BY DEF RecoveryInv, RecoveryTypeOK, ServerStep, StoreRun, EndRun, EndStream, CutStream
  <1>4. RecoveryTypeOK'
    BY <1>1, <1>2, <1>3 DEF RecoveryInv, RecoveryTypeOK
  <1>5. StartedInOrder' /\ AbortReachesReaders' /\ OneLiveCall' /\ StaleOnlyFromPoll'
    BY <1>1 DEF RecoveryInv, StartedInOrder, AbortReachesReaders, OneLiveCall, StaleOnlyFromPoll, Current
  <1>6. PollsCounted' /\ ShownIsReal'
    BY <1>1, <1>2 DEF RecoveryInv, PollsCounted, ShownIsReal, RecoveryTypeOK
  <1>7. QED
    BY <1>4, <1>5, <1>6 DEF RecoveryInv

(* Starting a run aborts the calls before it, and no call comes after it.   *)
LEMMA StartIInv ==
  ASSUME RecoveryInv, NEW r \in Runs, Start(r)
  PROVE  RecoveryInv'
  <1> USE DEF RecoveryInv
  <1>1. /\ call[r] = "idle" /\ \A q \in Runs : q < r => call[q] # "idle"
        /\ UNCHANGED <<knows, polls, answer, told, stored>>
        /\ view' = [run |-> r, phase |-> "running", shown |-> None]
    BY DEF Start
  <1>2. \A q \in Runs : q > r => call[q] = "idle"
    BY <1>1 DEF StartedInOrder
  <1>3. /\ call' \in [Runs -> Calls] /\ call'[r] = "reading"
        /\ \A q \in Runs \ {r} : /\ call'[q] = call[q] \/ call'[q] = "returned"
                                 /\ call'[q] = "idle" <=> call[q] = "idle"
                                 /\ call'[q] # "reading"
    BY DEF Start, AfterAbort, RecoveryTypeOK, Calls
  <1>4. /\ aborted' \in [Runs -> BOOLEAN]
        /\ \A q \in Runs : aborted'[q] <=> (aborted[q] \/ q < r)
    BY DEF Start, RecoveryTypeOK
  <1>5. /\ conn' \in [Runs -> {"none", "open", "ended", "cut"}]
        /\ server' \in [Runs -> {"off", "working", "over"}]
    BY DEF Start, RecoveryTypeOK
  <1>6. None \in Runs \cup {None} /\ view'.run = r /\ view'.shown = None
    BY <1>1
  <1>7. RecoveryTypeOK'
    BY <1>1, <1>3, <1>4, <1>5, <1>6 DEF RecoveryTypeOK, Calls
  <1>8. \A p, q \in Runs : p < q \/ q < p \/ p = q
    BY DEF Runs
  <1>9. StartedInOrder'
    BY <1>1, <1>2, <1>3, <1>8 DEF StartedInOrder, Runs
  <1>10. AbortReachesReaders'
    BY <1>1, <1>3, <1>4, <1>8 DEF AbortReachesReaders, Runs
  <1>11. Current(r)'
    BY <1>2, <1>3 DEF Current, Runs
  <1>12. OneLiveCall'
    BY <1>2, <1>3, <1>4, <1>6, <1>8, <1>11 DEF OneLiveCall
  <1>13. PollsCounted'
    BY <1>1, <1>3 DEF PollsCounted
  <1>14. ShownIsReal' /\ StaleOnlyFromPoll'
    BY <1>6 DEF ShownIsReal, StaleOnlyFromPoll
  <1>15. QED
    BY <1>7, <1>9, <1>10, <1>12, <1>13, <1>14

LEMMA ResetIInv ==
  ASSUME RecoveryInv, NEW r \in Runs, Reset(r)
  PROVE  RecoveryInv'
  <1> USE DEF RecoveryInv
  <1>1. /\ call[r] # "idle" /\ \A q \in Runs : q > r => call[q] = "idle"
        /\ UNCHANGED <<knows, polls, answer, told, stored, server>>
        /\ view' = [run |-> None, phase |-> "idle", shown |-> None]
    BY DEF Reset, Current
  <1>2. /\ call' \in [Runs -> Calls] /\ call'[r] # "idle" /\ call'[r] # "reading"
        /\ call'[r] = call[r] \/ call'[r] = "returned"
        /\ \A q \in Runs \ {r} : call'[q] = call[q]
    BY <1>1 DEF Reset, Goto, AfterAbort, RecoveryTypeOK, Calls
  <1>3. /\ aborted' \in [Runs -> BOOLEAN] /\ aborted'[r]
        /\ \A q \in Runs \ {r} : aborted'[q] = aborted[q]
    BY DEF Reset, RecoveryTypeOK
  <1>4. conn' \in [Runs -> {"none", "open", "ended", "cut"}]
    BY DEF Reset, RecoveryTypeOK
  <1>5. None \in Runs \cup {None} /\ view'.run = None /\ view'.shown = None
    BY <1>1
  <1>6. RecoveryTypeOK'
    BY <1>1, <1>2, <1>3, <1>4, <1>5 DEF RecoveryTypeOK, Calls
  <1>7. StartedInOrder'
    BY <1>1, <1>2 DEF StartedInOrder
  <1>8. AbortReachesReaders'
    BY <1>2, <1>3 DEF AbortReachesReaders
  <1>9. OneLiveCall'
    <2>1. \A q \in Runs : q < r \/ r < q \/ q = r
      BY DEF Runs
    <2>2. ASSUME NEW q \in Runs \ {r}, call[q] \in {"reading", "sleeping", "asking"}, ~aborted[q]
          PROVE  FALSE
      <3>1. Current(q)
        BY <2>2 DEF OneLiveCall
      <3>2. QED
        BY <1>1, <2>1, <2>2, <3>1 DEF Current
    <2>3. QED
      BY <1>2, <1>3, <2>2 DEF OneLiveCall
  <1>10. PollsCounted'
    BY <1>1, <1>2 DEF PollsCounted
  <1>11. ShownIsReal' /\ StaleOnlyFromPoll'
    BY <1>5 DEF ShownIsReal, StaleOnlyFromPoll
  <1>12. QED
    BY <1>6, <1>7, <1>8, <1>9, <1>10, <1>11

LEMMA StutterIInv == RecoveryInv /\ UNCHANGED recoveryVars => RecoveryInv'
  BY DEF RecoveryInv, RecoveryTypeOK, StartedInOrder, AbortReachesReaders, PollsCounted, ShownIsReal, OneLiveCall,
         StaleOnlyFromPoll, Current, recoveryVars

-----------------------------------------------------------------------------
(* IInv holds throughout.                                                  *)
THEOREM Invariance == RecoverySpec => []RecoveryInv
  <1>1. RecoveryInv /\ [RecoveryNext]_recoveryVars => RecoveryInv'
    BY ReadIInv, PollIInv, ServerIInv, StartIInv, ResetIInv, StutterIInv
       DEF RecoveryNext, CallStep, UserStep
  <1>2. QED
    BY InitRecoveryInv, <1>1, PTL DEF RecoverySpec

(* Types of the hook, its polls and the runs it follows.                   *)
THEOREM RecoveryTypeCorrect == RecoverySpec => []RecoveryTypeOK
  <1>1. RecoveryInv => RecoveryTypeOK
    BY DEF RecoveryInv
  <1>2. QED
    BY <1>1, Invariance, PTL

(* What the page shows as a result was announced by the run's stream or is  *)
(* stored as completed, for any number of runs and polls.                  *)
THEOREM ShownStaysReal == RecoverySpec => []ShownIsReal
  <1>1. RecoveryInv => ShownIsReal
    BY DEF RecoveryInv
  <1>2. QED
    BY <1>1, Invariance, PTL

(* At most one call can still be aborted, and it is that of the run on the  *)
(* screen.                                                                 *)
THEOREM OneCallIsLive == RecoverySpec => []OneLiveCall
  <1>1. RecoveryInv => OneLiveCall
    BY DEF RecoveryInv
  <1>2. QED
    BY <1>1, Invariance, PTL

(* A result on the screen that is not of the run on the screen was polled    *)
(* for by an aborted call.                                                 *)
THEOREM StaleIsFromPoll == RecoverySpec => []StaleOnlyFromPoll
  <1>1. RecoveryInv => StaleOnlyFromPoll
    BY DEF RecoveryInv
  <1>2. QED
    BY <1>1, Invariance, PTL
=============================================================================
