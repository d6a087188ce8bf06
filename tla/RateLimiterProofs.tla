------------------------- MODULE RateLimiterProofs -------------------------
(* The limiter's types, its bound on requests, its pauses and what its token *)
(* counters hold, for any number of calls, any limits and any window.      *)
EXTENDS RateLimiter, FiniteSetTheorems, TLAPS

(* A multiple of the window is compared as what it is a multiple of.       *)
LEMMA ScaledOrder ==
  ASSUME NEW a \in Int, NEW b \in Int, NEW k \in Nat \ {0}, a * k <= b * k
  PROVE  a <= b
<1>1. SUFFICES ASSUME a >= b + 1 PROVE FALSE
  OBVIOUS
<1>2. a * k >= (b + 1) * k
  BY <1>1, SMTT(30)
<1>3. (b + 1) * k = b * k + k
  BY SMTT(30)
<1> QED
  BY <1>2, <1>3, SMTT(30)

(* The window of every time the limiter can read is one it has counters for. *)
LEMMA WindowInRange ==
  ASSUME NEW t \in 0..MaxNow
  PROVE  /\ WindowOf(t) \in Windows
         /\ WindowOf(t) # 0 => WindowOf(t) - 1 \in Windows
         /\ Window - (t % Window) \in Nat
<1> USE ConstantsAssumption
<1> DEFINE q == t \div Window
           m == MaxNow \div Window
<1>1. /\ q \in Nat /\ t = q * Window + (t % Window) /\ t % Window \in 0..(Window - 1)
      /\ m \in Nat /\ MaxNow = m * Window + (MaxNow % Window) /\ MaxNow % Window \in 0..(Window - 1)
  BY SMTT(30)
<1>2. q * Window <= t /\ t <= MaxNow /\ MaxNow < m * Window + Window
  BY <1>1, SMTT(30)
<1>3. m * Window + Window = (m + 1) * Window
  BY <1>1, SMTT(30)
<1>4. q <= m
  <2>1. SUFFICES ASSUME q >= m + 1 PROVE FALSE
    BY <1>1
  <2>2. q * Window >= (m + 1) * Window
    BY <1>1, <2>1, SMTT(30)
  <2> QED
    BY <1>1, <1>2, <1>3, <2>2, SMTT(30)
<1> QED
  BY <1>1, <1>4 DEF WindowOf, Windows

LEMMA MaxOfTwo ==
  ASSUME NEW a \in Nat, NEW b \in Nat
  PROVE  Max({a, b}) \in Nat /\ Max({a, b}) >= a
<1>1. \E x \in {a, b} : \A y \in {a, b} : x >= y
  OBVIOUS
<1> QED
  BY <1>1 DEF Max

(***************************************************************************)
(* Types.                                                                  *)
(***************************************************************************)

LEMMA SetCounter ==
  ASSUME NEW counts \in [Stores -> [Windows -> Nat]], NEW s \in Stores, NEW w \in Windows,
         NEW n \in Nat
  PROVE  [counts EXCEPT ![s][w] = n] \in [Stores -> [Windows -> Nat]]
OBVIOUS

LEMMA InitTypeOK == Init => TypeOK
BY ConstantsAssumption DEF Init, TypeOK, PcValues, Windows

LEMMA ProceedTypeOK ==
  ASSUME TypeOK, NEW c \in Calls, Proceed(c)
  PROVE  TypeOK'
<1> USE ConstantsAssumption DEF TypeOK, PcValues, Goto
<1>1. CASE Look(c)
  BY <1>1 DEF Look
<1>2. ASSUME NEW s \in Stores, Granted(c, s) PROVE TypeOK'
  <2>1. WindowOf(clock[c]) \in Windows
    BY WindowInRange
  <2>2. CASE Overfull(s, WindowOf(clock[c]))
    <3>1. reqs' = [reqs EXCEPT ![s] = NoCounts] /\ toks' = [toks EXCEPT ![s] = NoCounts]
      BY <1>2, <2>2 DEF Granted
    <3>2. NoCounts \in [Windows -> Nat]
      BY DEF NoCounts
    <3>3. reqs' \in [Stores -> [Windows -> Nat]] /\ toks' \in [Stores -> [Windows -> Nat]]
      BY <3>1, <3>2
    <3> QED
      BY <1>2, <3>3 DEF Granted
  <2>3. CASE ~Overfull(s, WindowOf(clock[c]))
    <3>1. /\ reqs' = [reqs EXCEPT ![s][WindowOf(clock[c])] = reqs[s][WindowOf(clock[c])] + 1]
          /\ toks' = [toks EXCEPT ![s][WindowOf(clock[c])] = toks[s][WindowOf(clock[c])] + Estimate[c]]
      BY <1>2, <2>3 DEF Granted
    <3>2. /\ reqs[s][WindowOf(clock[c])] + 1 \in Nat
          /\ toks[s][WindowOf(clock[c])] + Estimate[c] \in Nat
      BY <2>1
    <3>3. reqs' \in [Stores -> [Windows -> Nat]] /\ toks' \in [Stores -> [Windows -> Nat]]
      BY <2>1, <3>1, <3>2, SetCounter
    <3> QED
      BY <1>2, <3>3 DEF Granted
  <2> QED
    BY <2>2, <2>3
<1>3. ASSUME NEW s \in Stores, Denied(c, s) PROVE TypeOK'
  BY <1>3 DEF Denied
<1>4. CASE Answered(c)
  BY <1>4 DEF Answered
<1>5. CASE Failed(c)
  BY <1>5 DEF Failed
<1>6. CASE Limited(c)
  BY <1>6 DEF Limited, AskForPause
<1>7. CASE Settle(c)
  <2> DEFINE w == WindowOf(clock[c])
             Left(s) == IF toks[s][w] + spent[c] < Estimate[c]
                        THEN 0
                        ELSE toks[s][w] + spent[c] - Estimate[c]
  <2>1. PICK s \in Stores : toks' = [toks EXCEPT ![s][w] = Left(s)]
    BY <1>7 DEF Settle
  <2>2. w \in Windows
    BY WindowInRange
  <2>3. Left(s) \in Nat
    <3>1. toks[s][w] \in Nat
      <4> HIDE DEF w
      <4> QED
        BY <2>2
    <3>2. spent[c] \in Nat /\ Estimate[c] \in Nat
      <4>1. spent[c] \in Spends \cup {0}
        OBVIOUS
      <4>2. Spends \subseteq Nat
        OBVIOUS
      <4>3. 0 \in Nat
        OBVIOUS
      <4>4. spent[c] \in Nat
        BY <4>1, <4>2, <4>3, Zenon
      <4> QED
        BY <4>4
    <3> HIDE DEF w
    <3> QED
      BY <3>1, <3>2
  <2>4. toks' \in [Stores -> [Windows -> Nat]]
    <3> HIDE DEF Left, w
    <3> QED
      BY <2>1, <2>2, <2>3, SetCounter
  <2> QED
    BY <1>7, <2>4 DEF Settle
<1>8. CASE Observe(c)
  BY <1>8 DEF Observe, AskForPause
<1>9. CASE ReadPause(c)
  BY <1>9 DEF ReadPause
<1>10. CASE WritePause(c)
  BY <1>10 DEF WritePause, AfterPause
<1>11. CASE PauseInMemory(c)
  BY <1>11, MaxOfTwo DEF PauseInMemory, AfterPause
<1> QED
  BY <1>1, <1>2, <1>3, <1>4, <1>5, <1>6, <1>7, <1>8, <1>9, <1>10, <1>11 DEF Proceed

LEMMA NextTypeOK == TypeOK /\ [Next]_vars => TypeOK'
<1> SUFFICES ASSUME TypeOK, [Next]_vars PROVE TypeOK'
  OBVIOUS
<1>1. CASE Tick
  BY <1>1, ConstantsAssumption DEF Tick, TypeOK
<1>2. ASSUME NEW c \in Calls, Start(c) PROVE TypeOK'
  BY <1>2, ConstantsAssumption DEF Start, TypeOK, Goto, PcValues
<1>3. ASSUME NEW c \in Calls, Proceed(c) PROVE TypeOK'
  BY <1>3, ProceedTypeOK
<1>4. CASE UNCHANGED vars
  BY <1>4 DEF vars, TypeOK
<1> QED
  BY <1>1, <1>2, <1>3, <1>4 DEF Next, AllOver

(* Type correctness of the limiter: counters stay natural numbers, also     *)
(* when a settled call gives back more than the counter holds.             *)
THEOREM TypeCorrect == Spec => []TypeOK
<1>1. Init => TypeOK
  BY InitTypeOK
<1>2. TypeOK /\ [Next]_vars => TypeOK'
  BY NextTypeOK
<1> QED
  BY <1>1, <1>2, PTL DEF Spec

(***************************************************************************)
(* The bound on requests.                                                  *)
(***************************************************************************)

(* A request that fits leaves its window within the limit.                 *)
LEMMA OneMoreFits ==
  ASSUME TypeOK, NEW s \in Stores, NEW t \in 0..MaxNow, Rpm > 0, Fits(reqs[s], Rpm, 1, t)
  PROVE  reqs[s][WindowOf(t)] + 1 <= Rpm
<1> DEFINE w == WindowOf(t)
           cur == reqs[s][w]
           prev == IF w = 0 THEN 0 ELSE reqs[s][w - 1]
           rest == Window - (t % Window)
<1>1. /\ w \in Windows
      /\ w # 0 => w - 1 \in Windows
      /\ rest \in Nat
  BY WindowInRange
<1>2. cur \in Nat /\ prev \in Nat
  BY <1>1 DEF TypeOK
<1>3. Window \in Nat \ {0} /\ Rpm \in Nat
  BY ConstantsAssumption
<1>4. cur * Window + prev * rest = 0 \/ cur * Window + prev * rest + 1 * Window <= Rpm * Window
  BY <1>3 DEF Fits, Used
<1> HIDE DEF cur, prev, rest, w
<1>5. prev * rest \in Nat /\ cur * Window \in Nat
  BY <1>1, <1>2, <1>3, SMTT(30)
<1>6. CASE cur * Window + prev * rest = 0
  <2>1. cur * Window <= 0 * Window
    BY <1>5, <1>6, <1>3
  <2>2. cur <= 0
    BY <2>1, <1>2, <1>3, ScaledOrder
  <2> QED
    BY <2>2, <1>2, <1>3 DEF cur, w
<1>7. CASE cur * Window + prev * rest + 1 * Window <= Rpm * Window
  <2>1. (cur + 1) * Window = cur * Window + Window
    BY <1>2, <1>3, SMTT(30)
  <2>2. (cur + 1) * Window <= Rpm * Window
    BY <2>1, <1>5, <1>7, <1>3
  <2>3. cur + 1 <= Rpm
    BY <2>2, <1>2, <1>3, ScaledOrder
  <2> QED
    BY <2>3 DEF cur, w
<1> QED
  BY <1>4, <1>6, <1>7

(* The memory store forgets nothing while it may hold all counters.        *)
LEMMA NothingForgotten ==
  ASSUME EnoughKeys, NEW s \in Stores, NEW w \in Windows
  PROVE  ~Overfull(s, w)
<1> DEFINE counted == {v \in Windows : reqs[s][v] > 0 \/ v = w}
<1>1. WindowOf(MaxNow) \in Windows
  BY ConstantsAssumption, WindowInRange
<1>2. IsFiniteSet(Windows)
  BY <1>1, FS_Interval DEF Windows
<1>3. /\ Cardinality(Windows) \in Nat
      /\ Cardinality(counted) \in Nat
      /\ Cardinality(counted) <= Cardinality(Windows)
  BY <1>2, FS_Subset, FS_CardinalityType
<1> QED
  BY <1>3, ConstantsAssumption DEF Overfull, EnoughKeys

LEMMA AdmittedFinite ==
  ASSUME NEW s, NEW w
  PROVE  IsFiniteSet(Admitted(s, w)) /\ Cardinality(Admitted(s, w)) \in Nat
BY ConstantsAssumption, FS_Subset, FS_CardinalityType DEF Admitted

(* The invariant depends on the counters, the reservations and who may      *)
(* already hold one.                                                       *)
LEMMA CountsKept ==
  ASSUME RequestsCounted, WindowBound, reqs' = reqs,
         \A s \in Stores, w \in Windows : Admitted(s, w)' = Admitted(s, w)
  PROVE  RequestsCounted' /\ WindowBound'
BY DEF RequestsCounted, WindowBound

LEMMA NoReservationMoves ==
  ASSUME reqs' = reqs, holder' = holder, clock' = clock, RequestsCounted, WindowBound
  PROVE  RequestsCounted' /\ WindowBound'
<1>1. \A s \in Stores, w \in Windows : Admitted(s, w)' = Admitted(s, w)
  BY DEF Admitted
<1> QED
  BY <1>1, CountsKept

LEMMA LookIInv ==
  ASSUME IInv, NEW c \in Calls, Look(c)
  PROVE  IInv'
<1>1. TypeOK'
  BY ProceedTypeOK DEF IInv, Proceed
<1>2. holder[c] = "none" /\ \A d \in Calls : d # c => clock'[d] = clock[d]
  BY DEF IInv, Unreserved, Look, TypeOK
<1>3. \A s \in Stores : s # "none"
  BY ConstantsAssumption DEF Stores
<1>4. \A s \in Stores, w \in Windows : Admitted(s, w)' = Admitted(s, w)
  BY <1>2, <1>3 DEF Look, Admitted
<1>5. RequestsCounted' /\ WindowBound'
  BY <1>4, CountsKept DEF IInv, Look
<1>6. Unreserved'
  BY DEF IInv, Unreserved, Look, Goto, TypeOK
<1> QED
  BY <1>1, <1>5, <1>6 DEF IInv

(* A granted call joins those admitted into its window.                     *)
LEMMA GrantedAdmits ==
  ASSUME TypeOK, Unreserved, EnoughKeys, NEW c \in Calls, NEW s \in Stores, Granted(c, s),
         NEW w \in Windows, w = WindowOf(clock[c])
  PROVE  /\ reqs' = [reqs EXCEPT ![s][w] = reqs[s][w] + 1]
         /\ toks' = [toks EXCEPT ![s][w] = toks[s][w] + Estimate[c]]
         /\ Admitted(s, w)' = Admitted(s, w) \cup {c} /\ c \notin Admitted(s, w)
         /\ \A z \in Stores, v \in Windows :
              z # s \/ v # w => /\ Admitted(z, v)' = Admitted(z, v)
                                /\ reqs'[z][v] = reqs[z][v]
                                /\ toks'[z][v] = toks[z][v]
<1>1. s # "none" /\ holder[c] = "none"
  BY ConstantsAssumption DEF Stores, Unreserved, Granted
<1>2. /\ reqs' = [reqs EXCEPT ![s][w] = reqs[s][w] + 1]
      /\ toks' = [toks EXCEPT ![s][w] = toks[s][w] + Estimate[c]]
  BY NothingForgotten DEF Granted
<1>3. Admitted(s, w)' = Admitted(s, w) \cup {c} /\ c \notin Admitted(s, w)
  BY <1>1 DEF Granted, Admitted, TypeOK
<1>4. ASSUME NEW z \in Stores, NEW v \in Windows, z # s \/ v # w
      PROVE  Admitted(z, v)' = Admitted(z, v) /\ reqs'[z][v] = reqs[z][v] /\ toks'[z][v] = toks[z][v]
  <2>1. Admitted(z, v)' = Admitted(z, v)
    <3>1. z # "none"
      BY ConstantsAssumption DEF Stores
    <3> QED
      BY <1>1, <1>4, <3>1 DEF Granted, Admitted, TypeOK
  <2>2. reqs'[z][v] = reqs[z][v] /\ toks'[z][v] = toks[z][v]
    BY <1>2, <1>4 DEF TypeOK
  <2> QED
    BY <2>1, <2>2
<1> QED
  BY <1>2, <1>3, <1>4

LEMMA GrantedIInv ==
  ASSUME IInv, EnoughKeys, NEW c \in Calls, NEW s \in Stores, Granted(c, s)
  PROVE  IInv'
<1>1. clock[c] \in 0..MaxNow
  BY DEF IInv, TypeOK
<1>2. PICK w \in Windows : w = WindowOf(clock[c])
  BY <1>1, WindowInRange
<1>3. TypeOK'
  BY ProceedTypeOK DEF IInv, Proceed
<1>4. /\ reqs' = [reqs EXCEPT ![s][w] = reqs[s][w] + 1]
      /\ Admitted(s, w)' = Admitted(s, w) \cup {c} /\ c \notin Admitted(s, w)
      /\ \A z \in Stores, v \in Windows :
           z # s \/ v # w => Admitted(z, v)' = Admitted(z, v) /\ reqs'[z][v] = reqs[z][v]
  BY <1>2, GrantedAdmits DEF IInv
<1>5. Cardinality(Admitted(s, w)') = Cardinality(Admitted(s, w)) + 1
  BY <1>4, AdmittedFinite, FS_AddElement
<1>6. reqs'[s][w] = reqs[s][w] + 1
  BY <1>4 DEF IInv, TypeOK
<1>7. reqs[s][w] = Cardinality(Admitted(s, w))
  BY DEF IInv, RequestsCounted
<1>8. RequestsCounted'
  <2> SUFFICES ASSUME NEW z \in Stores, NEW v \in Windows
               PROVE  reqs'[z][v] = Cardinality(Admitted(z, v)')
    BY DEF RequestsCounted, Stores, Windows, WindowOf
  <2>1. CASE z = s /\ v = w
    BY <1>5, <1>6, <1>7, <2>1
  <2>2. CASE z # s \/ v # w
    BY <1>4, <2>2 DEF IInv, RequestsCounted
  <2> QED
    BY <2>1, <2>2
<1>9. Rpm > 0 => reqs[s][w] + 1 <= Rpm
  BY <1>1, <1>2, OneMoreFits DEF IInv, Granted
<1>10. WindowBound'
  <2> SUFFICES ASSUME Rpm > 0, NEW z \in Stores, NEW v \in Windows
               PROVE  Cardinality(Admitted(z, v)') <= Rpm
    BY DEF WindowBound, Stores, Windows, WindowOf
  <2>1. CASE z = s /\ v = w
    BY <1>5, <1>7, <1>9, <2>1
  <2>2. CASE z # s \/ v # w
    BY <1>4, <2>2 DEF IInv, WindowBound
  <2> QED
    BY <2>1, <2>2
<1>11. Unreserved'
  BY DEF IInv, Unreserved, Granted, Goto, TypeOK
<1> QED
  BY <1>3, <1>8, <1>10, <1>11 DEF IInv

LEMMA ProceedIInv ==
  ASSUME IInv, EnoughKeys, NEW c \in Calls, Proceed(c)
  PROVE  IInv'
<1>1. TypeOK'
  BY ProceedTypeOK DEF IInv
<1>2. CASE Look(c)
  BY <1>2, LookIInv
<1>3. ASSUME NEW s \in Stores, Granted(c, s) PROVE IInv'
  BY <1>3, GrantedIInv
<1>4. ASSUME \/ \E s \in Stores : Denied(c, s)
             \/ Answered(c) \/ Failed(c) \/ Limited(c) \/ Settle(c) \/ Observe(c)
             \/ ReadPause(c) \/ WritePause(c) \/ PauseInMemory(c)
      PROVE  IInv'
  <2>1. reqs' = reqs /\ holder' = holder /\ clock' = clock
    BY <1>4 DEF Denied, Answered, Failed, Limited, Settle, Observe, ReadPause, WritePause,
                PauseInMemory
  <2>2. RequestsCounted' /\ WindowBound'
    BY <2>1, NoReservationMoves DEF IInv
  <2>3. \/ pc[c] = "acquire" /\ \A d \in Calls : d # c => pc'[d] = pc[d]
        \/ /\ pc'[c] \notin {"idle", "look", "acquire", "refused"}
           /\ \A d \in Calls : d # c => pc'[d] = pc[d]
    BY <1>4 DEF Denied, Answered, Failed, Limited, Settle, Observe, ReadPause, WritePause,
                PauseInMemory, AskForPause, AfterPause, Goto, IInv, TypeOK
  <2>4. Unreserved'
    BY <2>1, <2>3 DEF IInv, Unreserved
  <2> QED
    BY <1>1, <2>2, <2>4 DEF IInv
<1> QED
  BY <1>2, <1>3, <1>4 DEF Proceed

LEMMA NextIInv == IInv /\ EnoughKeys /\ [Next]_vars => IInv'
<1> SUFFICES ASSUME IInv, EnoughKeys, [Next]_vars PROVE IInv'
  OBVIOUS
<1>1. TypeOK'
  BY NextTypeOK DEF IInv
<1>2. ASSUME NEW c \in Calls, Proceed(c) PROVE IInv'
  BY <1>2, ProceedIInv
<1>3. ASSUME Tick \/ UNCHANGED vars PROVE IInv'
  <2>1. RequestsCounted' /\ WindowBound'
    BY <1>3, NoReservationMoves DEF IInv, Tick, vars
  <2>2. Unreserved'
    BY <1>3 DEF IInv, Unreserved, Tick, vars
  <2> QED
    BY <1>1, <2>1, <2>2 DEF IInv
<1>4. ASSUME NEW c \in Calls, Start(c) PROVE IInv'
  <2>1. RequestsCounted' /\ WindowBound'
    BY <1>4, NoReservationMoves DEF IInv, Start
  <2>2. Unreserved'
    BY <1>4 DEF IInv, Unreserved, Start, Goto, TypeOK
  <2> QED
    BY <1>1, <2>1, <2>2 DEF IInv
<1> QED
  BY <1>2, <1>3, <1>4 DEF Next, AllOver

LEMMA InitIInv == Init => IInv
<1> SUFFICES ASSUME Init PROVE IInv
  OBVIOUS
<1>1. TypeOK
  BY InitTypeOK
<1>2. \A s \in Stores, w \in Windows : Admitted(s, w) = {}
  BY ConstantsAssumption DEF Init, Admitted, Stores
<1>3. \A s \in Stores, w \in Windows : Cardinality(Admitted(s, w)) = 0
  BY <1>2, FS_EmptySet
<1>4. RequestsCounted /\ WindowBound
  BY <1>3, ConstantsAssumption DEF Init, RequestsCounted, WindowBound
<1> QED
  BY <1>1, <1>4 DEF Init, IInv, Unreserved

(* Whatever the number of calls, their delays and the answers they get, no  *)
(* window of a store admits more requests than the limit, as long as the   *)
(* memory store does not drop its counters.                                *)
THEOREM RequestsWithinLimit == ASSUME EnoughKeys PROVE Spec => []WindowBound
<1>1. Init => IInv
  BY InitIInv
<1>2. IInv /\ [Next]_vars => IInv'
  BY NextIInv
<1>3. IInv => WindowBound
  BY DEF IInv
<1> QED
  BY <1>1, <1>2, <1>3, PTL DEF Spec

(* What a call read of the pause in Redis stays true until it writes, if no *)
(* other call is between its read and its write.                            *)
LEMMA ReadStaysCurrent ==
  ASSUME TypeOK, ReadIsCurrent, ~SetsOverlap, [Next]_vars, ~SetsOverlap'
  PROVE  ReadIsCurrent'
<1>1. ASSUME NEW c \in Calls, ReadPause(c) PROVE ReadIsCurrent'
  <2>1. /\ pc' = [pc EXCEPT ![c] = "write_pause"] /\ seen' = [seen EXCEPT ![c] = pause["redis"]]
        /\ pause' = pause /\ "redis" \in Stores
    BY <1>1 DEF ReadPause, Goto
  <2>2. pc'[c] = "write_pause" /\ seen'[c] = pause["redis"]
    BY <2>1 DEF TypeOK
  <2>3. \A d \in Calls \ {c} : pc'[d] # "write_pause"
    BY <2>2 DEF SetsOverlap
  <2> QED
    BY <2>1, <2>2, <2>3 DEF ReadIsCurrent
<1>2. ASSUME NEW c \in Calls, WritePause(c) \/ PauseInMemory(c) PROVE ReadIsCurrent'
  <2>1. AfterPause(c) /\ (pc[c] = "write_pause" \/ pause'["redis"] = pause["redis"] \/ "redis" \notin Stores)
    BY <1>2 DEF WritePause, PauseInMemory, TypeOK
  <2>2. /\ pc'[c] # "write_pause"
        /\ \A d \in Calls \ {c} : pc'[d] = pc[d] /\ seen'[d] = seen[d]
    BY <2>1 DEF AfterPause, Goto, TypeOK
  <2>3. CASE pc[c] = "write_pause"
    <3>1. \A d \in Calls \ {c} : pc[d] # "write_pause"
      BY <2>3 DEF SetsOverlap
    <3> QED
      BY <2>2, <3>1 DEF ReadIsCurrent
  <2>4. CASE pc[c] # "write_pause"
    BY <2>1, <2>2, <2>4 DEF ReadIsCurrent
  <2> QED
    BY <2>3, <2>4
<1>3. ASSUME pause' = pause, seen' = seen, \A c \in Calls : pc'[c] = "write_pause" => pc[c] = "write_pause"
      PROVE  ReadIsCurrent'
  BY <1>3 DEF ReadIsCurrent
<1>4. ASSUME NEW c \in Calls, NEW s \in Stores,
             \/ Start(c) \/ Look(c) \/ Granted(c, s) \/ Denied(c, s) \/ Answered(c)
             \/ Failed(c) \/ Limited(c) \/ Settle(c) \/ Observe(c)
      PROVE  ReadIsCurrent'
  <2>1. /\ pause' = pause /\ seen' = seen
        /\ \E to \in PcValues \ {"write_pause"} : pc' = [pc EXCEPT ![c] = to]
    BY <1>4 DEF Start, Look, Granted, Denied, Answered, Failed, Limited, Settle, Observe, AskForPause,
                Goto, PcValues
  <2>2. \A d \in Calls : pc'[d] = "write_pause" => pc[d] = "write_pause"
    BY <2>1 DEF TypeOK
  <2> QED
    BY <1>3, <2>1, <2>2
<1>5. ASSUME Tick \/ UNCHANGED vars PROVE ReadIsCurrent'
  BY <1>3, <1>5 DEF Tick, vars
<1>6. Stores # {}
  BY ConstantsAssumption DEF Stores
<1> QED
  BY <1>1, <1>2, <1>4, <1>5, <1>6 DEF Next, Proceed, AllOver

(* In every store, Redis too and whichever operations fail, a pause is never *)
(* cut short as long as no two calls write one to Redis from readings that  *)
(* overlap: that race is the only way a pause can be lost.                  *)
THEOREM PausesAreKept == Spec /\ []~SetsOverlap => PauseNeverShrinks
<1>1. Init => ReadIsCurrent
  BY DEF Init, ReadIsCurrent
<1>2. TypeOK /\ ReadIsCurrent /\ ~SetsOverlap /\ [Next]_vars /\ ~SetsOverlap' => ReadIsCurrent'
  BY ReadStaysCurrent
<1>3. TypeOK /\ ReadIsCurrent /\ [Next]_vars => [\A s \in Stores : pause'[s] >= pause[s]]_vars
  <2> SUFFICES ASSUME TypeOK, ReadIsCurrent, Next PROVE \A s \in Stores : pause'[s] >= pause[s]
    OBVIOUS
  <2>1. CASE pause' = pause
    BY <2>1 DEF TypeOK
  <2>2. ASSUME NEW c \in Calls, PauseInMemory(c) PROVE \A s \in Stores : pause'[s] >= pause[s]
    <3>1. "memory" \in Stores /\ pause["memory"] \in Nat /\ until[c] \in Nat
      BY <2>2 DEF PauseInMemory, TypeOK
    <3>2. PICK m \in Nat : m = Max({pause["memory"], until[c]}) /\ m >= pause["memory"]
      BY <3>1, MaxOfTwo
    <3>3. pause' = [pause EXCEPT !["memory"] = m]
      BY <2>2, <3>2 DEF PauseInMemory
    <3> QED
      BY <3>1, <3>2, <3>3 DEF TypeOK
  <2>3. ASSUME NEW c \in Calls, WritePause(c) PROVE \A s \in Stores : pause'[s] >= pause[s]
    <3>1. "redis" \in Stores /\ seen[c] = pause["redis"]
      BY <2>3 DEF WritePause, ReadIsCurrent
    <3> QED
      BY <2>3, <3>1 DEF WritePause, TypeOK
  <2> QED
    BY <2>1, <2>2, <2>3 DEF Next, Tick, AllOver, vars, Start, Proceed, Look, Granted, Denied,
                            Answered, Failed, Limited, Settle, Observe, ReadPause
<1>4. Spec => []TypeOK
  BY TypeCorrect
<1> QED
  BY <1>1, <1>2, <1>3, <1>4, PTL DEF Spec, PauseNeverShrinks

(***************************************************************************)
(* The tokens of a window.                                                 *)
(***************************************************************************)

(* What calls have taken, each n[c] tokens.                                *)
Taken(n, A) == UNION {{c} \X (1..n[c]) : c \in A}

CountOf == [c \in Calls |-> Counts(c)]

LEMMA TakenIn ==
  ASSUME NEW n, NEW A, NEW x
  PROVE  x \in Taken(n, A) <=> \E c \in A : \E k \in 1..n[c] : x = <<c, k>>
BY DEF Taken

LEMMA TakenByOne ==
  ASSUME NEW c, NEW m \in Nat
  PROVE  IsFiniteSet({c} \X (1..m)) /\ Cardinality({c} \X (1..m)) = m
<1>1. IsFiniteSet({c}) /\ Cardinality({c}) = 1
  BY FS_Singleton
<1>2. IsFiniteSet(1..m) /\ Cardinality(1..m) = m
  <2>1. IsFiniteSet(1..m) /\ Cardinality(1..m) = IF 1 > m THEN 0 ELSE m - 1 + 1
    BY FS_Interval
  <2> QED
    BY <2>1
<1>3. IsFiniteSet({c} \X (1..m)) /\ Cardinality({c} \X (1..m)) = Cardinality({c}) * Cardinality(1..m)
  BY <1>1, <1>2, FS_Product
<1> QED
  BY <1>1, <1>2, <1>3

LEMMA TakenFinite ==
  ASSUME NEW A, IsFiniteSet(A), NEW n \in [A -> Nat]
  PROVE  IsFiniteSet(Taken(n, A)) /\ Cardinality(Taken(n, A)) \in Nat
<1> DEFINE each == {{c} \X (1..n[c]) : c \in A}
           f == [c \in A |-> {c} \X (1..n[c])]
<1>1. f \in Surjection(A, each)
  BY DEF Surjection
<1>2. ASSUME NEW T \in each PROVE IsFiniteSet(T)
  <2>1. PICK c \in A : T = {c} \X (1..n[c])
    OBVIOUS
  <2>2. PICK m \in Nat : m = n[c]
    OBVIOUS
  <2> QED
    BY <2>1, <2>2, TakenByOne
<1>3. Taken(n, A) = UNION each
  BY DEF Taken
<1> HIDE DEF each, f
<1>4. IsFiniteSet(each)
  BY <1>1, FS_Surjection
<1>5. IsFiniteSet(UNION each)
  BY <1>2, <1>4, FS_UNION
<1> QED
  BY <1>3, <1>5, FS_CardinalityType

(* A call adds its own tokens to those the others have taken.               *)
LEMMA OneMoreTakes ==
  ASSUME NEW A, IsFiniteSet(A), NEW n, NEW c \in A, \A d \in A : n[d] \in Nat
  PROVE  Cardinality(Taken(n, A)) = Cardinality(Taken(n, A \ {c})) + n[c]
<1> DEFINE rest == Taken(n, A \ {c})
           own  == {c} \X (1..n[c])
<1>1. Taken(n, A) = rest \cup own
  BY DEF Taken
<1>2. rest \cap own = {}
  BY TakenIn
<1>3. IsFiniteSet(rest) /\ Cardinality(rest) \in Nat
  <2> DEFINE B == A \ {c}
             m == [d \in B |-> n[d]]
  <2>1. IsFiniteSet(B)
    BY FS_Subset
  <2>2. m \in [B -> Nat]
    OBVIOUS
  <2>3. Taken(m, B) = rest
    BY DEF Taken
  <2> HIDE DEF B, m
  <2>4. IsFiniteSet(Taken(m, B)) /\ Cardinality(Taken(m, B)) \in Nat
    BY <2>1, <2>2, TakenFinite
  <2> QED
    BY <2>3, <2>4
<1>4. IsFiniteSet(own) /\ Cardinality(own) = n[c]
  BY TakenByOne
<1> HIDE DEF rest, own
<1>5. Cardinality(rest \cup own) = Cardinality(rest) + Cardinality(own) - Cardinality(rest \cap own)
  BY <1>3, <1>4, FS_Union
<1> QED
  BY <1>1, <1>2, <1>3, <1>4, <1>5, FS_EmptySet DEF rest

LEMMA SameTakes ==
  ASSUME NEW A, NEW n, NEW m, \A c \in A : n[c] = m[c]
  PROVE  Taken(n, A) = Taken(m, A)
BY DEF Taken

(* No tokens are taken just when nobody takes any.                          *)
LEMMA NoneTaken ==
  ASSUME NEW A, IsFiniteSet(A), NEW n, \A c \in A : n[c] \in Nat
  PROVE  Cardinality(Taken(n, A)) = 0 <=> \A c \in A : n[c] = 0
<1>1. ASSUME \A c \in A : n[c] = 0 PROVE Cardinality(Taken(n, A)) = 0
  <2>1. Taken(n, A) = {}
    BY <1>1, TakenIn
  <2> QED
    BY <2>1, FS_EmptySet
<1>2. ASSUME Cardinality(Taken(n, A)) = 0, NEW c \in A PROVE n[c] = 0
  <2> DEFINE m == [d \in A \ {c} |-> n[d]]
  <2>1. IsFiniteSet(A \ {c}) /\ m \in [A \ {c} -> Nat]
    BY FS_Subset
  <2>2. Taken(m, A \ {c}) = Taken(n, A \ {c})
    BY DEF Taken
  <2> HIDE DEF m
  <2>3. Cardinality(Taken(n, A \ {c})) \in Nat
    BY <2>1, <2>2, TakenFinite
  <2>4. Cardinality(Taken(n, A)) = Cardinality(Taken(n, A \ {c})) + n[c]
    BY OneMoreTakes
  <2> QED
    BY <1>2, <2>3, <2>4
<1> QED
  BY <1>1, <1>2

-----------------------------------------------------------------------------
LEMMA CountsAreNat ==
  ASSUME TypeOK, NEW c \in Calls
  PROVE  Counts(c) \in Nat /\ spent[c] \in Nat /\ Estimate[c] \in Nat \ {0}
<1>1. Estimate[c] \in Nat \ {0}
  BY ConstantsAssumption
<1>2. spent[c] \in Nat
  <2>1. spent[c] \in Spends \cup {0}
    BY DEF TypeOK
  <2>2. Spends \subseteq Nat /\ 0 \in Nat
    BY ConstantsAssumption
  <2> QED
    BY <2>1, <2>2, Zenon
<1> QED
  BY <1>1, <1>2 DEF Counts

LEMMA TokensTaken ==
  ASSUME NEW s, NEW w
  PROVE  Tokens(s, w) = Taken(CountOf, Admitted(s, w))
BY DEF Tokens, Taken, CountOf, Admitted

(* Why a window is over its limit, for the calls A and their counts n.      *)
Explains(n, A, total) ==
  Tpm > 0 /\ total > Tpm => \/ \E c \in A : n[c] > Estimate[c]
                            \/ Cardinality({c \in A : n[c] > 0}) = 1

TokensOf(s, w) ==
  /\ toks[s][w] = Cardinality(Taken(CountOf, Admitted(s, w)))
  /\ Explains(CountOf, Admitted(s, w), toks[s][w])

LEMMA TokensByWindow == TokensExplained <=> \A s \in Stores, w \in Windows : TokensOf(s, w)
<1>1. \A s, w : \A c \in Admitted(s, w) : CountOf[c] = Counts(c)
  BY DEF CountOf, Admitted
<1>2. \A s, w : {c \in Admitted(s, w) : CountOf[c] > 0} = {c \in Admitted(s, w) : Counts(c) > 0}
  BY <1>1
<1>3. \A s, w : Explains(CountOf, Admitted(s, w), toks[s][w]) <=>
        (Tpm > 0 /\ toks[s][w] > Tpm =>
           \/ \E c \in Admitted(s, w) : Counts(c) > Estimate[c]
           \/ Cardinality({c \in Admitted(s, w) : Counts(c) > 0}) = 1)
  BY <1>1, <1>2 DEF Explains
<1> QED
  BY <1>3, TokensTaken DEF TokensExplained, TokensAccounted, OverLimitExplained, TokensOf

LEMMA TokensExplainedPrimed ==
  (\A s \in Stores, w \in Windows : TokensOf(s, w)') => TokensExplained'
<1>1. (\A s \in Stores, w \in Windows : TokensOf(s, w)) => TokensExplained
  BY TokensByWindow
<1>2. ((\A s \in Stores, w \in Windows : TokensOf(s, w)) => TokensExplained)'
  BY <1>1, PTL
<1> QED
  BY <1>2

LEMMA ExplainsSame ==
  ASSUME NEW A, NEW n, NEW m, NEW total, \A c \in A : n[c] = m[c], Explains(n, A, total)
  PROVE  Explains(m, A, total)
<1>1. {c \in A : n[c] > 0} = {c \in A : m[c] > 0}
  OBVIOUS
<1> QED
  BY <1>1 DEF Explains

(* What leaves a window's calls, their counts and its counter alone.        *)
LEMMA WindowKept ==
  ASSUME NEW s, NEW w, TokensOf(s, w), toks'[s][w] = toks[s][w],
         Admitted(s, w)' = Admitted(s, w), \A c \in Admitted(s, w) : CountOf'[c] = CountOf[c]
  PROVE  TokensOf(s, w)'
<1>1. Taken(CountOf', Admitted(s, w)) = Taken(CountOf, Admitted(s, w))
  BY SameTakes
<1>2. Explains(CountOf', Admitted(s, w), toks[s][w])
  BY ExplainsSame DEF TokensOf
<1> QED
  BY <1>1, <1>2 DEF TokensOf, Taken, Explains

(* Which steps change what a call counts for.                               *)
LEMMA CountsKeptBy ==
  ASSUME TypeOK, OutcomesKnown, NEW c \in Calls, Start(c) \/ Proceed(c), ~Settle(c)
  PROVE  \A d \in Calls : CountOf'[d] = CountOf[d]
<1> SUFFICES ASSUME NEW d \in Calls PROVE Counts(d)' = Counts(d)
  BY DEF CountOf
<1> USE DEF TypeOK, Counts, Settled, Goto
<1>1. CASE d # c
  <2>1. pc'[d] = pc[d] /\ outcome'[d] = outcome[d] /\ spent'[d] = spent[d]
    BY <1>1 DEF Start, Proceed, Look, Granted, Denied, Answered, Failed, Limited, Observe, ReadPause,
                WritePause, PauseInMemory, AskForPause, AfterPause
  <2> QED
    BY <2>1
<1>2. CASE d = c
  <2>1. CASE Start(c) \/ Look(c) \/ \E s \in Stores : Denied(c, s)
    BY <1>2, <2>1 DEF Start, Look, Denied
  <2>2. CASE \E s \in Stores : Granted(c, s)
    BY <1>2, <2>2 DEF Granted
  <2>3. CASE Answered(c) \/ Failed(c) \/ Limited(c)
    BY <1>2, <2>3 DEF Answered, Failed, Limited, AskForPause
  <2>4. CASE Observe(c)
    BY <1>2, <2>4 DEF Observe, AskForPause, OutcomesKnown
  <2>5. CASE ReadPause(c)
    BY <1>2, <2>5 DEF ReadPause
  <2>6. CASE WritePause(c)
    BY <1>2, <2>6 DEF WritePause, AfterPause, OutcomesKnown
  <2>7. CASE PauseInMemory(c)
    BY <1>2, <2>7 DEF PauseInMemory, AfterPause, OutcomesKnown
  <2> QED
    BY <2>1, <2>2, <2>3, <2>4, <2>5, <2>6, <2>7 DEF Proceed
<1> QED
  BY <1>1, <1>2

LEMMA SettleCounts ==
  ASSUME TypeOK, NEW c \in Calls, Settle(c)
  PROVE  /\ CountOf[c] = Estimate[c] /\ CountOf'[c] = spent[c]
         /\ \A d \in Calls \ {c} : CountOf'[d] = CountOf[d]
<1>1. Counts(c) = Estimate[c] /\ Counts(c)' = spent[c]
  BY DEF Settle, Counts, Settled, Goto, TypeOK
<1>2. \A d \in Calls \ {c} : Counts(d)' = Counts(d)
  BY DEF Settle, Counts, Settled, Goto, TypeOK
<1> QED
  BY <1>1, <1>2 DEF CountOf

(* A reservation that fits leaves its window within the limit, or is the    *)
(* first to count.                                                         *)
LEMMA MoreTokensFit ==
  ASSUME TypeOK, NEW s \in Stores, NEW t \in 0..MaxNow, NEW cost \in Nat,
         Tpm > 0, Fits(toks[s], Tpm, cost, t)
  PROVE  toks[s][WindowOf(t)] + cost <= Tpm \/ toks[s][WindowOf(t)] = 0
<1> DEFINE w == WindowOf(t)
           cur == toks[s][w]
           prev == IF w = 0 THEN 0 ELSE toks[s][w - 1]
           rest == Window - (t % Window)
<1>1. /\ w \in Windows
      /\ w # 0 => w - 1 \in Windows
      /\ rest \in Nat
  BY WindowInRange
<1>2. cur \in Nat /\ prev \in Nat
  BY <1>1 DEF TypeOK
<1>3. Window \in Nat \ {0} /\ Tpm \in Nat
  BY ConstantsAssumption
<1>4. cur * Window + prev * rest = 0 \/ cur * Window + prev * rest + cost * Window <= Tpm * Window
  BY <1>3 DEF Fits, Used
<1> HIDE DEF cur, prev, rest, w
<1>5. prev * rest \in Nat /\ cur * Window \in Nat /\ cost * Window \in Nat
  BY <1>1, <1>2, <1>3, SMTT(30)
<1>6. CASE cur * Window + prev * rest = 0
  <2>1. cur * Window <= 0 * Window
    BY <1>5, <1>6, <1>3
  <2>2. cur <= 0
    BY <2>1, <1>2, <1>3, ScaledOrder
  <2> QED
    BY <2>2, <1>2 DEF cur, w
<1>7. CASE cur * Window + prev * rest + cost * Window <= Tpm * Window
  <2>1. (cur + cost) * Window = cur * Window + cost * Window
    BY <1>2, <1>3, SMTT(30)
  <2>2. (cur + cost) * Window <= Tpm * Window
    BY <2>1, <1>5, <1>7, <1>3
  <2>3. cur + cost <= Tpm
    BY <2>2, <1>2, <1>3, ScaledOrder
  <2> QED
    BY <2>3 DEF cur, w
<1> QED
  BY <1>4, <1>6, <1>7

LEMMA GrantedTokens ==
  ASSUME IInv, TInv, EnoughKeys, NEW c \in Calls, NEW s \in Stores, Granted(c, s)
  PROVE  \A z \in Stores, v \in Windows : TokensOf(z, v)'
<1>1. TypeOK /\ clock[c] \in 0..MaxNow /\ \A z \in Stores, v \in Windows : TokensOf(z, v)
  BY TokensByWindow DEF IInv, TypeOK, TInv
<1>2. PICK w \in Windows : w = WindowOf(clock[c])
  BY <1>1, WindowInRange
<1>3. /\ toks' = [toks EXCEPT ![s][w] = toks[s][w] + Estimate[c]]
      /\ Admitted(s, w)' = Admitted(s, w) \cup {c} /\ c \notin Admitted(s, w)
      /\ \A z \in Stores, v \in Windows :
           z # s \/ v # w => Admitted(z, v)' = Admitted(z, v) /\ toks'[z][v] = toks[z][v]
  BY <1>2, GrantedAdmits DEF IInv
<1>4. \A d \in Calls : CountOf'[d] = CountOf[d]
  <2>1. ~Settle(c)
    BY DEF Granted, Settle
  <2> QED
    BY <1>1, <2>1, CountsKeptBy DEF Proceed, TInv
<1>5. ASSUME NEW z \in Stores, NEW v \in Windows, z # s \/ v # w
      PROVE  TokensOf(z, v)'
  BY <1>1, <1>3, <1>4, <1>5, WindowKept DEF Admitted
<1> DEFINE A == Admitted(s, w)
           B == A \cup {c}
           n == CountOf
           m == CountOf'
           total == toks[s][w]
<1>6. /\ IsFiniteSet(A) /\ IsFiniteSet(B) /\ B \ {c} = A
      /\ A \subseteq Calls /\ B \subseteq Calls
  <2>1. IsFiniteSet(A) /\ A \subseteq Calls /\ c \notin A
    <3>1. IsFiniteSet(A)
      BY AdmittedFinite
    <3>2. A \subseteq Calls
      BY DEF Admitted
    <3> QED
      BY <1>3, <3>1, <3>2
  <2> HIDE DEF A
  <2>2. IsFiniteSet(A \cup {c})
    BY <2>1, FS_AddElement
  <2> QED
    BY <2>1, <2>2
<1>7. /\ \A d \in B : n[d] \in Nat /\ m[d] = n[d]
      /\ m[c] = Estimate[c] /\ Estimate[c] \in Nat \ {0}
  <2>1. n[c] = Estimate[c]
    BY DEF CountOf, Counts, Settled, Granted
  <2>2. \A d \in Calls : n[d] \in Nat
    BY <1>1, CountsAreNat DEF CountOf
  <2> QED
    BY <1>1, <1>4, <1>6, <2>1, <2>2, CountsAreNat
<1>8. total = Cardinality(Taken(n, A)) /\ total \in Nat
  BY <1>1 DEF TokensOf, TypeOK
<1>9. toks'[s][w] = total + Estimate[c]
  BY <1>1, <1>3 DEF TypeOK
<1>10. Fits(toks[s], Tpm, Estimate[c], clock[c])
  BY DEF Granted
<1> HIDE DEF A, n, m, total
<1>11. Cardinality(Taken(m, B)) = total + Estimate[c]
  <2>1. Cardinality(Taken(m, B)) = Cardinality(Taken(m, B \ {c})) + m[c]
    BY <1>6, <1>7, OneMoreTakes
  <2>2. Taken(m, A) = Taken(n, A)
    BY <1>7, SameTakes
  <2> QED
    BY <1>6, <1>7, <1>8, <2>1, <2>2
<1>12. Explains(m, B, total + Estimate[c])
  <2> SUFFICES ASSUME Tpm > 0, total + Estimate[c] > Tpm
               PROVE  Cardinality({d \in B : m[d] > 0}) = 1
    BY DEF Explains
  <2>1. Tpm \in Nat
    BY ConstantsAssumption
  <2>2. total = 0
    BY <1>1, <1>2, <1>7, <1>8, <1>10, <2>1, MoreTokensFit DEF total
  <2>3. \A d \in A : n[d] = 0
    <3>1. \A d \in A : n[d] \in Nat
      BY <1>7
    <3>2. Cardinality(Taken(n, A)) = 0
      BY <1>8, <2>2
    <3> QED
      BY <1>6, <3>1, <3>2, NoneTaken
  <2>4. {d \in B : m[d] > 0} = {c}
    BY <1>7, <2>3
  <2> QED
    BY <2>4, FS_Singleton
<1>13. TokensOf(s, w)'
  BY <1>3, <1>9, <1>11, <1>12 DEF TokensOf, A, m, Taken, Explains
<1> QED
  BY <1>5, <1>13

LEMMA SettledTokens ==
  ASSUME IInv, TInv, Redis # "flaky", NEW c \in Calls, Settle(c)
  PROVE  \A z \in Stores, v \in Windows : TokensOf(z, v)'
<1>1. TypeOK /\ clock[c] \in 0..MaxNow /\ \A z \in Stores, v \in Windows : TokensOf(z, v)
  BY TokensByWindow DEF IInv, TypeOK, TInv
<1>2. PICK w \in Windows : w = WindowOf(clock[c])
  BY <1>1, WindowInRange
<1>3. PICK s \in Stores :
        toks' = [toks EXCEPT ![s][w] = IF toks[s][w] + spent[c] < Estimate[c] THEN 0
                                       ELSE toks[s][w] + spent[c] - Estimate[c]]
  BY <1>2 DEF Settle
<1>4. \A z, v : Admitted(z, v)' = Admitted(z, v)
  BY DEF Settle, Admitted
<1>5. c \in Admitted(s, w)
  <2>1. \A z \in Stores : z = s
    BY ConstantsAssumption DEF Stores
  <2>2. holder[c] \in Stores
    BY DEF TInv, ReservationHeld, Settle
  <2> QED
    BY <1>2, <2>1, <2>2 DEF Admitted
<1>6. /\ CountOf[c] = Estimate[c] /\ CountOf'[c] = spent[c]
      /\ \A d \in Calls \ {c} : CountOf'[d] = CountOf[d]
  BY <1>1, SettleCounts
<1>7. ASSUME NEW z \in Stores, NEW v \in Windows, z # s \/ v # w
      PROVE  TokensOf(z, v)'
  <2>1. toks'[z][v] = toks[z][v]
    BY <1>1, <1>3, <1>7 DEF TypeOK
  <2>2. \A d \in Admitted(z, v) : d \in Calls \ {c}
    <3>1. z = s
      BY ConstantsAssumption DEF Stores
    <3> QED
      BY <1>2, <1>7, <3>1 DEF Admitted
  <2> QED
    BY <1>1, <1>4, <1>6, <2>1, <2>2, WindowKept
<1> DEFINE A == Admitted(s, w)
           n == CountOf
           m == CountOf'
           total == toks[s][w]
           others == Cardinality(Taken(n, A \ {c}))
<1>8. IsFiniteSet(A) /\ c \in A /\ A \subseteq Calls
  BY <1>5, AdmittedFinite DEF Admitted
<1>9. /\ \A d \in A : n[d] \in Nat /\ m[d] \in Nat
      /\ n[c] = Estimate[c] /\ m[c] = spent[c] /\ \A d \in A \ {c} : m[d] = n[d]
      /\ Estimate[c] \in Nat \ {0} /\ spent[c] \in Nat
  <2>1. \A d \in Calls : n[d] \in Nat
    BY <1>1, CountsAreNat DEF CountOf
  <2>2. spent[c] \in Nat /\ Estimate[c] \in Nat \ {0}
    BY <1>1, CountsAreNat
  <2> QED
    BY <1>6, <1>8, <2>1, <2>2
<1>10. total = Cardinality(Taken(n, A)) /\ Explains(n, A, total)
  BY <1>1 DEF TokensOf
<1>11. toks'[s][w] = IF total + spent[c] < Estimate[c] THEN 0 ELSE total + spent[c] - Estimate[c]
  BY <1>1, <1>3 DEF TypeOK
<1> HIDE DEF A, n, m, total
<1>12. total = others + Estimate[c]
  BY <1>8, <1>9, <1>10, OneMoreTakes
<1>13. others \in Nat
  <2> DEFINE B == A \ {c}
             k == [d \in B |-> n[d]]
  <2>1. IsFiniteSet(B) /\ k \in [B -> Nat]
    BY <1>8, <1>9, FS_Subset
  <2>2. Taken(k, B) = Taken(n, B)
    BY DEF Taken
  <2> HIDE DEF k
  <2> QED
    BY <2>1, <2>2, TakenFinite
<1>14. Cardinality(Taken(m, A)) = others + spent[c]
  <2>1. Taken(m, A \ {c}) = Taken(n, A \ {c})
    BY <1>9, SameTakes
  <2> QED
    BY <1>8, <1>9, <2>1, OneMoreTakes
<1> HIDE DEF others
<1>15. toks'[s][w] = others + spent[c]
  BY <1>9, <1>11, <1>12, <1>13
<1>16. Explains(m, A, others + spent[c])
  <2> SUFFICES ASSUME Tpm > 0, others + spent[c] > Tpm, \A d \in A : ~(m[d] > Estimate[d])
               PROVE  Cardinality({d \in A : m[d] > 0}) = 1
    BY DEF Explains
  <2>1. Tpm \in Nat
    BY ConstantsAssumption
  <2>2. total > Tpm
    BY <1>8, <1>9, <1>12, <1>13, <2>1
  <2>3. \A d \in A : ~(n[d] > Estimate[d])
    BY <1>9
  <2>4. Cardinality({d \in A : n[d] > 0}) = 1
    BY <1>10, <2>2, <2>3 DEF Explains
  <2>5. PICK x : {d \in A : n[d] > 0} = {x}
    <3>1. IsFiniteSet({d \in A : n[d] > 0})
      BY <1>8, FS_Subset
    <3> QED
      BY <2>4, <3>1, FS_Singleton
  <2>6. x = c
    BY <1>8, <1>9, <2>5
  <2>7. \A d \in A \ {c} : n[d] = 0 /\ m[d] = 0
    BY <1>9, <2>5, <2>6
  <2>8. others = 0
    <3>1. IsFiniteSet(A \ {c})
      BY <1>8, FS_Subset
    <3> QED
      BY <1>9, <2>7, <3>1, NoneTaken DEF others
  <2>9. m[c] > 0
    BY <1>9, <2>1, <2>8
  <2>10. {d \in A : m[d] > 0} = {c}
    BY <1>8, <2>7, <2>9
  <2> QED
    BY <2>10, FS_Singleton
<1>17. TokensOf(s, w)'
  BY <1>4, <1>14, <1>15, <1>16 DEF TokensOf, A, m, Taken, Explains
<1> QED
  BY <1>7, <1>17

LEMMA NextTInv == IInv /\ TInv /\ EnoughKeys /\ Redis # "flaky" /\ [Next]_vars => TInv'
<1> SUFFICES ASSUME IInv, TInv, EnoughKeys, Redis # "flaky", [Next]_vars PROVE TInv'
  OBVIOUS
<1>1. TypeOK /\ \A s \in Stores, w \in Windows : TokensOf(s, w)
  BY TokensByWindow DEF IInv, TInv
<1>2. ASSUME Tick \/ UNCHANGED vars PROVE TInv'
  <2>1. UNCHANGED <<toks, pc, clock, holder, outcome, spent>>
    BY <1>2 DEF Tick, vars
  <2>2. \A s \in Stores, w \in Windows : TokensOf(s, w)'
    <3>1. \A s, w : Admitted(s, w)' = Admitted(s, w)
      BY <2>1 DEF Admitted
    <3>2. \A d \in Calls : CountOf'[d] = CountOf[d]
      BY <2>1 DEF CountOf, Counts, Settled
    <3> QED
      BY <1>1, <2>1, <3>1, <3>2, WindowKept DEF Admitted
  <2>3. TokensExplained'
    BY <2>2, TokensExplainedPrimed
  <2> QED
    BY <2>1, <2>3 DEF TInv, ReservationHeld, OutcomesKnown
<1>3. ASSUME NEW c \in Calls, Start(c) \/ Proceed(c) PROVE TInv'
  <2>1. TokensExplained'
    <3>1. CASE Settle(c)
      BY <3>1, SettledTokens, TokensExplainedPrimed
    <3>2. CASE \E s \in Stores : Granted(c, s)
      BY <3>2, GrantedTokens, TokensExplainedPrimed
    <3>3. CASE ~Settle(c) /\ ~\E s \in Stores : Granted(c, s)
      <4>1. toks' = toks
        BY <1>3, <3>3 DEF Start, Proceed, Look, Denied, Answered, Failed, Limited, Observe, ReadPause,
                          WritePause, PauseInMemory
      <4>2. \A s \in Stores : \A w : Admitted(s, w)' = Admitted(s, w)
        <5>1. CASE UNCHANGED <<holder, clock>>
          BY <5>1 DEF Admitted
        <5>2. CASE Look(c)
          <6>1. holder' = holder /\ holder[c] = "none" /\ \A d \in Calls : d # c => clock'[d] = clock[d]
            BY <1>1, <5>2 DEF IInv, Unreserved, Look, TypeOK
          <6>2. \A s \in Stores : s # "none"
            BY ConstantsAssumption DEF Stores
          <6> QED
            BY <6>1, <6>2 DEF Admitted
        <5> QED
          BY <1>3, <3>3, <5>1, <5>2
             DEF Start, Proceed, Denied, Answered, Failed, Limited, Observe, ReadPause,
                 WritePause, PauseInMemory
      <4>3. \A d \in Calls : CountOf'[d] = CountOf[d]
        BY <1>1, <1>3, <3>3, CountsKeptBy DEF TInv
      <4>4. \A s \in Stores, w \in Windows : TokensOf(s, w)'
        BY <1>1, <4>1, <4>2, <4>3, WindowKept DEF Admitted
      <4> QED
        BY <4>4, TokensExplainedPrimed
    <3> QED
      BY <3>1, <3>2, <3>3
  <2>2. ReservationHeld'
    <3>1. ASSUME NEW d \in Calls, d # c PROVE pc'[d] = pc[d] /\ holder'[d] = holder[d]
      BY <1>1, <1>3, <3>1 DEF Start, Proceed, Look, Granted, Denied, Answered, Failed, Limited, Settle,
           Observe, ReadPause, WritePause, PauseInMemory, AskForPause, AfterPause, Goto, TypeOK
    <3>2. pc'[c] \in {"idle", "look", "acquire", "refused"} \/ holder'[c] \in Stores
      <4>1. CASE Start(c) \/ Look(c) \/ \E s \in Stores : Denied(c, s)
        BY <1>1, <4>1 DEF Start, Look, Denied, Goto, TypeOK
      <4>2. CASE \E s \in Stores : Granted(c, s)
        BY <1>1, <4>2 DEF Granted, TypeOK
      <4>3. CASE /\ pc[c] \notin {"idle", "look", "acquire", "refused"}
                 /\ holder' = holder
        BY <4>3 DEF TInv, ReservationHeld
      <4> QED
        BY <1>3, <4>1, <4>2, <4>3 DEF Proceed, Answered, Failed, Limited, Settle, Observe, ReadPause,
             WritePause, PauseInMemory
    <3>3. Stores' = Stores
      BY DEF Stores
    <3> QED
      BY <3>1, <3>2, <3>3 DEF TInv, ReservationHeld
  <2>3. OutcomesKnown'
    <3> SUFFICES ASSUME NEW d \in Calls
                 PROVE  /\ pc'[d] = "observe" => outcome'[d] = "ok"
                        /\ pc'[d] \in {"pause", "write_pause"} => outcome'[d] \in {"ok", "limited"}
      BY DEF OutcomesKnown
    <3>1. CASE d # c
      <4>1. pc'[d] = pc[d] /\ outcome'[d] = outcome[d]
        BY <1>1, <1>3, <3>1 DEF Start, Proceed, Look, Granted, Denied, Answered, Failed, Limited, Settle,
             Observe, ReadPause, WritePause, PauseInMemory, AskForPause, AfterPause, Goto, TypeOK
      <4> QED
        BY <4>1 DEF TInv, OutcomesKnown
    <3>2. CASE d = c
      BY <1>1, <1>3, <3>2 DEF Start, Proceed, Look, Granted, Denied, Answered, Failed, Limited, Settle,
           Observe, ReadPause, WritePause, PauseInMemory, AskForPause, AfterPause, Goto, TypeOK, TInv,
           OutcomesKnown
    <3> QED
      BY <3>1, <3>2
  <2> QED
    BY <2>1, <2>2, <2>3 DEF TInv
<1> QED
  BY <1>2, <1>3 DEF Next, AllOver

LEMMA InitTInv == Init => TInv
<1> SUFFICES ASSUME Init PROVE TInv
  OBVIOUS
<1>1. ReservationHeld /\ OutcomesKnown
  BY DEF Init, ReservationHeld, OutcomesKnown
<1>2. ASSUME NEW s \in Stores, NEW w \in Windows PROVE TokensOf(s, w)
  <2>1. Admitted(s, w) = {}
    BY ConstantsAssumption DEF Init, Admitted, Stores
  <2>2. Taken(CountOf, Admitted(s, w)) = {} /\ toks[s][w] = 0
    BY <2>1 DEF Taken, Init
  <2>3. ~(Tpm > 0 /\ 0 > Tpm)
    BY ConstantsAssumption
  <2> QED
    BY <2>2, <2>3, FS_EmptySet DEF TokensOf, Explains
<1> QED
  BY <1>1, <1>2, TokensByWindow DEF TInv

(* As long as the memory store drops no counter and every call settles in   *)
(* the store it reserved in, the token counter of a window is what its      *)
(* calls spent or still reserve, and over the limit only by a lone call or  *)
(* by calls that spent more than they had estimated.                       *)
THEOREM TokensAreExplained ==
  ASSUME EnoughKeys, Redis # "flaky" PROVE Spec => []TokensExplained
<1>1. Init => IInv /\ TInv
  BY InitIInv, InitTInv
<1>2. IInv /\ TInv /\ [Next]_vars => IInv' /\ TInv'
  BY NextIInv, NextTInv
<1>3. TInv => TokensExplained
  BY DEF TInv
<1> QED
  BY <1>1, <1>2, <1>3, PTL DEF Spec
=============================================================================
