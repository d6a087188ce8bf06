--------------------------- MODULE LlmCallProofs ---------------------------
(* Theorems about LlmCall, for any calls and processes, and whatever the    *)
(* provider and Redis do.                                                  *)
EXTENDS LlmCall, TLAPS

Steps == {"idle", "looking", "asking", "storing", "answered", "failed"}

RequestType == [repair : BOOLEAN, format : {"schema", "object", "plain"},
                longer : BOOLEAN, sent : 0..MostSent]

Shaped(r) ==
  /\ r \in RequestType
  /\ r.format = FirstFormat \/ (FirstFormat = "schema" /\ r.format = "object")
  /\ r.sent <= (IF r.format = FirstFormat THEN 0 ELSE MaxRetries + 1)
               + (IF r.longer THEN MaxRetries + 1 ELSE 0)

(* What every step of a call does with the variables of the calls.         *)
OnlyOf(c) ==
  /\ policy' = policy
  /\ step' \in [Calls -> Steps] /\ answer' \in [Calls -> Entries]
  /\ hit' \in [Calls -> BOOLEAN] /\ request' \in [Calls -> RequestType]
  /\ \A d \in Calls \ {c} : /\ step'[d] = step[d] /\ answer'[d] = answer[d]
                            /\ hit'[d] = hit[d] /\ request'[d] = request[d]

LEMMA FormatsKnown == FirstFormat \in {"schema", "object", "plain"}
  BY DEF FirstFormat

LEMMA RequestsFit == Shaped(FirstRequest) /\ Shaped([FirstRequest EXCEPT !.repair = TRUE])
  <1> DEFINE repair == [FirstRequest EXCEPT !.repair = TRUE]
  <1>1. 0 \in 0..MostSent
    BY ConstantsAssumption DEF MostSent
  <1>2. FirstRequest \in RequestType
    BY <1>1, FormatsKnown DEF FirstRequest, RequestType
  <1>3. repair \in RequestType
    BY <1>2 DEF RequestType
  <1>4. /\ repair.format = FirstRequest.format
        /\ repair.longer = FirstRequest.longer /\ repair.sent = FirstRequest.sent
    BY <1>2 DEF RequestType
  <1>5. FirstRequest.format = FirstFormat /\ ~FirstRequest.longer /\ FirstRequest.sent = 0
    BY DEF FirstRequest
  <1>6. QED
    BY <1>2, <1>3, <1>4, <1>5, ConstantsAssumption DEF Shaped

LEMMA NobodyAnswers == NoAnswer \notin Answers
  BY DEF NoAnswer, Answers, Shapes

LEMMA EndIsLocal ==
  ASSUME TypeOK, NEW c \in Calls, NEW a \in Entries, NEW outcome \in Steps, NEW b \in BOOLEAN,
         End(c, outcome, a), policy' = policy, hit' = [hit EXCEPT ![c] = b]
  PROVE  /\ OnlyOf(c) /\ step'[c] = outcome /\ answer'[c] = a /\ hit'[c] = b
         /\ request'[c] = FirstRequest
  BY RequestsFit DEF TypeOK, End, OnlyOf, Shaped, RequestType, Steps

LEMMA AskIsLocal ==
  ASSUME TypeOK, NEW c \in Calls, NEW r, Shaped(r), AskWith(c, r), policy' = policy, hit' = hit
  PROVE  OnlyOf(c) /\ step'[c] = "asking" /\ request'[c] = r
  BY DEF TypeOK, AskWith, OnlyOf, Shaped, RequestType, Steps, Entries

(* The end of a request answers the call, asks again, or fails.            *)
LEMMA ConcludeIsLocal ==
  ASSUME TypeOK, NEW c \in Calls, NEW a \in Answers, NEW b \in BOOLEAN,
         Conclude(c, a, b), policy' = policy
  PROVE  /\ OnlyOf(c) /\ Shaped(request'[c])
         /\ \/ step'[c] = "answered" /\ answer'[c] = a /\ hit'[c] = b
            \/ step'[c] \in {"asking", "failed"} /\ hit'[c] = hit[c]
  <1>0. a \in Entries /\ NoAnswer \in Entries /\ hit = [hit EXCEPT ![c] = hit[c]] /\ hit[c] \in BOOLEAN
    BY DEF Entries, TypeOK
  <1>1. CASE End(c, "answered", a) /\ hit' = [hit EXCEPT ![c] = b]
    BY <1>0, <1>1, EndIsLocal, RequestsFit DEF Steps
  <1>2. CASE AskWith(c, [FirstRequest EXCEPT !.repair = TRUE]) /\ hit' = hit
    BY <1>2, AskIsLocal, RequestsFit
  <1>3. CASE End(c, "failed", NoAnswer) /\ hit' = hit
    BY <1>0, <1>3, EndIsLocal, RequestsFit DEF Steps
  <1>4. QED
    BY <1>1, <1>2, <1>3 DEF Conclude

LEMMA ReachesIsTyped ==
  ASSUME TypeOK, NEW p \in Processes, NEW store \in {"redis", "memory"}, Reaches(p, store)
  PROVE  /\ link' \in [Processes -> {"untried", "connected", "waiting"}]
         /\ degraded' \in BOOLEAN /\ (degraded => degraded')
         /\ ~degraded' /\ (\A q \in Processes : link[q] # "waiting") =>
              store = "redis" /\ \A q \in Processes : link'[q] # "waiting"
  BY DEF TypeOK, Reaches

-----------------------------------------------------------------------------
LEMMA InitIInv == Init => IInv
  <1> SUFFICES ASSUME Init
               PROVE  IInv
    OBVIOUS
  <1>1. TypeOK
    BY RequestsFit DEF Init, TypeOK, Entries, Shaped, RequestType
  <1>2. RequestsShaped
    BY RequestsFit DEF Init, RequestsShaped, Shaped
  <1>3. CallsOrdered /\ RedisFresh /\ RefreshWins
    BY DEF Init, CallsOrdered, RedisFresh, RefreshWins
  <1>4. QED
    BY <1>1, <1>2, <1>3 DEF IInv

(* A call that is over stays as it is, so that what came before it does.   *)
LEMMA OverStays ==
  ASSUME NEW c \in Calls, ~Over(c), OnlyOf(c)
  PROVE  \A d \in Calls : Over(d) => /\ Over(d)' /\ d # c /\ hit'[d] = hit[d] /\ answer'[d] = answer[d]
  BY DEF OnlyOf, Over

LEMMA BeginIInv ==
  ASSUME IInv, NEW c \in Calls, Begin(c)
  PROVE  IInv'
  <1> USE DEF IInv
  <1>1. /\ step[c] = "idle" /\ ~Over(c) /\ caches' = caches /\ stored' = stored /\ c \notin stored
        /\ hit' = hit /\ answer' = answer /\ request' = request /\ policy' = policy
    BY DEF Begin, Over, CallsOrdered
  <1>2. OnlyOf(c) /\ step'[c] \in {"looking", "asking"}
    BY DEF Begin, OnlyOf, TypeOK, Steps, RequestType
  <1>3. /\ before' \in [Calls -> SUBSET Calls]
        /\ before'[c] = {d \in Calls : Over(d)} /\ \A d \in Calls \ {c} : before'[d] = before[d]
    BY DEF Begin, TypeOK
  <1>4. TypeOK'
    BY <1>1, <1>2, <1>3 DEF TypeOK, OnlyOf, Steps, RequestType, caches, Entries
  <1>5. RequestsShaped'
    BY <1>1 DEF RequestsShaped
  <1>6. CallsOrdered'
    <2>1. ASSUME NEW d \in Calls, NEW e \in before'[d]
          PROVE  Over(e)'
      <3>1. e \in Calls /\ Over(e)
        BY <1>3, <2>1 DEF CallsOrdered, TypeOK
      <3>2. QED
        BY <1>1, <1>2, <3>1, OverStays
    <2>2. ASSUME NEW d \in Calls
          PROVE  /\ step'[d] = "idle" => d \notin stored'
                 /\ step'[d] = "storing" => answer'[d] \in Answers /\ answer'[d].by = d
                 /\ hit'[d] => step'[d] = "answered"
      BY <1>1, <1>2 DEF CallsOrdered, OnlyOf
    <2>3. QED
      BY <2>1, <2>2 DEF CallsOrdered
  <1>7. RedisFresh'
    BY <1>1, <1>3 DEF RedisFresh, caches, TypeOK
  <1>8. RefreshWins'
    <2> SUFFICES ASSUME ~degraded, NEW d \in Calls, hit[d], NEW r \in before'[d],
                        policy[r] = "refresh", r \in stored
                 PROVE  answer[d].by \notin before'[r]
      BY <1>1 DEF RefreshWins, Replaced, caches
    <2>1. d # c /\ r # c
      BY <1>1 DEF CallsOrdered
    <2>2. before'[d] = before[d] /\ r \in Calls /\ before'[r] = before[r]
      BY <1>3, <2>1 DEF TypeOK
    <2>3. QED
      BY <2>2 DEF RefreshWins, Replaced, TypeOK
  <1>9. QED
    BY <1>4, <1>5, <1>6, <1>7, <1>8

(* A step of a call that has begun.                                        *)
LEMMA BegunStep ==
  ASSUME IInv, NEW c \in Calls, ~Over(c), step[c] # "idle", OnlyOf(c), Shaped(request'[c]),
         before' = before, stored' \subseteq stored \cup {c},
         step'[c] # "idle", step'[c] = "storing" => answer'[c] \in Answers /\ answer'[c].by = c,
         hit'[c] => step'[c] = "answered"
  PROVE  RequestsShaped' /\ CallsOrdered'
  <1>1. RequestsShaped'
    BY DEF IInv, RequestsShaped, OnlyOf, Shaped
  <1>2. ASSUME NEW d \in Calls, NEW e \in before'[d]
        PROVE  Over(e)'
    <2>1. e \in Calls /\ Over(e)
      BY <1>2 DEF IInv, CallsOrdered, TypeOK
    <2>2. QED
      BY <2>1, OverStays
  <1>3. ASSUME NEW d \in Calls
        PROVE  /\ step'[d] = "idle" => d \notin stored'
               /\ step'[d] = "storing" => answer'[d] \in Answers /\ answer'[d].by = d
               /\ hit'[d] => step'[d] = "answered"
    BY DEF IInv, CallsOrdered, OnlyOf
  <1>4. QED
    BY <1>1, <1>2, <1>3 DEF CallsOrdered

LEMMA AnswersStayFresh ==
  ASSUME IInv, NEW c \in Calls, ~Over(c), OnlyOf(c),
         before' = before, stored' \subseteq stored \cup {c}, degraded => degraded',
         ~degraded' /\ hit'[c] => answer'[c].by \notin Replaced(c)'
  PROVE  RefreshWins'
  <1> SUFFICES ASSUME ~degraded', NEW d \in Calls, hit'[d]
               PROVE  answer'[d].by \notin Replaced(d)'
    BY DEF RefreshWins
  <1>1. CASE d = c
    BY <1>1
  <1>2. CASE d # c
    <2>1. hit[d] /\ ~degraded /\ answer'[d] = answer[d] /\ policy' = policy
      BY <1>2 DEF OnlyOf
    <2>2. \A r \in before[d] : r # c
      BY DEF IInv, CallsOrdered
    <2>3. Replaced(d)' \subseteq Replaced(d)
      BY <2>1, <2>2 DEF Replaced
    <2>4. QED
      BY <2>1, <2>3 DEF IInv, RefreshWins
  <1>3. QED
    BY <1>1, <1>2

LEMMA TypesOfCalls ==
  ASSUME IInv, NEW c \in Calls, OnlyOf(c), before' = before, stored' \subseteq stored \cup {c},
         redis' \in Entries, memory' \in [Processes -> Entries],
         link' \in [Processes -> {"untried", "connected", "waiting"}], degraded' \in BOOLEAN
  PROVE  TypeOK'
  BY DEF IInv, TypeOK, OnlyOf, Steps, RequestType

LEMMA EntriesTyped ==
  ASSUME TypeOK, NEW p \in Processes, NEW store
  PROVE  Entry(p, store) \in Entries
  BY DEF TypeOK, Entry

LEMMA LookIInv ==
  ASSUME IInv, NEW c \in Calls, Look(c)
  PROVE  IInv'
  <1>1. /\ TypeOK /\ ProcessOf[c] \in Processes /\ step[c] = "looking" /\ ~Over(c) /\ ~hit[c]
        /\ policy' = policy /\ redis' = redis /\ memory' = memory
        /\ stored' = stored /\ before' = before
    BY ConstantsAssumption DEF IInv, CallsOrdered, Look, Over, history
  <1>2. PICK store \in {"redis", "memory"} :
          LET found == Entry(ProcessOf[c], store)
          IN /\ Reaches(ProcessOf[c], store)
             /\ IF found # NoAnswer /\ Parses(found.shape)
                THEN Conclude(c, found, TRUE)
                ELSE AskWith(c, request[c]) /\ UNCHANGED hit
    BY DEF Look
  <1> DEFINE found == Entry(ProcessOf[c], store)
  <1>3. found \in Entries
    BY <1>1, EntriesTyped
  <1>4. /\ link' \in [Processes -> {"untried", "connected", "waiting"}]
        /\ degraded' \in BOOLEAN /\ (degraded => degraded')
        /\ ~degraded' => store = "redis" /\ \A q \in Processes : link'[q] # "waiting"
    BY <1>1, <1>2, ReachesIsTyped DEF IInv, RedisFresh
  <1>5. /\ OnlyOf(c) /\ Shaped(request'[c])
        /\ \/ step'[c] = "answered" /\ answer'[c] = found /\ found # NoAnswer
           \/ step'[c] \in {"asking", "failed"} /\ ~hit'[c]
    <2>1. CASE found # NoAnswer /\ Conclude(c, found, TRUE)
      <3>1. found \in Answers
        BY <1>3, <2>1 DEF Entries
      <3>2. QED
        BY <1>1, <2>1, <3>1, ConcludeIsLocal
    <2>2. CASE AskWith(c, request[c]) /\ hit' = hit
      <3>1. Shaped(request[c])
        BY <1>1 DEF IInv, TypeOK, RequestsShaped, Shaped, RequestType
      <3>2. QED
        BY <1>1, <2>2, <3>1, AskIsLocal
    <2>3. QED
      BY <1>2, <2>1, <2>2
  <1>6. TypeOK'
    BY <1>1, <1>4, <1>5, TypesOfCalls DEF TypeOK
  <1>7. RequestsShaped' /\ CallsOrdered'
    BY <1>1, <1>5, BegunStep
  <1>8. RedisFresh'
    BY <1>1, <1>4 DEF IInv, RedisFresh
  <1>9. ASSUME ~degraded', hit'[c]
        PROVE  answer'[c].by \notin Replaced(c)'
    <2>1. found = redis /\ redis # NoAnswer /\ answer'[c] = redis /\ ~degraded
      BY <1>4, <1>5, <1>9 DEF Entry
    <2>2. QED
      BY <1>1, <2>1 DEF IInv, RedisFresh, Replaced
  <1>10. RefreshWins'
    BY <1>1, <1>4, <1>5, <1>9, AnswersStayFresh
  <1>11. QED
    BY <1>6, <1>7, <1>8, <1>10 DEF IInv

LEMMA AskIInv ==
  ASSUME IInv, NEW c \in Calls, Ask(c)
  PROVE  IInv'
  <1>0. PICK again \in 0..MaxRetries :
          LET r == [request[c] EXCEPT !.sent = @ + 1 + again]
          IN \/ \E shape \in Shapes : Text(c, [by |-> c, shape |-> shape])
             \/ CutOff(c, r)
             \/ SchemaRefused(c, r)
             \/ End(c, "failed", NoAnswer) /\ UNCHANGED hit
    BY DEF Ask
  <1> DEFINE r == [request[c] EXCEPT !.sent = @ + 1 + again]
  <1>1. /\ TypeOK /\ step[c] = "asking" /\ ~Over(c) /\ ~hit[c]
        /\ policy' = policy /\ caches' = caches /\ stored' = stored /\ before' = before
    BY DEF IInv, CallsOrdered, Ask, Over, history
  <1>2. /\ Shaped(request[c]) /\ request[c].sent \in Nat
        /\ r.format = request[c].format /\ r.longer = request[c].longer
        /\ r.sent = request[c].sent + 1 + again /\ r.repair = request[c].repair
    BY <1>0, <1>1 DEF IInv, TypeOK, RequestsShaped, Shaped, RequestType
  <1> DEFINE longer == [r EXCEPT !.longer = TRUE]
             words  == [r EXCEPT !.format = "object"]
             Local  == /\ OnlyOf(c) /\ Shaped(request'[c]) /\ ~hit'[c]
                       /\ \/ step'[c] = "storing" /\ answer'[c] \in Answers /\ answer'[c].by = c
                          \/ step'[c] \in {"answered", "asking", "failed"}
  <1>3. hit = [hit EXCEPT ![c] = hit[c]] /\ hit[c] \in BOOLEAN /\ NoAnswer \in Entries
    BY <1>1 DEF TypeOK, Entries
  <1>4. ASSUME NEW shape \in Shapes, Text(c, [by |-> c, shape |-> shape])
        PROVE  Local
    <2> DEFINE a == [by |-> c, shape |-> shape]
    <2>1. a \in Answers /\ a \in Entries /\ a.by = c
      BY DEF Answers, Entries
    <2>2. CASE End(c, "storing", a) /\ hit' = hit
      BY <1>1, <1>3, <2>1, <2>2, EndIsLocal, RequestsFit DEF Steps
    <2>3. CASE Conclude(c, a, FALSE)
      BY <1>1, <2>1, <2>3, ConcludeIsLocal
    <2>4. QED
      BY <1>4, <2>2, <2>3 DEF Text, End
  <1>5. ASSUME CutOff(c, r)
        PROVE  Local
    <2>1. /\ request[c].longer = FALSE
          /\ longer.format = request[c].format /\ longer.longer
          /\ longer.sent = request[c].sent + 1 + again /\ longer.repair = request[c].repair
      BY <1>1, <1>2, <1>5 DEF CutOff, Shaped, RequestType
    <2>2. longer.sent \in 0..MostSent
      BY <1>0, <1>2, <2>1, ConstantsAssumption DEF Shaped, MostSent
    <2>3. longer \in RequestType
      BY <1>2, <2>2 DEF Shaped, RequestType
    <2>4. Shaped(longer)
      BY <1>0, <1>2, <2>1, <2>3, ConstantsAssumption DEF Shaped
    <2>5. QED
      BY <1>1, <1>5, <2>4, AskIsLocal DEF CutOff
  <1>6. ASSUME SchemaRefused(c, r)
        PROVE  Local
    <2>1. /\ FirstFormat = "schema" /\ request[c].format = "schema" /\ request[c].longer = FALSE
          /\ words.format = "object" /\ words.longer = request[c].longer
          /\ words.sent = request[c].sent + 1 + again /\ words.repair = request[c].repair
      BY <1>1, <1>2, <1>6 DEF SchemaRefused, Shaped, RequestType
    <2>2. words.sent \in 0..MostSent
      BY <1>0, <1>2, <2>1, ConstantsAssumption DEF Shaped, MostSent
    <2>3. words \in RequestType
      BY <1>2, <2>2 DEF Shaped, RequestType
    <2>4. Shaped(words)
      BY <1>0, <1>2, <2>1, <2>3, ConstantsAssumption DEF Shaped
    <2>5. QED
      BY <1>1, <1>6, <2>4, AskIsLocal DEF SchemaRefused
  <1>7. ASSUME End(c, "failed", NoAnswer), hit' = hit
        PROVE  Local
    BY <1>1, <1>3, <1>7, EndIsLocal, RequestsFit DEF Steps
  <1>8. Local
    BY <1>0, <1>4, <1>5, <1>6, <1>7
  <1>9. TypeOK'
    BY <1>1, <1>8, TypesOfCalls DEF TypeOK, caches
  <1>10. RequestsShaped' /\ CallsOrdered'
    BY <1>1, <1>8, BegunStep
  <1>11. RedisFresh'
    BY <1>1 DEF IInv, RedisFresh, caches
  <1>12. RefreshWins'
    BY <1>1, <1>8, AnswersStayFresh DEF caches
  <1>13. QED
    BY <1>9, <1>10, <1>11, <1>12 DEF IInv

(* What a call stores in Redis is its own, and so newer than what was over  *)
(* when any refresh began.                                                 *)
LEMMA StoreIInv ==
  ASSUME IInv, NEW c \in Calls, Store(c)
  PROVE  IInv'
  <1>1. /\ TypeOK /\ ProcessOf[c] \in Processes /\ step[c] = "storing" /\ ~Over(c) /\ ~hit[c]
        /\ answer[c] \in Answers /\ answer[c].by = c /\ policy' = policy
        /\ stored' = stored \cup {c} /\ before' = before
        /\ Conclude(c, answer[c], FALSE)
    BY ConstantsAssumption DEF IInv, CallsOrdered, Store, Over
  <1>2. PICK store \in {"redis", "memory"} :
          /\ Reaches(ProcessOf[c], store)
          /\ IF store = "redis"
             THEN redis' = answer[c] /\ UNCHANGED memory
             ELSE memory' = [memory EXCEPT ![ProcessOf[c]] = answer[c]] /\ UNCHANGED redis
    BY DEF Store
  <1>3. answer[c] \in Answers /\ answer[c] \in Entries
    BY <1>1 DEF Entries
  <1>4. /\ link' \in [Processes -> {"untried", "connected", "waiting"}]
        /\ degraded' \in BOOLEAN /\ (degraded => degraded')
        /\ ~degraded' => store = "redis" /\ \A q \in Processes : link'[q] # "waiting"
    BY <1>1, <1>2, ReachesIsTyped DEF IInv, RedisFresh
  <1>5. OnlyOf(c) /\ Shaped(request'[c]) /\ ~hit'[c] /\ step'[c] \in {"answered", "asking", "failed"}
    BY <1>1, <1>3, ConcludeIsLocal
  <1>6. redis' \in Entries /\ memory' \in [Processes -> Entries]
    BY <1>1, <1>2, <1>3 DEF TypeOK
  <1>7. TypeOK'
    BY <1>1, <1>4, <1>5, <1>6, TypesOfCalls
  <1>8. RequestsShaped' /\ CallsOrdered'
    BY <1>1, <1>5, BegunStep
  <1>9. \A r \in Calls : c \notin before[r]
    BY <1>1 DEF IInv, CallsOrdered
  <1>10. RedisFresh'
    BY <1>1, <1>2, <1>4, <1>9 DEF RedisFresh, TypeOK
  <1>11. RefreshWins'
    BY <1>1, <1>4, <1>5, AnswersStayFresh
  <1>12. QED
    BY <1>7, <1>8, <1>10, <1>11 DEF IInv

-----------------------------------------------------------------------------
(* The steps of the connections and the stores.                            *)
CallsAlone == UNCHANGED <<step, policy, request, answer, hit, history>>

LEMMA CallsAloneKeeps ==
  ASSUME IInv, CallsAlone, degraded' = degraded, redis' \in {redis, NoAnswer},
         memory' \in [Processes -> Entries],
         link' \in [Processes -> {"untried", "connected", "waiting"}],
         ~degraded => \A p \in Processes : link'[p] # "waiting"
  PROVE  IInv'
  <1>1. TypeOK' /\ RequestsShaped' /\ CallsOrdered'
    BY DEF IInv, TypeOK, RequestsShaped, CallsOrdered, Over, CallsAlone, history, Entries
  <1>2. RedisFresh' /\ RefreshWins'
    BY DEF IInv, RedisFresh, RefreshWins, Replaced, CallsAlone, history
  <1>3. QED
    BY <1>1, <1>2 DEF IInv

LEMMA RetryIInv ==
  ASSUME IInv, NEW p \in Processes, RetryConnection(p)
  PROVE  IInv'
  <1>1. /\ link' \in [Processes -> {"untried", "connected", "waiting"}]
        /\ \A q \in Processes : link'[q] \in {link[q], "untried"}
    BY DEF IInv, TypeOK, RetryConnection
  <1>2. CallsAlone /\ degraded' = degraded /\ redis' = redis /\ memory' = memory
    BY DEF RetryConnection, CallsAlone, history
  <1>3. QED
    BY <1>1, <1>2, CallsAloneKeeps DEF IInv, TypeOK, RedisFresh

LEMMA ExpireIInv == IInv /\ Expire => IInv'
  <1> SUFFICES ASSUME IInv, Expire
               PROVE  IInv'
    OBVIOUS
  <1>1. memory' \in [Processes -> Entries] /\ redis' \in {redis, NoAnswer}
    BY DEF IInv, TypeOK, Expire, Entries
  <1>2. CallsAlone /\ degraded' = degraded /\ link' = link
    BY DEF Expire, CallsAlone, history
  <1>3. QED
    BY <1>1, <1>2, CallsAloneKeeps DEF IInv, TypeOK, RedisFresh

LEMMA StutterIInv == IInv /\ UNCHANGED vars => IInv'
  <1> SUFFICES ASSUME IInv, UNCHANGED vars
               PROVE  IInv'
    OBVIOUS
  <1>1. /\ CallsAlone /\ degraded' = degraded /\ redis' = redis
        /\ memory' = memory /\ link' = link
    BY DEF vars, caches, history, CallsAlone
  <1>2. QED
    BY <1>1, CallsAloneKeeps DEF IInv, TypeOK, RedisFresh

-----------------------------------------------------------------------------
(* IInv holds throughout.                                                  *)
THEOREM Invariance == Spec => []IInv
  <1>1. IInv /\ [Next]_vars => IInv'
    BY BeginIInv, LookIInv, AskIInv, StoreIInv, RetryIInv, ExpireIInv, StutterIInv
       DEF Next, CallStep, Stopped
  <1>2. QED
    BY InitIInv, <1>1, PTL DEF Spec

(* Calls, requests, cache entries and connections stay within their types.  *)
THEOREM TypeCorrect == Spec => []TypeOK
  <1>1. IInv => TypeOK
    BY DEF IInv
  <1>2. QED
    BY <1>1, Invariance, PTL

(* Whatever the provider answers and however often its client sends a       *)
(* request again by itself, complete sends a request at most three times    *)
(* with a schema, and twice without, for each time the client may send it.  *)
THEOREM AsksStayBounded == Spec => []AsksBounded
  <1>1. IInv => AsksBounded
    <2> SUFFICES ASSUME IInv, NEW c \in Calls
                 PROVE  request[c].sent + MaxRetries + 1 <= MostSent
      BY DEF AsksBounded
    <2>1. Shaped(request[c]) /\ request[c].sent \in Nat
      BY DEF IInv, TypeOK, RequestsShaped, Shaped, RequestType
    <2>2. QED
      BY <2>1, ConstantsAssumption DEF Shaped, MostSent
  <1>2. QED
    BY <1>1, Invariance, PTL

(* As long as Redis works, no call is served an answer older than a refresh *)
(* that was over before it, for any calls in any processes.                *)
THEOREM RefreshAlwaysWins == Spec => []RefreshWins
  <1>1. IInv => RefreshWins
    BY DEF IInv
  <1>2. QED
    BY <1>1, Invariance, PTL
=============================================================================
