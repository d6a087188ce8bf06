------------------------------ MODULE LlmCall ------------------------------
(***************************************************************************)
(* Calls of LLMService.complete_json and complete (llm/service.py) that    *)
(* make the same request, from several threads and processes, with the     *)
(* response cache (llm/cache.py) and the shared Redis connection           *)
(* (core/redis.py) between them and the provider (llm/groq_client.py).     *)
(*                                                                         *)
(* An answer is the call that asked for it and its shape: a JSON "object",  *)
(* another JSON value ("array"), or "prose" that does not parse.  The      *)
(* request being the same, there is one cache entry in Redis and one in    *)
(* the memory of each process.                                             *)
(***************************************************************************)
EXTENDS Naturals

CONSTANTS Calls,       \* the calls
          Processes,   \* server processes
          ProcessOf,   \* [Calls -> Processes]
          WantJson,    \* complete_json, or complete for plain text
          Strict,      \* the model takes a JSON schema
          MaxRetries   \* how often the provider's client sends a request again by itself

ASSUME ConstantsAssumption ==
  /\ ProcessOf \in [Calls -> Processes]
  /\ WantJson \in BOOLEAN /\ Strict \in BOOLEAN
  /\ MaxRetries \in Nat

Shapes == {"object", "array", "prose"}

Answers == [by : Calls, shape : Shapes]

NoAnswer == [by |-> "nobody", shape |-> "none"]

VARIABLES step,     \* where each call is
          policy,   \* the cache policy of the run that makes it
          request,  \* its request: the second of complete_json or not, the format asked
                    \* for, whether with more room, and how often it has gone out
          answer,   \* what it has to store, or has returned
          hit,      \* the answer came from the cache
          redis,    \* the entry in Redis
          memory,   \* the entry in each process's memory
          link,     \* each process's connection: "untried", "connected" or "waiting"
          degraded, \* some operation of Redis has failed (history)
          stored,   \* calls that have written the cache (history)
          before    \* calls that were over when a call started (history)

caches == <<redis, memory, link, degraded>>
history == <<stored, before>>
vars == <<step, policy, request, answer, hit, caches, history>>

FirstFormat == IF ~WantJson THEN "plain" ELSE IF Strict THEN "schema" ELSE "object"

FirstRequest == [repair |-> FALSE, format |-> FirstFormat, longer |-> FALSE, sent |-> 0]

Init == /\ step = [c \in Calls |-> "idle"]
        /\ policy \in [Calls -> {"use", "refresh", "off"}]
        /\ request = [c \in Calls |-> FirstRequest]
        /\ answer = [c \in Calls |-> NoAnswer]
        /\ hit = [c \in Calls |-> FALSE]
        /\ redis = NoAnswer
        /\ memory = [p \in Processes |-> NoAnswer]
        /\ link = [p \in Processes |-> "untried"]
        /\ degraded = FALSE
        /\ stored = {}
        /\ before = [c \in Calls |-> {}]

Over(c) == step[c] \in {"answered", "failed"}

Parses(shape) == ~WantJson \/ shape # "prose"

Usable(shape) == ~WantJson \/ shape = "object"

-----------------------------------------------------------------------------
(* get_redis: one connection per process, made when it is first needed and  *)
(* kept; a failed attempt is not repeated for a while.                     *)

RetryConnection(p) == /\ link[p] = "waiting"
                      /\ link' = [link EXCEPT ![p] = "untried"]
                      /\ UNCHANGED <<step, policy, request, answer, hit, redis, memory, degraded, history>>

(* The store an operation of the cache ends up with: Redis, or the memory   *)
(* of the process when there is no connection or the operation fails.      *)
Reaches(p, store) ==
  \/ /\ store = "redis" /\ link[p] # "waiting"
     /\ link' = [link EXCEPT ![p] = "connected"]
     /\ UNCHANGED degraded
  \/ /\ store = "memory" /\ link[p] # "waiting"
     /\ degraded' = TRUE
     /\ \/ link' = [link EXCEPT ![p] = "connected"]
        \/ link[p] = "untried" /\ link' = [link EXCEPT ![p] = "waiting"]
  \/ /\ store = "memory" /\ link[p] = "waiting"
     /\ UNCHANGED <<link, degraded>>

Entry(p, store) == IF store = "redis" THEN redis ELSE memory[p]

(* Entries live for a time; the memory also drops the least recently used.  *)
Expire == /\ \/ redis' = NoAnswer /\ UNCHANGED memory
             \/ \E p \in Processes : memory' = [memory EXCEPT ![p] = NoAnswer] /\ UNCHANGED redis
          /\ UNCHANGED <<step, policy, request, answer, hit, link, degraded, history>>

-----------------------------------------------------------------------------
(* One call.                                                               *)

Begin(c) == /\ step[c] = "idle"
            /\ step' = [step EXCEPT ![c] = IF policy[c] = "use" THEN "looking" ELSE "asking"]
            /\ before' = [before EXCEPT ![c] = {d \in Calls : Over(d)}]
            /\ UNCHANGED <<policy, request, answer, hit, caches, stored>>

End(c, outcome, a) == /\ step' = [step EXCEPT ![c] = outcome]
                      /\ answer' = [answer EXCEPT ![c] = a]
                      /\ request' = [request EXCEPT ![c] = FirstRequest]

AskWith(c, r) == /\ step' = [step EXCEPT ![c] = "asking"]
                 /\ answer' = [answer EXCEPT ![c] = NoAnswer]
                 /\ request' = [request EXCEPT ![c] = r]

(* complete is over: complete_json returns an object, asks for a repair    *)
(* once, in a request of its own that is not cached, or gives up.          *)
Conclude(c, a, cached) ==
  \/ /\ Usable(a.shape)
     /\ End(c, "answered", a)
     /\ hit' = [hit EXCEPT ![c] = cached]
  \/ /\ ~Usable(a.shape) /\ ~request[c].repair
     /\ AskWith(c, [FirstRequest EXCEPT !.repair = TRUE])
     /\ UNCHANGED hit
  \/ /\ ~Usable(a.shape) /\ request[c].repair
     /\ End(c, "failed", NoAnswer)
     /\ UNCHANGED hit

(* A cached answer is taken if it parses.                                   *)
Look(c) == /\ step[c] = "looking"
           /\ \E store \in {"redis", "memory"} :
                LET found == Entry(ProcessOf[c], store)
                IN /\ Reaches(ProcessOf[c], store)
                   /\ IF found # NoAnswer /\ Parses(found.shape)
                      THEN Conclude(c, found, TRUE)
                      ELSE AskWith(c, request[c]) /\ UNCHANGED hit
           /\ UNCHANGED <<policy, redis, memory, history>>

Cacheable(c, a) == policy[c] # "off" /\ ~request[c].repair /\ Parses(a.shape)

(* The provider answers.                                                   *)
Text(c, a) == IF Cacheable(c, a)
                 THEN /\ step' = [step EXCEPT ![c] = "storing"]
                      /\ answer' = [answer EXCEPT ![c] = a]
                      /\ request' = [request EXCEPT ![c] = FirstRequest]
                      /\ UNCHANGED hit
                 ELSE Conclude(c, a, FALSE)

(* Mutant: an answer that was cut off is asked for again every time.        *)
CutOffAgain(c, r) == AskWith(c, r) /\ UNCHANGED hit

(* The whole budget went into reasoning: once more, with more room.         *)
CutOff(c, r) == /\ ~r.longer
                /\ AskWith(c, [r EXCEPT !.longer = TRUE])
                /\ UNCHANGED hit

(* The provider refuses a schema: once more, with the schema in words.      *)
SchemaRefused(c, r) == /\ r.format = "schema" /\ ~r.longer
                       /\ AskWith(c, [r EXCEPT !.format = "object"])
                       /\ UNCHANGED hit

(* A request that the limiter admits, and what comes of it.  The limiter   *)
(* admits it once; the provider's client sends it again by itself, as often *)
(* as MaxRetries allows, when it is refused for a while, times out or does  *)
(* not connect, and only what comes of the last time is seen here.  Any     *)
(* other failure, an empty answer or a refusal of the limiter ends the call. *)
Ask(c) == /\ step[c] = "asking"
          /\ \E again \in 0..MaxRetries :
               LET r == [request[c] EXCEPT !.sent = @ + 1 + again]
               IN \/ \E shape \in Shapes : Text(c, [by |-> c, shape |-> shape])
                  \/ CutOff(c, r)
                  \/ SchemaRefused(c, r)
                  \/ End(c, "failed", NoAnswer) /\ UNCHANGED hit
          /\ UNCHANGED <<policy, caches, history>>

(* Mutant: an entry that is there is kept.                                  *)
StoreOnce(c) == /\ step[c] = "storing"
                /\ \E store \in {"redis", "memory"} :
                     /\ Reaches(ProcessOf[c], store)
                     /\ IF store = "redis"
                        THEN /\ redis' = IF redis = NoAnswer THEN answer[c] ELSE redis
                             /\ UNCHANGED memory
                        ELSE memory' = [memory EXCEPT ![ProcessOf[c]] = answer[c]] /\ UNCHANGED redis
                /\ stored' = stored \cup {c}
                /\ Conclude(c, answer[c], FALSE)
                /\ UNCHANGED <<policy, before>>

Store(c) == /\ step[c] = "storing"
            /\ \E store \in {"redis", "memory"} :
                 /\ Reaches(ProcessOf[c], store)
                 /\ IF store = "redis"
                    THEN redis' = answer[c] /\ UNCHANGED memory
                    ELSE memory' = [memory EXCEPT ![ProcessOf[c]] = answer[c]] /\ UNCHANGED redis
            /\ stored' = stored \cup {c}
            /\ Conclude(c, answer[c], FALSE)
            /\ UNCHANGED <<policy, before>>

CallStep(c) == Begin(c) \/ Look(c) \/ Ask(c) \/ Store(c)

Stopped == (\A c \in Calls : Over(c)) /\ UNCHANGED vars

Next == \/ \E c \in Calls : CallStep(c)
        \/ \E p \in Processes : RetryConnection(p)
        \/ Expire
        \/ Stopped

Spec == Init /\ [][Next]_vars

-----------------------------------------------------------------------------
(* Correctness.                                                            *)

(* complete calls the client three times at most (refused, cut off, and     *)
(* answered) for a schema, and otherwise twice; a call of the client sends  *)
(* the request once and at most MaxRetries times more.                     *)
MostSent == IF FirstFormat = "schema" THEN 3 * (MaxRetries + 1) ELSE 2 * (MaxRetries + 1)

Entries == Answers \cup {NoAnswer}

TypeOK == /\ step \in [Calls -> {"idle", "looking", "asking", "storing", "answered", "failed"}]
          /\ policy \in [Calls -> {"use", "refresh", "off"}]
          /\ request \in [Calls -> [repair : BOOLEAN, format : {"schema", "object", "plain"},
                                    longer : BOOLEAN, sent : 0..MostSent]]
          /\ answer \in [Calls -> Entries]
          /\ hit \in [Calls -> BOOLEAN]
          /\ redis \in Entries
          /\ memory \in [Processes -> Entries]
          /\ link \in [Processes -> {"untried", "connected", "waiting"}]
          /\ degraded \in BOOLEAN
          /\ stored \in SUBSET Calls
          /\ before \in [Calls -> SUBSET Calls]

(* Whatever comes back - schemas refused, answers cut off, resends of the    *)
(* client, before or after the JSON repair - what has been sent for a       *)
(* request leaves room for one more call of the client with all its resends, *)
(* so that complete never sends it more often than MostSent, nor            *)
(* complete_json, which repairs once, more often than twice that.          *)
AsksBounded == \A c \in Calls : request[c].sent + MaxRetries + 1 <= MostSent

(* cache_policy("refresh"): once a refreshed answer has been stored, no      *)
(* later call is served one that was there before, as long as Redis works. *)
Replaced(c) == {w \in Calls : \E r \in before[c] : /\ policy[r] = "refresh"
                                                   /\ r \in stored
                                                   /\ w \in before[r]}

RefreshWins == ~degraded => \A c \in Calls : hit[c] => answer[c].by \notin Replaced(c)

(* Why: a request is repeated for one reason at a time, each reason once;   *)
RequestsShaped ==
  \A c \in Calls :
    LET r == request[c]
    IN  /\ r.format = FirstFormat \/ (FirstFormat = "schema" /\ r.format = "object")
        /\ r.sent <= (IF r.format = FirstFormat THEN 0 ELSE MaxRetries + 1)
                     + (IF r.longer THEN MaxRetries + 1 ELSE 0)

(* a call comes after those that were over, has written nothing before it   *)
(* begins, and writes its own answer;                                      *)
CallsOrdered ==
  \A c \in Calls : /\ \A d \in before[c] : Over(d)
                   /\ step[c] = "idle" => c \notin stored
                   /\ step[c] = "storing" => answer[c] \in Answers /\ answer[c].by = c
                   /\ hit[c] => step[c] = "answered"

(* and while Redis works every process reads it, and finds nothing there    *)
(* that is older than a refresh.                                           *)
RedisFresh ==
  ~degraded => /\ \A p \in Processes : link[p] # "waiting"
               /\ \A r \in stored : policy[r] = "refresh" /\ redis # NoAnswer =>
                                       redis.by \notin before[r]

IInv == /\ TypeOK
        /\ RequestsShaped
        /\ CallsOrdered
        /\ RedisFresh
        /\ RefreshWins
=============================================================================
