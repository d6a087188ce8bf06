---------------------------- MODULE RateLimiter ----------------------------
(***************************************************************************)
(* The outbound limiter of one model: SlidingWindowLimiter and             *)
(* LLMRateLimiter of llm/rate_limiter.py, driven by calls as _call_once of *)
(* llm/service.py makes them (acquire, send, penalize on a 429, settle,    *)
(* then read the headers).                                                 *)
(*                                                                         *)
(* Time counts ticks, Window of them to a minute.  A call reads the clock  *)
(* once per attempt and may be slow after that.  Redis scripts and locked  *)
(* sections are single steps; the read and the write of a Redis pause are  *)
(* two.  Expired Redis keys are left out: they belong to windows that no   *)
(* later attempt reads.                                                    *)
(***************************************************************************)
EXTENDS Naturals, FiniteSets, FiniteSetsExt

CONSTANTS Calls,       \* model calls, each made once
          Estimate,    \* the token estimate of each call
          Spends,      \* what an answered call may turn out to use
          Rpm, Tpm,    \* requests and tokens per window, 0 for unlimited
          Window,      \* ticks in a window (WINDOW_S)
          MaxWait,     \* max_wait_s, in ticks
          PauseWaits,  \* retry-after and header reset times, in ticks
          Redis,       \* "none", "up", or "flaky": any operation may fail
          MaxKeys,     \* counters the memory store keeps (10,000)
          MaxNow       \* bound: the last tick

ASSUME ConstantsAssumption ==
  /\ IsFiniteSet(Calls)
  /\ \A c \in Calls : Estimate[c] \in Nat \ {0}
  /\ Spends \subseteq Nat
  /\ Rpm \in Nat /\ Tpm \in Nat
  /\ Window \in Nat \ {0}
  /\ MaxWait \in Nat
  /\ PauseWaits \subseteq Nat \ {0}
  /\ Redis \in {"none", "up", "flaky"}
  /\ MaxKeys \in Nat
  /\ MaxNow \in Nat

Stores == CASE Redis = "none"  -> {"memory"}
            [] Redis = "up"    -> {"redis"}
            [] Redis = "flaky" -> {"memory", "redis"}

WindowOf(t) == t \div Window

Windows == 0..WindowOf(MaxNow)

VARIABLES now,       \* the time
          reqs,      \* the request counter of each store and window
          toks,      \* the token counter of each store and window
          pause,     \* the time until which each store pauses the model, 0 if none
          pc,        \* where each call is
          clock,     \* the time it read for its last attempt
          deadline,  \* the time after which it stops waiting
          holder,    \* the store that granted its reservation
          outcome,   \* what the provider answered: "ok", "limited" or "failed"
          spent,     \* the tokens it settles
          until,     \* the pause it asks for
          seen       \* the Redis pause it read before writing its own

vars == <<now, reqs, toks, pause, pc, clock, deadline, holder, outcome, spent, until, seen>>

Init == /\ now = 0
        /\ reqs = [s \in Stores |-> [w \in Windows |-> 0]]
        /\ toks = [s \in Stores |-> [w \in Windows |-> 0]]
        /\ pause = [s \in Stores |-> 0]
        /\ pc = [c \in Calls |-> "idle"]
        /\ clock = [c \in Calls |-> 0]
        /\ deadline = [c \in Calls |-> 0]
        /\ holder = [c \in Calls |-> "none"]
        /\ outcome = [c \in Calls |-> "none"]
        /\ spent = [c \in Calls |-> 0]
        /\ until = [c \in Calls |-> 0]
        /\ seen = [c \in Calls |-> 0]

Goto(c, to) == pc' = [pc EXCEPT ![c] = to]

Tick == /\ now < MaxNow
        /\ now' = now + 1
        /\ UNCHANGED <<reqs, toks, pause, pc, clock, deadline, holder, outcome, spent, until, seen>>

(* Bound: calls start early enough to reach their deadline.                *)
Start(c) == /\ pc[c] = "idle"
            /\ now + MaxWait <= MaxNow
            /\ deadline' = [deadline EXCEPT ![c] = now + MaxWait]
            /\ Goto(c, "look")
            /\ UNCHANGED <<now, reqs, toks, pause, clock, holder, outcome, spent, until, seen>>

(* The clock and the pause: give up at once if the pause outlasts the       *)
(* deadline, sleep if there is one, else try.                              *)
Look(c) == /\ pc[c] = "look"
           /\ clock' = [clock EXCEPT ![c] = now]
           /\ \E s \in Stores :
                Goto(c, CASE pause[s] <= now -> "acquire"
                          [] pause[s] > now /\ pause[s] > deadline[c] -> "refused"
                          [] OTHER -> "look")
           /\ UNCHANGED <<now, reqs, toks, pause, deadline, holder, outcome, spent, until, seen>>

(* The window's count plus the overlapping share of the previous one, and   *)
(* the new cost, scaled by Window.  A counter at 0 admits any cost.        *)
Used(counts, t) ==
  LET w    == WindowOf(t)
      prev == IF w = 0 THEN 0 ELSE counts[w - 1]
  IN  counts[w] * Window + prev * (Window - (t % Window))

(* Mutant: the counter may exceed the limit by one request.                *)
FitsLoosely(counts, limit, cost, t) ==
  limit = 0 \/ Used(counts, t) = 0 \/ Used(counts, t) <= limit * Window

Fits(counts, limit, cost, t) ==
  limit = 0 \/ Used(counts, t) = 0 \/ Used(counts, t) + cost * Window <= limit * Window

NoCounts == [w \in Windows |-> 0]

(* After adding its own, the memory store forgets every counter if it holds *)
(* too many, two for each window in which a request was counted.           *)
Overfull(s, w) == /\ s = "memory"
                  /\ 2 * Cardinality({v \in Windows : reqs[s][v] > 0 \/ v = w}) > MaxKeys

(* Both counters grow together, and only if both limits allow it.          *)
Granted(c, s) == LET w == WindowOf(clock[c]) IN
  /\ pc[c] = "acquire"
  /\ Fits(reqs[s], Rpm, 1, clock[c])
  /\ Fits(toks[s], Tpm, Estimate[c], clock[c])
  /\ IF Overfull(s, w)
     THEN /\ reqs' = [reqs EXCEPT ![s] = NoCounts]
          /\ toks' = [toks EXCEPT ![s] = NoCounts]
     ELSE /\ reqs' = [reqs EXCEPT ![s][w] = @ + 1]
          /\ toks' = [toks EXCEPT ![s][w] = @ + Estimate[c]]
  /\ holder' = [holder EXCEPT ![c] = s]
  /\ Goto(c, "sending")
  /\ UNCHANGED <<now, pause, clock, deadline, outcome, spent, until, seen>>

(* Mutant: a denied call never gives up.                                   *)
DeniedPatiently(c, s) ==
  /\ pc[c] = "acquire"
  /\ ~(Fits(reqs[s], Rpm, 1, clock[c]) /\ Fits(toks[s], Tpm, Estimate[c], clock[c]))
  /\ Goto(c, "look")
  /\ UNCHANGED <<now, reqs, toks, pause, clock, deadline, holder, outcome, spent, until, seen>>

Denied(c, s) ==
  /\ pc[c] = "acquire"
  /\ ~(Fits(reqs[s], Rpm, 1, clock[c]) /\ Fits(toks[s], Tpm, Estimate[c], clock[c]))
  /\ Goto(c, IF clock[c] >= deadline[c] THEN "refused" ELSE "look")
  /\ UNCHANGED <<now, reqs, toks, pause, clock, deadline, holder, outcome, spent, until, seen>>

(* The provider's answer.  A 429 asks for a pause before the reservation is *)
(* settled; a call without an answer settles 0 tokens.                     *)
Answered(c) == /\ pc[c] = "sending"
               /\ outcome' = [outcome EXCEPT ![c] = "ok"]
               /\ \E n \in Spends : spent' = [spent EXCEPT ![c] = n]
               /\ Goto(c, "settle")
               /\ UNCHANGED <<now, reqs, toks, pause, clock, deadline, holder, until, seen>>

Failed(c) == /\ pc[c] = "sending"
             /\ outcome' = [outcome EXCEPT ![c] = "failed"]
             /\ Goto(c, "settle")
             /\ UNCHANGED <<now, reqs, toks, pause, clock, deadline, holder, spent, until, seen>>

AskForPause(c) == /\ \E wait \in PauseWaits : until' = [until EXCEPT ![c] = now + wait]
                  /\ Goto(c, "pause")

Limited(c) == /\ pc[c] = "sending"
              /\ outcome' = [outcome EXCEPT ![c] = "limited"]
              /\ AskForPause(c)
              /\ UNCHANGED <<now, reqs, toks, pause, clock, deadline, holder, spent, seen>>

(* Mutant: the unused part goes back to the current window.                *)
SettleCurrent(c) ==
  /\ pc[c] = "settle"
  /\ \E s \in Stores :
       toks' = [toks EXCEPT ![s][WindowOf(now)] =
                  IF @ + spent[c] < Estimate[c] THEN 0 ELSE @ + spent[c] - Estimate[c]]
  /\ Goto(c, IF outcome[c] = "ok" THEN "observe" ELSE "done")
  /\ UNCHANGED <<now, reqs, pause, clock, deadline, holder, outcome, spent, until, seen>>

(* The estimate is replaced by what was spent, in the reservation's window  *)
(* and not below 0.                                                        *)
Settle(c) ==
  /\ pc[c] = "settle"
  /\ \E s \in Stores :
       toks' = [toks EXCEPT ![s][WindowOf(clock[c])] =
                  IF @ + spent[c] < Estimate[c] THEN 0 ELSE @ + spent[c] - Estimate[c]]
  /\ Goto(c, IF outcome[c] = "ok" THEN "observe" ELSE "done")
  /\ UNCHANGED <<now, reqs, pause, clock, deadline, holder, outcome, spent, until, seen>>

(* The response headers may say that the provider's window is nearly spent. *)
Observe(c) == /\ pc[c] = "observe"
              /\ \/ AskForPause(c)
                 \/ Goto(c, "done") /\ UNCHANGED until
              /\ UNCHANGED <<now, reqs, toks, pause, clock, deadline, holder, outcome, spent, seen>>

AfterPause(c) == /\ Goto(c, IF outcome[c] = "limited" THEN "settle" ELSE "done")
                 /\ until' = [until EXCEPT ![c] = 0]
                 /\ seen' = [seen EXCEPT ![c] = 0]

(* set_pause: in Redis a read and then a write, in memory one step.        *)
ReadPause(c) == /\ pc[c] = "pause"
                /\ "redis" \in Stores
                /\ seen' = [seen EXCEPT ![c] = pause["redis"]]
                /\ Goto(c, "write_pause")
                /\ UNCHANGED <<now, reqs, toks, pause, clock, deadline, holder, outcome, spent, until>>

WritePause(c) ==
  /\ pc[c] = "write_pause"
  /\ pause' = IF seen[c] < until[c] THEN [pause EXCEPT !["redis"] = until[c]] ELSE pause
  /\ AfterPause(c)
  /\ UNCHANGED <<now, reqs, toks, clock, deadline, holder, outcome, spent>>

PauseInMemory(c) ==
  /\ pc[c] \in {"pause", "write_pause"}
  /\ "memory" \in Stores
  /\ pause' = [pause EXCEPT !["memory"] = Max({@, until[c]})]
  /\ AfterPause(c)
  /\ UNCHANGED <<now, reqs, toks, clock, deadline, holder, outcome, spent>>

Proceed(c) == \/ Look(c)
              \/ \E s \in Stores : Granted(c, s) \/ Denied(c, s)
              \/ Answered(c)
              \/ Failed(c)
              \/ Limited(c)
              \/ Settle(c)
              \/ Observe(c)
              \/ ReadPause(c)
              \/ WritePause(c)
              \/ PauseInMemory(c)

AllOver == (\A c \in Calls : pc[c] \in {"idle", "done", "refused"}) /\ UNCHANGED vars

Next == Tick \/ (\E c \in Calls : Start(c) \/ Proceed(c)) \/ AllOver

Spec == Init /\ [][Next]_vars

(* Calls run on server threads and every sleep and provider call is         *)
(* bounded; time passes.  No call is owed to the limiter.                  *)
FairSpec == Spec /\ WF_vars(Tick) /\ \A c \in Calls : WF_vars(Proceed(c))

-----------------------------------------------------------------------------
(* Correctness.                                                            *)

PcValues == {"idle", "look", "acquire", "sending", "settle", "observe", "pause", "write_pause",
             "done", "refused"}

TypeOK == /\ now \in 0..MaxNow
          /\ reqs \in [Stores -> [Windows -> Nat]]
          /\ toks \in [Stores -> [Windows -> Nat]]
          /\ pause \in [Stores -> Nat]
          /\ pc \in [Calls -> PcValues]
          /\ clock \in [Calls -> 0..MaxNow]
          /\ deadline \in [Calls -> Nat]
          /\ holder \in [Calls -> Stores \cup {"none"}]
          /\ outcome \in [Calls -> {"none", "ok", "limited", "failed"}]
          /\ spent \in [Calls -> Spends \cup {0}]
          /\ until \in [Calls -> Nat]
          /\ seen \in [Calls -> Nat]

(* The calls a store admitted into a window.                               *)
Admitted(s, w) == {c \in Calls : holder[c] = s /\ WindowOf(clock[c]) = w}

(* No window admits more requests than the limit, however slowly the       *)
(* callers act on the clock they read and whichever store answers them.    *)
WindowBound == Rpm > 0 => \A s \in Stores, w \in Windows : Cardinality(Admitted(s, w)) <= Rpm

(* Why it holds: as long as the memory store forgets nothing, the request    *)
(* counter of a window is the number of calls admitted into it, and a call  *)
(* that is not past its limits holds no reservation.                       *)
EnoughKeys == 2 * Cardinality(Windows) <= MaxKeys

RequestsCounted == \A s \in Stores, w \in Windows : reqs[s][w] = Cardinality(Admitted(s, w))

Unreserved == \A c \in Calls : pc[c] \in {"idle", "look", "acquire", "refused"} => holder[c] = "none"

IInv == /\ TypeOK
        /\ Unreserved
        /\ RequestsCounted
        /\ WindowBound

Settled(c) == pc[c] \in {"observe", "done"} \/ (outcome[c] = "ok" /\ pc[c] \in {"pause", "write_pause"})

Counts(c) == IF Settled(c) THEN spent[c] ELSE Estimate[c]

(* The token counter is what the settled calls spent and what the others    *)
(* reserved: nothing is settled twice, in a wrong window, or cut off at 0. *)
Tokens(s, w) == UNION {{c} \X (1..Counts(c)) : c \in Admitted(s, w)}

TokensAccounted == \A s \in Stores, w \in Windows : toks[s][w] = Cardinality(Tokens(s, w))

(* A window exceeds its token limit only by a call that was alone in it, or *)
(* by calls that spent more than they had estimated.                       *)
OverLimitExplained ==
  \A s \in Stores, w \in Windows :
    Tpm > 0 /\ toks[s][w] > Tpm =>
      \/ \E c \in Admitted(s, w) : Counts(c) > Estimate[c]
      \/ Cardinality({c \in Admitted(s, w) : Counts(c) > 0}) = 1

(* The token counter of a window is what its calls spent, and above the     *)
(* limit only for the reasons named.                                       *)
TokensExplained == TokensAccounted /\ OverLimitExplained

(* Why it holds: past its limits a call holds a reservation, only an        *)
(* answered one reads headers, and only an answered or a limited one asks  *)
(* for a pause.                                                            *)
ReservationHeld ==
  \A c \in Calls : \/ pc[c] \in {"idle", "look", "acquire", "refused"}
                   \/ holder[c] \in Stores

OutcomesKnown ==
  \A c \in Calls : /\ pc[c] = "observe" => outcome[c] = "ok"
                   /\ pc[c] \in {"pause", "write_pause"} => outcome[c] \in {"ok", "limited"}

TInv == ReservationHeld /\ OutcomesKnown /\ TokensExplained

(* rate_limiter.py: a model is paused until the provider window resets; a   *)
(* pause is never cut short by a shorter one.                              *)
PauseNeverShrinks == [][\A s \in Stores : pause'[s] >= pause[s]]_vars

(* Two calls between their read and their write of the Redis pause.         *)
SetsOverlap == \E c, d \in Calls : c # d /\ pc[c] = "write_pause" /\ pc[d] = "write_pause"

(* Why no pause is cut short as long as they do not overlap: what a call     *)
(* read is still the pause when it writes.                                 *)
ReadIsCurrent == \A c \in Calls : pc[c] = "write_pause" => "redis" \in Stores /\ seen[c] = pause["redis"]

(* Every call is admitted and completed, or refused: none waits for ever    *)
(* behind a pause or a full window.                                        *)
EveryCallDecided == \A c \in Calls : pc[c] = "look" ~> pc[c] \in {"done", "refused"}
=============================================================================
