---------------------------- MODULE RunRecovery ----------------------------
(***************************************************************************)
(* The browser's side of streamed runs: useRunStream and recoverRun of     *)
(* web/src/hooks/useRunStream.ts with streamPost of web/src/lib/sse.ts.    *)
(* Each call of start() posts one run, reads its stream and, when the      *)
(* stream breaks, polls for the stored run.  The server's side of each run *)
(* is what EventStream promises of it (RunStream implements that) together *)
(* with the run store.                                                     *)
(*                                                                         *)
(* Aborting reaches a call that reads its stream or sleeps between polls.  *)
(* It does not reach a poll request in flight, and a sleep that begins     *)
(* after the abort is not ended by it.                                     *)
(***************************************************************************)
EXTENDS Naturals

CONSTANTS Last,      \* runs 1..Last are started, in order
          MaxPolls   \* polls of one broken run (6 minutes, one every 4 s)

ASSUME RunsAssumption == Last \in Nat \ {0} /\ MaxPolls \in Nat \ {0}

Runs == 1..Last

None == 0

VARIABLES call,     \* where each start() is
          aborted,  \* whether its controller was aborted
          knows,    \* whether it has learnt its workflow id
          polls,    \* the polls it has made
          answer,   \* what the poll in flight will return
          view,     \* the hook's state: [run, phase, shown]
          told,     \* the outcome each run's server has announced
          stored,   \* each run in the run store, as its status there
          conn,     \* each run's connection
          server    \* whether each run is still at work: "off", "working" or "over"

recoveryVars == <<call, aborted, knows, polls, answer, view, told, stored, conn, server>>

RecoveryInit == /\ call = [r \in Runs |-> "idle"]
                /\ aborted = [r \in Runs |-> FALSE]
                /\ knows = [r \in Runs |-> FALSE]
                /\ polls = [r \in Runs |-> 0]
                /\ answer = [r \in Runs |-> "none"]
                /\ view = [run |-> None, phase |-> "idle", shown |-> None]
                /\ told = [r \in Runs |-> "nothing"]
                /\ stored = [r \in Runs |-> "none"]
                /\ conn = [r \in Runs |-> "none"]
                /\ server = [r \in Runs |-> "off"]

Goto(r, to) == call' = [call EXCEPT ![r] = to]

Show(phase, shown) == view' = [view EXCEPT !.phase = phase, !.shown = shown]

-----------------------------------------------------------------------------
(* start() and reset().                                                    *)

(* abort.current.abort(): a stream is closed, a sleep ends, and a poll in   *)
(* flight goes on.                                                         *)
AfterAbort(r) == IF call[r] = "reading" \/ (call[r] = "sleeping" /\ ~aborted[r])
                 THEN "returned"
                 ELSE call[r]

Current(r) == call[r] # "idle" /\ \A q \in Runs : q > r => call[q] = "idle"

(* Mutant: starting a run does not abort the one before it.                *)
StartBeside(r) ==
  /\ call[r] = "idle"
  /\ \A q \in Runs : q < r => call[q] # "idle"
  /\ Goto(r, "reading")
  /\ conn' = [conn EXCEPT ![r] = "open"]
  /\ server' = [server EXCEPT ![r] = "working"]
  /\ view' = [run |-> r, phase |-> "running", shown |-> None]
  /\ UNCHANGED <<aborted, knows, polls, answer, told, stored>>

Start(r) ==
  /\ call[r] = "idle"
  /\ \A q \in Runs : q < r => call[q] # "idle"
  /\ call' = [q \in Runs |-> IF q = r THEN "reading" ELSE AfterAbort(q)]
  /\ aborted' = [q \in Runs |-> aborted[q] \/ q < r]
  /\ conn' = [q \in Runs |-> CASE q = r -> "open"
                               [] Current(q) /\ conn[q] = "open" -> "cut"
                               [] OTHER -> conn[q]]
  /\ server' = [server EXCEPT ![r] = "working"]
  /\ view' = [run |-> r, phase |-> "running", shown |-> None]
  /\ UNCHANGED <<knows, polls, answer, told, stored>>

Reset(r) == /\ Current(r)
            /\ Goto(r, AfterAbort(r))
            /\ aborted' = [aborted EXCEPT ![r] = TRUE]
            /\ conn' = IF conn[r] = "open" THEN [conn EXCEPT ![r] = "cut"] ELSE conn
            /\ view' = [run |-> None, phase |-> "idle", shown |-> None]
            /\ UNCHANGED <<knows, polls, answer, told, stored, server>>

-----------------------------------------------------------------------------
(* The server and the network, external to the hook.                       *)

(* The finished run is stored, as completed or failed, or it is not.       *)
StoreRun(r) == /\ server[r] = "working"
               /\ stored[r] = "none"
               /\ \E status \in {"completed", "failed"} :
                    stored' = [stored EXCEPT ![r] = status]
               /\ UNCHANGED <<call, aborted, knows, polls, answer, view, told, conn, server>>

(* The run is over, by its end, an exception or a crash.                   *)
EndRun(r) == /\ server[r] = "working"
             /\ server' = [server EXCEPT ![r] = "over"]
             /\ UNCHANGED <<call, aborted, knows, polls, answer, view, told, stored, conn>>

EndStream(r) == /\ conn[r] = "open"
                /\ told[r] # "nothing"
                /\ conn' = [conn EXCEPT ![r] = "ended"]
                /\ UNCHANGED <<call, aborted, knows, polls, answer, view, told, stored, server>>

CutStream(r) == /\ conn[r] = "open"
                /\ conn' = [conn EXCEPT ![r] = "cut"]
                /\ UNCHANGED <<call, aborted, knows, polls, answer, view, told, stored, server>>

-----------------------------------------------------------------------------
(* One call of start() reading its stream.                                 *)

Receives(r) == call[r] = "reading" /\ conn[r] = "open" /\ told[r] = "nothing"

(* Every trace event carries the workflow id, and the first event is one.  *)
HearProgress(r) == /\ Receives(r)
                   /\ ~knows[r]
                   /\ knows' = [knows EXCEPT ![r] = TRUE]
                   /\ UNCHANGED <<call, aborted, polls, answer, view, told, stored, conn, server>>

HearResult(r) == /\ Receives(r)
                 /\ knows[r]
                 /\ server[r] = "over"
                 /\ told' = [told EXCEPT ![r] = "result"]
                 /\ Show("done", r)
                 /\ UNCHANGED <<call, aborted, knows, polls, answer, stored, conn, server>>

HearError(r) == /\ Receives(r)
                /\ server[r] = "over"
                /\ stored[r] = "none"
                /\ told' = [told EXCEPT ![r] = "error"]
                /\ Show("error", view.shown)
                /\ UNCHANGED <<call, aborted, knows, polls, answer, stored, conn, server>>

ReadToEnd(r) == /\ call[r] = "reading"
                /\ conn[r] = "ended"
                /\ Goto(r, "returned")
                /\ UNCHANGED <<aborted, knows, polls, answer, view, told, stored, conn, server>>

(* A broken stream is polled for if the run is known, else it is an error.  *)
NoticeBreak(r) == /\ call[r] = "reading"
                  /\ conn[r] = "cut"
                  /\ IF knows[r]
                     THEN Goto(r, "sleeping") /\ UNCHANGED view
                     ELSE Goto(r, "returned") /\ Show("error", view.shown)
                  /\ UNCHANGED <<aborted, knows, polls, answer, told, stored, conn, server>>

(* The request is refused, or the API is not reachable.                    *)
RequestFails(r) == /\ Receives(r)
                   /\ ~knows[r]
                   /\ Goto(r, "returned")
                   /\ conn' = [conn EXCEPT ![r] = "cut"]
                   /\ Show("error", view.shown)
                   /\ UNCHANGED <<aborted, knows, polls, answer, told, stored, server>>

-----------------------------------------------------------------------------
(* One call polling for its stored run.                                    *)

(* A poll returns what the store holds when it is asked; no run yet and     *)
(* passing errors look alike, and an expired session ends the polling.     *)
Ask(r) == /\ call[r] = "sleeping"
          /\ polls' = [polls EXCEPT ![r] = @ + 1]
          /\ \E a \in {stored[r], "none", "unauthorized"} : answer' = [answer EXCEPT ![r] = a]
          /\ Goto(r, "asking")
          /\ UNCHANGED <<aborted, knows, view, told, stored, conn, server>>

(* Mutant: a stored failed run is taken for a completed one.               *)
RecoverAny(r) == /\ call[r] = "asking"
                 /\ answer[r] \in {"completed", "failed"}
                 /\ Goto(r, "returned")
                 /\ Show("done", r)
                 /\ UNCHANGED <<aborted, knows, polls, answer, told, stored, conn, server>>

Recover(r) == /\ call[r] = "asking"
              /\ answer[r] = "completed"
              /\ Goto(r, "returned")
              /\ Show("done", r)
              /\ UNCHANGED <<aborted, knows, polls, answer, told, stored, conn, server>>

AskAgain(r) == /\ call[r] = "asking"
               /\ answer[r] = "none"
               /\ polls[r] < MaxPolls
               /\ Goto(r, "sleeping")
               /\ UNCHANGED <<aborted, knows, polls, answer, view, told, stored, conn, server>>

(* Mutant: the hook returns without an error when polling ends.             *)
GiveUpSilently(r) == /\ call[r] = "asking"
                     /\ \/ answer[r] \in {"failed", "unauthorized"}
                        \/ answer[r] = "none" /\ polls[r] = MaxPolls
                     /\ Goto(r, "returned")
                     /\ UNCHANGED <<aborted, knows, polls, answer, view, told, stored, conn, server>>

GiveUp(r) == /\ call[r] = "asking"
             /\ \/ answer[r] \in {"failed", "unauthorized"}
                \/ answer[r] = "none" /\ polls[r] = MaxPolls
             /\ Goto(r, "returned")
             /\ Show("error", view.shown)
             /\ UNCHANGED <<aborted, knows, polls, answer, told, stored, conn, server>>

CallStep(r) == \/ HearProgress(r)
               \/ HearResult(r)
               \/ HearError(r)
               \/ ReadToEnd(r)
               \/ NoticeBreak(r)
               \/ Ask(r)
               \/ Recover(r)
               \/ AskAgain(r)
               \/ GiveUp(r)

UserStep(r) == Start(r) \/ Reset(r)

ServerStep(r) == StoreRun(r) \/ EndRun(r) \/ EndStream(r)

RecoveryNext == \E r \in Runs : CallStep(r) \/ UserStep(r) \/ ServerStep(r) \/ CutStream(r) \/ RequestFails(r)

RecoverySpec == RecoveryInit /\ [][RecoveryNext]_recoveryVars

(* Runs end, streams that told their outcome are closed, and the hook's     *)
(* continuations are run; nothing is owed by the user or by the network.   *)
RecoveryFairSpec == /\ RecoverySpec
                    /\ \A r \in Runs : /\ WF_recoveryVars(EndRun(r))
                                       /\ WF_recoveryVars(EndStream(r))
                                       /\ WF_recoveryVars(CallStep(r))

-----------------------------------------------------------------------------
(* Correctness.                                                            *)

RecoveryTypeOK == /\ call \in [Runs -> {"idle", "reading", "sleeping", "asking", "returned"}]
                  /\ aborted \in [Runs -> BOOLEAN]
                  /\ knows \in [Runs -> BOOLEAN]
                  /\ polls \in [Runs -> 0..MaxPolls]
                  /\ answer \in [Runs -> {"none", "completed", "failed", "unauthorized"}]
                  /\ view \in [run : Runs \cup {None}, phase : {"idle", "running", "done", "error"},
                               shown : Runs \cup {None}]
                  /\ told \in [Runs -> {"nothing", "result", "error"}]
                  /\ stored \in [Runs -> {"none", "completed", "failed"}]
                  /\ conn \in [Runs -> {"none", "open", "ended", "cut"}]
                  /\ server \in [Runs -> {"off", "working", "over"}]

(* What is shown as the result of a run is what its stream announced or     *)
(* what the store holds as completed.                                      *)
ShownIsReal == view.shown # None =>
                 told[view.shown] = "result" \/ stored[view.shown] = "completed"

(* At most one call, the one last started, can still be aborted: an older    *)
(* one that has not returned has been aborted while a poll was in flight.   *)
OneLiveCall == \A r \in Runs :
                 call[r] \in {"reading", "sleeping", "asking"} /\ ~aborted[r] =>
                   view.run = r /\ Current(r)

(* The result on the screen is the last started run's.  The one exception:   *)
(* a call that was aborted while its poll was in flight still shows what it *)
(* recovers.                                                               *)
StaleOnlyFromPoll == view.shown \notin {None, view.run} =>
                       aborted[view.shown] /\ polls[view.shown] > 0

(* A run the user waits for ends in a result or an error: the screen does    *)
(* not stay at "running".                                                  *)
EveryRunSettles ==
  \A r \in Runs : view.run = r ~> view.run # r \/ view.phase \in {"done", "error"}
=============================================================================
