-------------------------- MODULE AppendOnlyHistory --------------------------
(***************************************************************************)
(* What the stored history of one section promises: a log that only grows  *)
(* at its end, and an answer to every writer that agrees with the log.     *)
(***************************************************************************)
EXTENDS Sequences

CONSTANTS Writers,   \* requests that may add one entry each
          First      \* the entry the history starts with

VARIABLES log,       \* the entries, oldest first
          answer     \* what each writer has been told

historyVars == <<log, answer>>

Init == /\ log = <<First>>
        /\ answer = [w \in Writers |-> "pending"]

Store(w) == /\ answer[w] = "pending"
            /\ log' = Append(log, w)
            /\ answer' = [answer EXCEPT ![w] = "stored"]

Refuse(w) == /\ answer[w] = "pending"
             /\ answer' = [answer EXCEPT ![w] = "not_stored"]
             /\ UNCHANGED log

Next == \E w \in Writers : Store(w) \/ Refuse(w)

Spec == Init /\ [][Next]_historyVars
=============================================================================
