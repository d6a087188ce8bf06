---------------------------- MODULE EventStream ----------------------------
(***************************************************************************)
(* What a reader of a workflow's event stream may rely on: progress, then  *)
(* at most one result or error, and nothing after it.  The connection may  *)
(* break at any time; a stream that ends by itself has told the outcome.   *)
(***************************************************************************)
EXTENDS Sequences

VARIABLES heard,   \* the kinds of the events received, in order
          link     \* "open", "ended" by the server, or "cut"

streamVars == <<heard, link>>

Told == \E i \in DOMAIN heard : heard[i] \in {"result", "error"}

Init == heard = << >> /\ link = "open"

Hear(kind) == /\ link = "open"
              /\ ~Told
              /\ heard' = Append(heard, kind)
              /\ UNCHANGED link

End == link = "open" /\ Told /\ link' = "ended" /\ UNCHANGED heard

Cut == link = "open" /\ link' = "cut" /\ UNCHANGED heard

Next == (\E kind \in {"progress", "result", "error"} : Hear(kind)) \/ End \/ Cut

Spec == Init /\ [][Next]_streamVars
=============================================================================
