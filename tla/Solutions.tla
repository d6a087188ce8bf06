----------------------------- MODULE Solutions -----------------------------
(***************************************************************************)
(* A person's library of existing solutions (api/routers/solutions.py over *)
(* services/solution_store.py), with requests of several people and from   *)
(* several windows handled at the same time, each in one transaction at    *)
(* the level READ COMMITTED.                                               *)
(*                                                                         *)
(* A solution has an owner and two fields, its name and its status; the    *)
(* other fields behave as the status does.  Each field also carries the    *)
(* request that wrote it.                                                  *)
(***************************************************************************)
EXTENDS Naturals, FiniteSets

CONSTANTS Visits,    \* requests, each handled once
          Demands,   \* what they may ask: [by, op, id, fields]
          ApiKey,    \* who asks without an account
          Promoted,  \* accounts that may get or lose the role of an admin
          Stored     \* the solutions there are at the beginning

ASSUME ApiKeyAssumption == ApiKey \notin Promoted /\ \A id \in DOMAIN Stored : Stored[id].owner # ApiKey

Columns == {"name", "status"}

IsRow(row) == /\ row = [owner |-> row.owner, fields |-> row.fields, author |-> row.author]
              /\ DOMAIN row.fields = Columns /\ DOMAIN row.author = Columns

(* The solutions there are have been written by others, with other ids.     *)
ASSUME StoredAssumption ==
  /\ \A id \in DOMAIN Stored : /\ id \notin Visits /\ IsRow(Stored[id])
                               /\ \A f \in Columns : Stored[id].author[f] \notin Visits
  /\ \A d \in Demands : d.op \in {"create", "update"} => DOMAIN d.fields = Columns

VARIABLES shelf,    \* committed rows of existing_solutions, by their id
          admins,   \* accounts with the role, or in the list of the settings
          at,       \* where each request is
          demand,   \* what it asks
          scope,    \* who it is for, as get_scope found it
          loaded,   \* the row it works on
          reply,    \* what it was answered
          earlier   \* requests that were over when one began (history)

solutionVars == <<shelf, admins, at, demand, scope, loaded, reply, earlier>>

NoDemand == [by |-> ApiKey, op |-> "none"]
NoScope  == [owner |-> ApiKey, restricted |-> TRUE, admin |-> FALSE]
NoRow    == [owner |-> ApiKey]
NoReply  == [code |-> 0]

SolutionsInit == /\ shelf = Stored
                 /\ admins \in SUBSET Promoted
                 /\ at = [q \in Visits |-> "idle"]
                 /\ demand = [q \in Visits |-> NoDemand]
                 /\ scope = [q \in Visits |-> NoScope]
                 /\ loaded = [q \in Visits |-> NoRow]
                 /\ reply = [q \in Visits |-> NoReply]
                 /\ earlier = [q \in Visits |-> {}]

Move(q, place) == at' = [at EXCEPT ![q] = place]

Reply(q, r) == /\ at' = [at EXCEPT ![q] = "over"]
               /\ reply' = [reply EXCEPT ![q] = r]

TurnAway(q, code) == /\ Reply(q, [code |-> code])
                   /\ UNCHANGED <<shelf, loaded>>

Over(q) == at[q] = "over"

-----------------------------------------------------------------------------
(* Who may do what.                                                        *)

ScopeOf(p) == [owner |-> p, restricted |-> p # ApiKey /\ p \notin admins, admin |-> p \in admins]

(* Role and settings may change at any time.                               *)
ChangeRole(p) == /\ admins' = IF p \in admins THEN admins \ {p} ELSE admins \cup {p}
                 /\ UNCHANGED <<shelf, at, demand, scope, loaded, reply, earlier>>

CanSee(s, row) == s.admin \/ ~s.restricted \/ row.owner = s.owner

Receive(q) == /\ at[q] = "idle"
              /\ \E d \in Demands :
                   /\ demand' = [demand EXCEPT ![q] = d]
                   /\ scope' = [scope EXCEPT ![q] = ScopeOf(d.by)]
              /\ earlier' = [earlier EXCEPT ![q] = {p \in Visits : Over(p)}]
              /\ Move(q, "scoped")
              /\ UNCHANGED <<shelf, admins, loaded, reply>>

-----------------------------------------------------------------------------
(* Reading.                                                                *)

Mine(q) == {id \in DOMAIN shelf : shelf[id].owner = scope[q].owner}

List(q) == /\ at[q] = "scoped" /\ demand[q].op \in {"list", "everyone"}
           /\ CASE demand[q].op = "everyone" /\ scope[q].admin ->
                     Reply(q, [code |-> 200, listed |-> DOMAIN shelf]) /\ UNCHANGED <<shelf, loaded>>
                [] scope[q].owner = ApiKey -> TurnAway(q, 403)
                [] OTHER -> Reply(q, [code |-> 200, listed |-> Mine(q)]) /\ UNCHANGED <<shelf, loaded>>
           /\ UNCHANGED <<admins, demand, scope, earlier>>

MayEdit(q, row) == row.owner = scope[q].owner

Load(q) == /\ at[q] = "scoped" /\ demand[q].op \in {"get", "update", "delete"}
           /\ LET id == demand[q].id
              IN IF id \notin DOMAIN shelf \/ ~CanSee(scope[q], shelf[id])
                 THEN TurnAway(q, 404)
                 ELSE CASE demand[q].op = "get" ->
                             Reply(q, [code |-> 200, row |-> shelf[id]]) /\ UNCHANGED <<shelf, loaded>>
                        [] demand[q].op = "update" /\ ~MayEdit(q, shelf[id]) -> TurnAway(q, 403)
                        [] OTHER -> /\ loaded' = [loaded EXCEPT ![q] = shelf[id]]
                                    /\ Move(q, "writing")
                                    /\ UNCHANGED <<shelf, reply>>
           /\ UNCHANGED <<admins, demand, scope, earlier>>

-----------------------------------------------------------------------------
(* Writing: the flush of the session, and the commit.                      *)

New(q) == [owner |-> scope[q].owner, fields |-> demand[q].fields,
           author |-> [f \in DOMAIN demand[q].fields |-> q]]

StartCreate(q) == /\ at[q] = "scoped" /\ demand[q].op = "create"
                  /\ IF scope[q].owner = ApiKey
                     THEN TurnAway(q, 403)
                     ELSE /\ loaded' = [loaded EXCEPT ![q] = New(q)]
                          /\ Move(q, "naming")
                          /\ UNCHANGED <<shelf, reply>>
                  /\ UNCHANGED <<admins, demand, scope, earlier>>

(* Mutant: a status that is set again is not noticed.                       *)
ChangedNames(q) == {f \in {"name"} : demand[q].fields[f] # loaded[q].fields[f]}

(* The session writes the columns that differ from what was loaded.         *)
Changed(q) == {f \in DOMAIN loaded[q].fields : demand[q].fields[f] # loaded[q].fields[f]}

Target(q) == IF demand[q].op = "create" THEN q ELSE demand[q].id

(* A row that is written is locked until its writer is over, ...           *)
Holds(q, id) == at[q] \in {"naming", "committing"} /\ demand[q].op # "create" /\ demand[q].id = id

RowFree(q) == \A p \in Visits \ {q} : ~Holds(p, demand[q].id)

(* UPDATE or DELETE.  An UPDATE that meets no row is an error of the       *)
(* session, a DELETE a warning; one of no column is not made.              *)
LockRow(q) == /\ at[q] = "writing"
              /\ \/ /\ demand[q].op = "update" /\ Changed(q) = {}
                    /\ Move(q, "presenting")
                    /\ UNCHANGED <<shelf, loaded, reply>>
                 \/ /\ demand[q].op = "delete" \/ Changed(q) # {}
                    /\ RowFree(q)
                    /\ CASE demand[q].id \in DOMAIN shelf /\ demand[q].op = "update" ->
                              Move(q, IF "name" \in Changed(q) THEN "naming" ELSE "committing")
                              /\ UNCHANGED <<shelf, loaded, reply>>
                         [] demand[q].id \in DOMAIN shelf /\ demand[q].op = "delete" ->
                              Move(q, "committing") /\ UNCHANGED <<shelf, loaded, reply>>
                         [] demand[q].id \notin DOMAIN shelf /\ demand[q].op = "delete" -> TurnAway(q, 204)
                         [] OTHER -> TurnAway(q, 500)
              /\ UNCHANGED <<admins, demand, scope, earlier>>

(* ... and so is a name, in its new row and in the row that gives it up.    *)
Awaits(q, p) == /\ p # q /\ at[q] = "naming"
                /\ \/ /\ at[p] = "committing" /\ demand[p].op \in {"create", "update"}
                      /\ loaded[p].owner = loaded[q].owner
                      /\ demand[p].fields.name = demand[q].fields.name
                   \/ \E id \in DOMAIN shelf \ {Target(q)} :
                        /\ Holds(p, id)
                        /\ shelf[id].owner = loaded[q].owner
                        /\ shelf[id].fields.name = demand[q].fields.name
                        /\ demand[p].op = "delete" \/ "name" \in Changed(p)

NameTaken(q) == \E id \in DOMAIN shelf \ {Target(q)} :
                  /\ shelf[id].owner = loaded[q].owner
                  /\ shelf[id].fields.name = demand[q].fields.name

(* The unique index on (owner_id, name).                                    *)
TakeName(q) == /\ at[q] = "naming"
               /\ \A p \in Visits : ~Awaits(q, p)
               /\ IF NameTaken(q)
                  THEN TurnAway(q, 409)
                  ELSE Move(q, "committing") /\ UNCHANGED <<shelf, loaded, reply>>
               /\ UNCHANGED <<admins, demand, scope, earlier>>

(* Two people's windows that swap two names wait for each other: the        *)
(* database ends one of them with an error that is no conflict.            *)
DeadlockFound(q) == /\ \E p \in Visits : Awaits(q, p) /\ Awaits(p, q)
                    /\ TurnAway(q, 500)
                    /\ UNCHANGED <<admins, demand, scope, earlier>>

Updated(q, row) ==
  [row EXCEPT !.fields = [f \in DOMAIN row.fields |->
                            IF f \in Changed(q) THEN demand[q].fields[f] ELSE row.fields[f]],
              !.author = [f \in DOMAIN row.author |-> IF f \in Changed(q) THEN q ELSE row.author[f]]]

Commit(q) ==
  /\ at[q] = "committing"
  /\ CASE demand[q].op = "create" ->
            /\ shelf' = [id \in DOMAIN shelf \cup {q} |-> IF id = q THEN loaded[q] ELSE shelf[id]]
            /\ Move(q, "presenting") /\ UNCHANGED reply
       [] demand[q].op = "update" ->
            /\ shelf' = [shelf EXCEPT ![demand[q].id] = Updated(q, @)]
            /\ Move(q, "presenting") /\ UNCHANGED reply
       [] demand[q].op = "delete" ->
            /\ shelf' = [id \in DOMAIN shelf \ {demand[q].id} |-> shelf[id]]
            /\ Reply(q, [code |-> 204])
  /\ UNCHANGED <<admins, demand, scope, loaded, earlier>>

(* The answer reads the row again, in a transaction of its own.             *)
Present(q) == /\ at[q] = "presenting"
              /\ IF Target(q) \in DOMAIN shelf
                 THEN Reply(q, [code |-> 200, row |-> shelf[Target(q)]])
                 ELSE Reply(q, [code |-> 500])
              /\ UNCHANGED <<shelf, admins, demand, scope, loaded, earlier>>

SolutionStep(q) == \/ Receive(q) \/ List(q) \/ Load(q)
                   \/ StartCreate(q) \/ LockRow(q) \/ TakeName(q) \/ DeadlockFound(q)
                   \/ Commit(q) \/ Present(q)

SolutionsNext == \/ \E q \in Visits : SolutionStep(q)
                 \/ \E p \in Promoted : ChangeRole(p)

-----------------------------------------------------------------------------
(* Correctness.                                                            *)

(* What an admin, or anybody else, wrote is never in another's solution,     *)
(* whatever happens to roles and rows between a request's steps            *)
(* (services/solution_store.py:3-4).                                       *)
OwnWords == \A id \in DOMAIN shelf : \A f \in DOMAIN shelf[id].author :
              LET q == shelf[id].author[f]
              IN q \in Visits => demand[q].by = shelf[id].owner

(* A solution that is answered to a create or an update says what was asked, *)
(* but for fields that another request wrote while this one was handled.    *)
AnswersHold ==
  \A q \in Visits :
    demand[q].op \in {"create", "update"} /\ reply[q].code = 200 =>
      \A f \in DOMAIN demand[q].fields :
        \/ reply[q].row.fields[f] = demand[q].fields[f]
        \/ LET p == reply[q].row.author[f] IN p \in Visits \ (earlier[q] \cup {q})

SolutionsSound == OwnWords /\ AnswersHold
=============================================================================
