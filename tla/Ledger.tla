------------------------------- MODULE Ledger -------------------------------
(***************************************************************************)
(* The account of what model calls cost (llm/usage.py).  A call is         *)
(* recorded with the run, tool and section that the context of its thread  *)
(* names; the records of a run are summed up in its answer, stored with it *)
(* (services/run_store.py), and read by the views of routers/usage.py.     *)
(***************************************************************************)
EXTENDS Integers, Sequences, SequencesExt, FiniteSets, Collections

CONSTANTS Workflows,   \* runs, of requests served at the same time
          Jobs,        \* what they may be: [type, owner, tools]
          NoJob,
          Drafting,    \* the sections each drafting tool drafts, in order
          Spenders,    \* tools that start threads without their context
          Viewers,     \* scopes of reads: [owner, restricted]
          NoTag,       \* no run, tool or section
          MaxCalls, MaxTools  \* bounds: calls and tools of all runs together

(* Restricted readers are signed in; no section is called like the other     *)
(* threads.                                                                *)
ASSUME LedgerAssumption ==
  /\ IsFiniteSet(Workflows)
  /\ NoTag \notin Workflows \cup DOMAIN Drafting \cup Spenders \cup {"main", "vendor"}
  /\ \A j \in Jobs : NoTag \notin j.tools
  /\ Spenders \cap DOMAIN Drafting = {}
  /\ \A tool \in DOMAIN Drafting : /\ IsList(Drafting[tool]) /\ Drafting[tool] # << >>
                                   /\ {"main", "vendor", NoTag} \cap ToSet(Drafting[tool]) = {}
  /\ \A viewer \in Viewers : viewer.restricted => viewer.owner # NoTag

VARIABLES phase,     \* of each run
          asked,     \* its job
          context,   \* of each live thread: [run, tool, section]
          doing,     \* the tool a run is in
          drafted,   \* how far that tool is with its sections
          before,    \* the tokens of the run before that tool
          steps,     \* tokens of the tools that have run
          recorded,  \* RunUsage._records
          told,      \* what the answer says
          rows,      \* table workflow_runs
          events,    \* table llm_usage_events
          made       \* the calls each run made, as they were

ledgerVars == <<phase, asked, context, doing, drafted, before, steps, recorded, told, rows, events, made>>

Unread == [tokens |-> 0, failures |-> 0, persisted |-> FALSE]

LedgerInit == /\ phase = [w \in Workflows |-> "idle"] /\ asked = [w \in Workflows |-> NoJob]
              /\ context = << >> /\ doing = [w \in Workflows |-> NoTag]
              /\ drafted = [w \in Workflows |-> "none"] /\ before = [w \in Workflows |-> 0]
              /\ steps = [w \in Workflows |-> << >>] /\ recorded = [w \in Workflows |-> << >>]
              /\ told = [w \in Workflows |-> Unread] /\ rows = {} /\ events = << >>
              /\ made = [w \in Workflows |-> << >>]

Main(w) == <<w, "main">>

Pool(w) == {t \in DOMAIN context : t[1] = w} \ {Main(w)}

Started(threads) == Over(threads, context)

Ended(thread) == [t \in DOMAIN context \ {thread} |-> context[t]]

-----------------------------------------------------------------------------
(* Reports.                                                                *)

(* Each call that was answered costs one; a failed one, or a hit, nothing.  *)
Tokens(calls, at) == Cardinality({i \in at : calls[i].kind = "model"})

Failures(calls, at) == Cardinality({i \in at : calls[i].kind = "failed"})

TokensOfRun(w) == Tokens(recorded[w], DOMAIN recorded[w])

OfTool(calls, tool) == {i \in DOMAIN calls : calls[i].tool = tool}

OfSection(calls, at, s) == {i \in at : calls[i].section = s}

BySection(calls, at) == [s \in {calls[i].section : i \in at} \ {NoTag} |-> Tokens(calls, OfSection(calls, at, s))]

-----------------------------------------------------------------------------
(* A run.                                                                  *)

OpenRun(w) == /\ phase[w] = "idle"
              /\ \E j \in Jobs : asked' = [asked EXCEPT ![w] = j]
              /\ phase' = [phase EXCEPT ![w] = "running"]
              /\ context' = Put(context, Main(w), [run |-> w, tool |-> NoTag, section |-> NoTag])
              /\ UNCHANGED <<doing, drafted, before, steps, recorded, told, rows, events, made>>

ToolsUsed == Total([v \in Workflows |-> Len(steps[v]) + (IF doing[v] = NoTag THEN 0 ELSE 1)])

BeginTool(w) == /\ phase[w] = "running" /\ doing[w] = NoTag /\ ToolsUsed < MaxTools
                /\ \E tool \in asked[w].tools :
                     /\ doing' = [doing EXCEPT ![w] = tool]
                     /\ context' = [context EXCEPT ![Main(w)].tool = tool]
                     /\ drafted' = [drafted EXCEPT ![w] = IF tool \in DOMAIN Drafting \cup Spenders THEN "none" ELSE "all"]
                /\ before' = [before EXCEPT ![w] = TokensOfRun(w)]
                /\ UNCHANGED <<phase, asked, steps, recorded, told, rows, events, made>>

(* The first section is drafted alone, by the thread of the run.            *)
BeginFirst(w) == /\ doing[w] \in DOMAIN Drafting /\ drafted[w] = "none"
                 /\ context' = [context EXCEPT ![Main(w)].section = Head(Drafting[doing[w]])]
                 /\ drafted' = [drafted EXCEPT ![w] = "first"]
                 /\ UNCHANGED <<phase, asked, doing, before, steps, recorded, told, rows, events, made>>

WithoutContext(c) == [c EXCEPT !.run = NoTag, !.tool = NoTag]

Copied(c) == c

(* The others are, by threads that start with a copy of its context.        *)
BeginRest(w) == /\ drafted[w] = "first"
                /\ LET c    == [context[Main(w)] EXCEPT !.section = NoTag]
                       rest == {<<w, s>> : s \in ToSet(Tail(Drafting[doing[w]]))}
                   IN  context' = [Started([t \in rest |-> [Copied(c) EXCEPT !.section = t[2]]])
                                     EXCEPT ![Main(w)] = c]
                /\ drafted' = [drafted EXCEPT ![w] = "all"]
                /\ UNCHANGED <<phase, asked, doing, before, steps, recorded, told, rows, events, made>>

(* Vendors are read by threads that copy their own, empty, context.         *)
BeginVendors(w) == /\ doing[w] \in Spenders /\ drafted[w] = "none"
                   /\ context' = Put(context, <<w, "vendor">>, [run |-> NoTag, tool |-> NoTag, section |-> NoTag])
                   /\ drafted' = [drafted EXCEPT ![w] = "all"]
                   /\ UNCHANGED <<phase, asked, doing, before, steps, recorded, told, rows, events, made>>

InCall(t) == t # Main(t[1]) \/ Pool(t[1]) = {}

RecordUsage(c, kind) ==
  IF c.run = NoTag THEN recorded
  ELSE [recorded EXCEPT ![c.run] = Append(@, [tool |-> c.tool, section |-> c.section, kind |-> kind])]

(* What the call is for, whatever the contexts say.                         *)
Call(t) == LET w == t[1]
               section == IF t # Main(w) THEN t[2]
                          ELSE IF drafted[w] = "first" THEN Head(Drafting[doing[w]]) ELSE NoTag
           IN  /\ InCall(t)
               /\ Total([v \in Workflows |-> Len(made[v])]) < MaxCalls
               /\ \E kind \in {"model", "failed"} :
                    /\ recorded' = RecordUsage(context[t], kind)
                    /\ made' = [made EXCEPT ![w] = Append(@, [tool |-> doing[w], section |-> section, kind |-> kind])]
               /\ UNCHANGED <<phase, asked, context, doing, drafted, before, steps, told, rows, events>>

EndThread(t) == /\ t \in Pool(t[1])
                /\ context' = Ended(t)
                /\ UNCHANGED <<phase, asked, doing, drafted, before, steps, recorded, told, rows, events, made>>

EndTool(w) == /\ doing[w] # NoTag /\ drafted[w] = "all" /\ Pool(w) = {}
              /\ steps' = [steps EXCEPT ![w] = Append(@, [tool |-> doing[w], tokens |-> TokensOfRun(w) - before[w]])]
              /\ context' = [context EXCEPT ![Main(w)].tool = NoTag]
              /\ doing' = [doing EXCEPT ![w] = NoTag] /\ drafted' = [drafted EXCEPT ![w] = "none"]
              /\ before' = [before EXCEPT ![w] = 0]
              /\ UNCHANGED <<phase, asked, recorded, told, rows, events, made>>

(* A fatal error leaves the run when the pool is done, with its usage.       *)
RaiseFatal(w) == /\ phase[w] = "running" /\ Pool(w) = {}
                 /\ phase' = [phase EXCEPT ![w] = "raised"]
                 /\ context' = Ended(Main(w))
                 /\ doing' = [doing EXCEPT ![w] = NoTag] /\ drafted' = [drafted EXCEPT ![w] = "none"]
                 /\ before' = [before EXCEPT ![w] = 0]
                 /\ UNCHANGED <<asked, steps, recorded, told, rows, events, made>>

Report(w) == /\ phase[w] = "running" /\ doing[w] = NoTag
             /\ told' = [told EXCEPT ![w].tokens = TokensOfRun(w), ![w].failures = Failures(recorded[w], DOMAIN recorded[w])]
             /\ phase' = [phase EXCEPT ![w] = "reported"]
             /\ context' = Ended(Main(w))
             /\ UNCHANGED <<asked, doing, drafted, before, steps, recorded, rows, events, made>>

AddUsage(w) == events \o [i \in DOMAIN recorded[w] |->
                            [workflow |-> w, type |-> asked[w].type, owner |-> asked[w].owner,
                             tool |-> recorded[w][i].tool, section |-> recorded[w][i].section,
                             kind |-> recorded[w][i].kind]]

(* One transaction stores the run and its usage; a revision has no row.      *)
SaveRun(w) == /\ phase[w] = "reported"
              /\ \/ /\ events' = AddUsage(w)
                    /\ rows' = IF asked[w].type = "revision" THEN rows
                               ELSE rows \cup {[workflow |-> w, owner |-> asked[w].owner, tokens |-> told[w].tokens]}
                    /\ told' = [told EXCEPT ![w].persisted = TRUE]
                 \/ UNCHANGED <<events, rows, told>>
              /\ phase' = [phase EXCEPT ![w] = "answered"]
              /\ UNCHANGED <<asked, context, doing, drafted, before, steps, recorded, made>>

LedgerNext == \/ \E w \in Workflows : \/ OpenRun(w) \/ BeginTool(w) \/ BeginFirst(w) \/ BeginRest(w)
                                      \/ BeginVendors(w) \/ EndTool(w) \/ RaiseFatal(w) \/ Report(w) \/ SaveRun(w)
              \/ \E t \in DOMAIN context : Call(t) \/ EndThread(t)

-----------------------------------------------------------------------------
(* Reads.                                                                  *)

Allows(viewer, owner) == ~viewer.restricted \/ (owner # NoTag /\ owner = viewer.owner)

(* Places of the table of events.                                          *)
OnlyMine(viewer) == {i \in DOMAIN events : ~viewer.restricted \/ events[i].owner = viewer.owner}

UsageForWorkflow(viewer, w) == {i \in OnlyMine(viewer) : events[i].workflow = w}

ListWorkflows(viewer) == {row \in rows : ~viewer.restricted \/ row.owner = viewer.owner}

GetWorkflow(viewer, w) == {row \in rows : row.workflow = w /\ Allows(viewer, row.owner)}

UsageSummary(viewer) ==
  LET mine == OnlyMine(viewer)
  IN  [tokens  |-> Tokens(events, mine), workflows |-> Cardinality({events[i].workflow : i \in mine}),
       by_type |-> [type \in {events[i].type : i \in mine} |-> Tokens(events, {i \in mine : events[i].type = type})]]

UsageByRun(viewer) ==
  LET proposals == {i \in OnlyMine(viewer) : events[i].type = "proposal_generation"}
      Of(w)     == {i \in proposals : events[i].workflow = w}
  IN  {[workflow |-> w, tokens |-> Tokens(events, Of(w)), sections |-> BySection(events, Of(w)),
        saved |-> \E row \in rows : row.workflow = w,
        other |-> Tokens(events, Of(w)) - Total(BySection(events, Of(w)))] :
       w \in {events[i].workflow : i \in proposals}}

-----------------------------------------------------------------------------
(* Properties.                                                             *)

(* A run's records are its own calls, each once, with the tool and section  *)
(* it was made for, but for those that read vendors (record_usage); what    *)
(* its steps say they used is what the report says of those tools (_delta).  *)
RecordsAreTrue ==
  \A w \in Workflows :
    /\ recorded[w] = Subsequence(made[w], {i \in DOMAIN made[w] : made[w][i].section # "vendor"})
    /\ phase[w] # "raised" =>
       \A tool \in {steps[w][i].tool : i \in DOMAIN steps[w]} \ {doing[w]} :
         Total([i \in OfTool(steps[w], tool) |-> steps[w][i].tokens]) = Tokens(recorded[w], OfTool(recorded[w], tool))

(* What is stored of a run is all it was told, or nothing, and nothing of   *)
(* one that failed (save_workflow, save_usage).                             *)
StoredAsTold ==
  \A w \in Workflows :
    LET stored == {i \in DOMAIN events : events[i].workflow = w}
    IN  IF told[w].persisted
        THEN /\ Cardinality(stored) = Len(recorded[w])
             /\ Tokens(events, stored) = told[w].tokens /\ Failures(events, stored) = told[w].failures
        ELSE stored = {} /\ \A row \in rows : row.workflow # w

(* What a viewer is shown in one place agrees with the others: the list     *)
(* with each run, the list and the totals by run, section and type with the *)
(* calls of the run; tokens outside sections are those of calls for none    *)
(* (list_workflows, get_workflow, and the views of routers/usage.py).       *)
ViewsAgree ==
  \A viewer \in Viewers :
    LET listed  == ListWorkflows(viewer)
        of(w)   == UsageForWorkflow(viewer, w)
        summary == UsageSummary(viewer)
    IN  /\ listed = UNION {GetWorkflow(viewer, w) : w \in Workflows}
        /\ \A row \in listed : Tokens(events, of(row.workflow)) = row.tokens
        /\ \A run \in UsageByRun(viewer) :
             /\ run.saved /\ \E row \in listed : row.workflow = run.workflow /\ row.tokens = run.tokens
             /\ run.other = Tokens(events, OfSection(events, of(run.workflow), NoTag))
        /\ summary.tokens = Total([w \in Workflows |-> Tokens(events, of(w))])
        /\ summary.tokens = Total(summary.by_type)
        /\ summary.workflows = Cardinality({w \in Workflows : of(w) # {}})

(* Calls of two runs at a time are told, stored and shown as they were made *)
(* (usage.py, save_workflow, routers/usage.py).                            *)
LedgerTrue == RecordsAreTrue /\ StoredAsTold /\ ViewsAgree
=============================================================================
