# Verification of the RFP agents service

TLA+ models of the proposal service in this repository, TLC configurations that
check them on small instances, and TLAPS proofs for every value of the
constants. Code paths below are relative to the backend (`src/app/`) unless
they start with `web/`, `ui/`, `scripts/` or `rfp_mistral/`. Every modelling definition is tied to the
lines it stands for in `PROJECT.json` under `map`.

## 1. The system

| component | code | state it keeps | operations | interacts with | what makes it correct |
|---|---|---|---|---|---|
| Agentic runtime | `agentic/runner.py`, `supervisor.py`, `state.py`, `orchestration/orchestrator.py` | one `WorkflowState` per run: intent, plan, results by tool, trace, budget, replans | pick an intent, make a plan, run a step, decide next, decide done, respond | LLM service, run stream (trace events), run store | "completed" is true of the work done; the limits hold; every run ends |
| Domain agents and tools | `agentic/tools.py`, `agents/*`, `services/coverage.py` | results written into the run's state; section threads of the compound tool | structure, compare, retrieve, draft, validate, score, revise, analyse a conversation | LLM service, retrieval, profiles, events | scores say what was matched and drafted; nothing found by one agent is lost by the next |
| Domain profiles | `domain/profile.py` | profile files, read again by every agent | load, extend, merge, look up a section | agents | inheritance ends and merges in order; edits during a run do no harm |
| Market research | `services/market_research_service.py` | none beyond a request; threads for the rows | search, rank, screen, enrich | external search, web sites, LLM service | no vendor is invented or dropped; facts are kept |
| Run stream, server | `api/routers/streams.py`, `agentic/events.py` | one queue per streamed run; a daemon worker thread | start, emit, put the outcome, deliver | runtime, tools, browser | one outcome, last, after the run was stored; a lost client does not stop the run |
| Run stream, browser | `web/src/hooks/useRunStream.ts`, `lib/sse.ts` | phase, result, steps; one abort controller per run | start, reset, read events, poll for a stored run | server, run store | what is shown is real; the screen never stays at "running" |
| Run store and usage | `services/run_store.py`, `llm/usage.py`, `db/models.py` | workflow runs, sections, revisions, usage events; usage contexts of threads | save a run, a revision, its usage; list, read, total by run, type and section | database | a revision history without gaps or duplicates; honest `persisted` flags; usage counted once |
| LLM service | `llm/service.py`, `groq_client.py`, `json_utils.py` | usage records | complete, complete_json, repair, recovery from refused schemas and cut-off answers | rate limiter, response cache, provider | bounded attempts; the answer parses or is an error |
| Rate limiter | `llm/rate_limiter.py` | per model: request and token counters by minute, one pause; in Redis or in memory | acquire, settle, pause, observe headers | LLM service, Redis | limits hold per window; counters account for what was spent; pauses are respected |
| Response cache | `llm/cache.py`, `core/redis.py` | entries in Redis and in memory; the Redis connection and its last failure | get, put, reconnect | LLM service, rate limiter | a refreshed answer is not followed by the one it replaced |
| Ingestion | `services/ingestion_service.py`, `ingestion/*` | documents, section and solution types, chunks | read files, split, chunk, ingest a batch, skip known ids | database, embedding model | no text is lost; known records are skipped; a batch is stored whole or not at all |
| Retrieval | `services/retrieval_service.py`, `tools/retrieval_tool.py` | none | relaxed search | database | the reported filters are those that found the results |
| Bulk loading | `rfp_mistral/data/import_proposals.py`, `scripts/load_proposals.py` | a file of records; the library | import an export, load it in batches, run either again | ingestion | after any stop and rerun, every record is loaded, and once |
| Sign-in | `api/routers/auth.py`, `core/auth_crypto.py` | users, mailed codes, secrets, failure counts | sign up and in, send and check a code, second factor, Google | mailer, database | a code that reached the person works; a factor is accepted once |
| Access and solutions | `core/access.py`, `api/deps.py`, `services/solution_store.py` | solutions by owner, unique names | list, create, update, delete | sign-in, database | people change what is theirs, and an answer says what was done |
| Streamlit interface | `ui/app.py`, `ui/pages/*`, `ui/utils/*` | `st.session_state`, widget state; scripts rerun from the top at every click | forms, calls to the API, totals, PDFs | the API | what is shown, totalled and printed belongs to the call it came from |

The rest is rendering (`web/src/pages`, the Streamlit theme), configuration and
schemas, document formatting, migrations, and offline training scripts.

**Behaviours that are hard.** Concurrency: a worker thread per streamed run,
thread pools of sections and of vendors inside a tool, several API processes that share a
database and Redis, a browser whose older requests are still in flight, and Streamlit
scripts cut by the next click. Failure: model answers that are wrong or
missing, tools that fail and are run again, Redis that comes and goes,
transactions that roll back or deadlock, mails that fail, streams that break, a server that dies.
Ordering: outcome against progress events, storing against announcing,
reading a maximum or looking up an id against inserting it. Staleness: profiles edited during
a run, rows read before another request writes them, widgets that remember. Time: windows and
deadlines of the limiter, pauses, expiry of codes and cache entries, polling that ends. `PROJECT.json` lists each
hazard with its line and with the properties that watch it.

## 2. The modules

| module | what it models | code it follows |
|---|---|---|
| `WorkflowContract` | abstract: what a run promises to its endpoint | none, it is the promise |
| `AgenticRun` | the plan-execute loop and the supervisor's decisions | `runner.py`, `supervisor.py`, `_safe_run`, `_status` |
| `AppendOnlyHistory` | abstract: a section's history as a log with truthful answers | none |
| `RevisionHistory` | concurrent revise requests on one section | `run_revision_workflow`, `load_section`, `save_section_revision` |
| `RateLimiter` | one model's limiter, with the calls that use it | `rate_limiter.py`, `_call_once` |
| `EventStream` | abstract: what the reader of a stream may rely on | none |
| `RunStream` | one streamed run on the server, with its section threads | `streams.py`, `events.py`, `_generate_proposal_sections` |
| `RunRecovery` | the browser's hook over several runs | `useRunStream.ts`, `sse.ts` |
| `LlmCall` | equal requests to the model, with cache, Redis connection and provider | `service.py`, `cache.py`, `redis.py`, `groq_client.py` |
| `Ingestion`, `Retrieval`, `Library` | concurrent ingest requests; a search by attempts; the two together | `ingestion_service.py`, `pipeline.py`, `retrieval_service.py`, `retrieval_tool.py` |
| `SignIn` | concurrent requests on one account | `auth.py`, `auth_crypto.py`, `mailer.py` |
| `Solutions` | concurrent requests on one library of solutions | `solution_store.py`, `solutions.py`, `access.py` |
| `Session` | a browser session of the Streamlit interface | `ui/app.py`, pages 1, 2, 3, 5, 7, `token_usage.py`, `pdf_export.py` |
| `IntentForm` | the form of the intent page | `ui/pages/4_intent_detection.py`, `profile.py` |
| `Accounts` | the four above as one system | |
| `Profiles` | operators: loading, merging and reading profiles | `domain/profile.py` |
| `Collections` | operators: parts of sequences, changes of functions and sums, in terms of sets, which the provers can reason about | |
| `BidAgents` | operators: what the agents of a bid compute | `agents/*`, `coverage.py` |
| `Bid` | a proposal or document-match request and its stored run | `tools.py`, `orchestrator.py`, `save_workflow` |
| `Deal` | the analysis of one conversation | `intent_detection.py`, `buyer_intelligence.py`, `product_fit.py`, `problem_framing.py` |
| `Research` | one search for vendors | `market_research_service.py` |
| `Upload` | uploaded files cut into sections and chunks | `documents.py`, `pipeline.py`, `ingestion.py` |
| `BulkLoad` | an export imported and loaded in batches, with stops and reruns | `import_proposals.py`, `io.py`, `load_proposals.py` |
| `Ledger` | usage of concurrent runs: recorded, told, stored, shown | `usage.py`, `runner.py`, `run_store.py` |
| `Analysis` | `Bid`, `Deal`, `Research`, `Upload`, `BulkLoad` and `Ledger` as one system | |
| `...Proofs` | theorems about the modules they extend (`RunStreamProofs`: both ends of the stream) | |
| `MC...` | constants for TLC | |

`Library` instantiates `Retrieval` over the chunks that `Ingestion` has committed; `RunStream`
implements `EventStream`, which is what `RunRecovery` takes the server for; `Bid` and `Deal` share
`BidAgents` and `Profiles`, and `Upload` and `BulkLoad` share `Profiles`. `Accounts` and `Analysis` put components side by side
that do not touch each other's state: the first step of a behaviour chooses the component, and the others
stay as they are. One run then checks them all without their product.

**AgenticRun.** `pc` is the place in `_execute` and its helpers; `plan`, `results`,
`steps_taken`, `replans` and `done` are fields of `WorkflowState`; `how` is who made the plan ("model" or
"reference"), as `make_plan` returns it and the trace records it; `failed` is
what `failed_tools()` computes from the trace. Each piece of the loop body is an action. A model
answer is any answer that passes the code's validation, or no usable answer, in
which case the code's fallback rule is taken. Tool arguments and results are reduced to ok, partial or failed.

**RevisionHistory.** Each request has a program counter through `run_revision_workflow`; the
database is `revisions` (committed rows), `latest` (the section's pointer) and
the requests that have inserted but not committed. An insert waits for an
uncommitted row with its number (`Locked`) and conflicts with a committed one (`Taken`), as PostgreSQL enforces
the unique constraint. Any step of saving may meet a database error, which rolls back.

**RateLimiter.** Time counts ticks, `Window` of them to a minute. A call reads the clock once per
attempt (`Look`), may be slow, and then acquires against the counters of the
window it read. A Redis script and a locked section of the memory store are one
step each; `set_pause` in Redis is a read and a write. `Redis = "flaky"` lets every
operation fall over to memory. The memory store's clearing of all counters at
10,000 keys is in `Granted`, with the limit as the constant `MaxKeys`.

**RunStream and RunRecovery.** `RunStream` has the worker thread (`stage`), the section threads (`section`), the
queue, the response body (`Deliver`) and the client's connection. Leaving the pool's `with` block waits for all
sections, also on an exception. The client may disconnect and the server may die at any step. `RunRecovery` models
`start()`, `reset()`, the abort controller, the reading loop and `recoverRun` for runs started one after the
other; a poll in flight is not aborted, and a sleep that starts after the abort does not hear it.

**LlmCall.** Each call looks in the cache (Redis, or the memory of its process), asks the provider with a schema, in object
format or plainly, is refused, cut off or answered. One call of the provider's client sends the request again by itself up to `llm_max_retries` times
(`groq_client.py:54`; the constant `MaxRetries`) when it is refused for a while, times out or does not connect, and only the last outcome is seen. The call then repairs an answer that does not parse, and stores what
it got. An answer is known by the call that asked for it, so that its age can be compared. Entries may expire and be
evicted at any time, and an operation on Redis may fail, after which the connection rests.

**Library.** A request is one transaction at READ COMMITTED: look up the ids, get or create the
types in order (waiting for another's uncommitted type of the same code, failing on a committed one it had not
seen, or killed when two wait for each other), write documents and chunks, commit or roll back. The types, documents and chunks of a request
are invisible to others until it commits. A search repeats its query with fewer filters until enough chunks come
back; each attempt sees what is committed then, and may find any of the matching chunks up to its limit: the HNSW index on the embeddings (`alembic/versions/0001_multi_agent_platform.py:241`)
is scanned approximately and filtered afterwards.

**SignIn.** A request reads the account and the codes, then writes the columns it changed, then answers; a mail is sent between
its two transactions. `Tick` moves time past cooldowns, expiries and locks. A code of the app is the secret and
the step it is of; a code on paper is one of the list it came with. The ghosts `before`, `emailed`, `accepted` and `removers`
say which request was over before another began and what came of it.

**Solutions.** Each request loads, checks, flushes (waiting for row locks and for uncommitted equal names), commits and, for an
answer, reads the row once more. Each field carries the request that wrote it. Roles change between steps.

**Session and IntentForm.** Streamlit runs the page's script from the top after each click; a click that comes while the script
waits for the API cuts it at its next access of the session (`Cut`). `Session` keeps the results, totals and PDF metadata of the session and
knows each answer by the call it came from. `IntentForm` keeps three things for each field: the value of the session, what the widget was first
shown with, and what the person typed; the widgets have no keys, so a new default makes a new widget.

**Profiles, BidAgents, Bid, Deal, Research, Upload.** The agents are operators over requirements, matches, drafts and profiles; scores are integers in
thousandths, rounded to the nearest as `round(..., 3)` does (`Rounded`). `Bid` runs them in the order of the reference plan. What the model answers is a choice from small sets that
include repeated, blank, unknown and out-of-range values; each tool may fail, the embedding model may be lost, and profile
files may be edited between any two steps. Plans made by the model, and replans that run earlier tools again, are left to `AgenticRun`. `Deal` keeps of a product fit its mode, score, stage and matches; in degraded mode these are the profile's offerings that the transcript mentions. `Research` has the searches in turn, then
the enrichment of the rows, which work side by side. `Upload` has the sections and chunks of each file with sentences known by their place.

**BulkLoad.** The import empties the file of records and writes it record by record; the load reads it all and ingests it batch by batch, each
in one transaction and with the profile as it is read for that batch. `Stop` is a failure or a kill at any step, which may leave the file cut off within a record; the next start is from the beginning, and
the export may have been edited. A record without an id is known by its place in the export.

**Ledger.** Every thread has the usage context it was started in: a copy for a section thread (`copy_context` in the caller), a fresh one for a
vendor thread. A call appends a record to the context of its thread; the run totals what its own context holds, is stored
or not, and is then seen in the lists and totals by viewers with and without restrictions.

## 3. The runs

| run | instance | what it shows | distinct states |
|---|---|---|---|
| `agentic_drafting` | drafting and revising; model plans of up to 2 of 4 tools; budget 5, 2 replans | whatever the planner answers, "completed" means the required work was done, and the run implements `WorkflowContract`; what a tool did ok is replaced only in a plan of the model's | 68,441 |
| `agentic_endpoints` | all five endpoints, shipped budget 12 and 2 replans, intent chosen by the model, fallback plans, a registry without one planned tool | every run ends | 40,000 |
| `revision_history` | three requests, one of which supplies its text | numbers are unique and gapless, the pointer is the newest, bases are earlier, `AppendOnlyHistory` is implemented, everyone is answered | 37,413 |
| `revision_persisted` (violated) | the same | a lost revision is answered `persisted: true` | |
| `rate_memory` | three calls, one larger than the token limit, two windows, 429s | request bound, token accounting, explained excess | 927,262 |
| `rate_flaky_redis` | two calls, Redis failing over at any operation | every call is decided | 323,990 |
| `stream` | four sections, two at a time, two rounds, one trace | no orphan threads, the first section alone, stored before told, `EventStream` implemented, streams end, runs outlive streams | 387,291 |
| `recovery` | two runs, two polls each | what is shown is real, one live call, stale results only from a poll in flight, no run stays at "running" | 57,060 |
| `llm_call` | three equal JSON requests in one process under any cache policies; Redis may fail at any operation | a request is sent a bounded number of times, the client's own retries included; with Redis up, a refreshed answer is never followed by an older one | 1,768,158 |
| `library` | three concurrent requests that share ids and types, in opposite orders; one search of two filters | a request is stored whole or not at all, later requests skip known ids, chunks stay with their text, reported filters are true, every request ends | 294,773 |
| `accounts` | three requests of any kind on an account (four times, two tries a code), or ten demands of three people on two solutions, or a session of three answered calls, or a form with two analyses | a mailed code stays usable, a factor is accepted once, answered edits are in the store, runs and totals are those of their calls, no two edits of a field in a row are lost, but for the overlaps the properties name | 1,641,215 |
| `analysis` | a bid, a conversation, a market search of five companies, uploads (every file of at most four lines of eight kinds, and three of several files), five starts of the import and load of four exports in batches of two, or two runs with two calls and two tools between them, seen by four viewers | scores are explained by matches and drafts, no draft is lost, findings and the product fit reach the answer, vendors and facts are kept, text is in its chunks, loads may be stopped and run again, usage is true | 828,012 |

**Bounds, and why they suffice.** `AgenticRun`: requirements involve at most two
groups of tools, so a plan of two steps can satisfy, miss one or miss the other;
two replans give a failure, a recovery and a second failure; the shipped budget
is used where plans are the reference ones. `RevisionHistory`: two requests can
collide, a third can wait behind the loser of a collision. `RateLimiter`: three
calls can fill a window of two and overflow it; ticks up to `MaxNow` give two
windows, with the previous one weighted fully and by half. The oversized call is a constant of its own, and the
other two are interchangeable, which makes the symmetry of `rate_memory` sound.
`RunStream`: one section first and three for two threads, so that one
waits in the pool; two rounds for a replan. `RunRecovery`: a run and its successor;
two polls give a miss and a last one. `LlmCall`: a refresh, a call that overlaps it and one that begins after it;
one process is enough, since with Redis up the memory of a process is not read, and calls that fall back to memory are outside `RefreshWins`;
`MaxRetries` is 1 (3 as shipped), which tells a call of the client from what it sends.
`Library`: two requests in opposite orders can wait for each other, the third meets what one of them has left; one of them carries an id twice,
one carries none. `SignIn`: two requests overlap, the third comes after both or between; `MaxNow`
lets a code expire once. `Solutions`: the demands swap two names, take one again, edit and delete the same row by two people. `Session`: the outcomes
let one of two sections fail, three calls let a later run be shown after an earlier one was cut. `IntentForm`: the findings are full, partial and empty.
`Bid`: up to three requirements, so that a share (two of three) has to be rounded. `Bid`, `Deal`, `Research`: two offerings, facts and mishaps; lists with a duplicate and a stranger; a profile without categories or stages. `Upload` uses the real chunk sizes
(500, 75, 40, 400) with sentences at, just below and above them. `BulkLoad`: five starts give an import, a load that is stopped, one that ends, and an import and a load of an edited export, with an id twice in one batch or in two. `Ledger`: two runs whose owners differ, one of them may have none.
Symmetry is used where no run has a liveness property and the permuted values differ in nothing else.

**Fairness.** `AgenticRun` is a synchronous loop whose model calls time out: weak
fairness of `Next`. `RevisionHistory`: each request's thread goes on, and the database
releases a waiting insert when the other transaction ends. `RateLimiter`: time
passes and each waiting or sending call goes on (sleeps and provider calls are
bounded); no call is obliged to start. `RunStream`: the worker, the section threads and
the response body go on; disconnecting and dying are never obliged. `RunRecovery`: the
hook's continuations run, runs end and the server closes a stream whose outcome it
told; nothing is expected of the user or of the network, and storing a run is not guaranteed.
`Library`: the thread of each request that has begun goes on, which includes the database's finding of deadlocks. `LlmCall`, `Accounts` and `Analysis` are
checked for safety only.

## 4. What is proved

All theorems hold for every value of the constants that satisfies the named
assumption of the module.

* **AgenticRun**: `TypeCorrect` (with the budget and the replan limit), `CompletedIsTrue`,
  `RunImplementsContract`, `OkResultsStay`, from `Invariance`. `CompletedMeansRequired` alone is not
  inductive: a completed status is decided long after the plan was checked. The
  strengthening carries the check along: `PlanCovers` says that while no call has
  failed, the plan still to run and the tools already ok cover the
  requirements; `EndCovers` turns this into the required work when the loop is left;
  `PlanShape` gives that the end of the plan is not reached early; `CallsCounted` and `StatusTruthful` tie the
  status to the trace. The refinement maps a tool step to `Call`, `Respond` and `FatalError` to `Conclude`,
  and every other step to a stutter. `OkResultsStay` holds for any planner
  model: while a plan of the supervisor's own runs, `StepsAreFresh` says that the tools still to run are distinct and none of them is executed ok, whatever was planned, failed and was
  planned again before; a plan that the model wrote may name an executed tool again (section 5).
* **RevisionHistory**: `TypeCorrect`, `HistoryStaysConsistent`, `BasesAreEarlier`, for any number of
  requests. The invariant adds that a request about to insert holds a number whose predecessor is
  committed, and that at most one request has inserted without having committed, holding the next
  free number; the unique constraint keeps it so. `HistoryIsAppendOnly` shows
  that `AppendOnlyHistory` is implemented: the committed numbers are exactly 1..n (`LogComplete`), so a
  commit appends to the log, a lost or empty revision is a refusal, and every other step is a stutter.
* **RateLimiter**: `TypeCorrect`; `RequestsWithinLimit` under `EnoughKeys` (the memory store may hold all counters: without it the
  store forgets the current window); `PausesAreKept` in every store, Redis and its failures included, as long as no two calls set a pause in Redis from readings that overlap (`SetsOverlap`): what a call has read is then still
  the pause when it writes (`ReadIsCurrent`), so that race is the only way a pause is cut short; `TokensAreExplained` under
  `EnoughKeys` unless Redis is flaky (then a call may settle in another store than it reserved in, see 5). `IInv` says
  that a window's counter is the number of calls admitted into it and that a call that has not
  passed its limits holds no reservation; the arithmetic of the weighted window is in `OneMoreFits` and `MoreTokensFit`. `TInv` adds that a call past its limits
  holds its reservation and which outcomes lead to a pause, so that a call counts for its estimate until it settles and for what it spent from
  then on. A sum of tokens is stated as the number of the tokens taken (`Tokens`, a disjoint union), which is proved without recursion.
* **RunStream**: `TypeCorrect` (with the bound on sections in work), `NoOrphanThreads`,
  `FirstIsAlone`, `StoredFirst`, and `StreamKeepsItsPromise`: the server's stream implements `EventStream`.
  `StageSections` says which sections may be waiting or in work at each point of the worker; hence a
  section event is put on the queue only while drafting lasts, when no outcome has been put (`StageSent`). With
  `StageSaved` this gives the order of storing and telling, and `QueueShape` (nothing but the end marker behind
  an outcome, the end marker last) carries the promise through the queue to the reader.
* **RunRecovery** (in `RunStreamProofs`): `RecoveryTypeCorrect`, `ShownStaysReal`, `OneCallIsLive`, `StaleIsFromPoll`. The invariant adds that runs are started in
  order (so the run on the screen is the last one started), that an abort reaches a call that reads its stream at once, so that only one
  that sleeps or polls can have been aborted and go on, and that polls are counted.
* **LlmCall**: `TypeCorrect`, `AsksStayBounded`, `RefreshAlwaysWins`, for any calls in any processes. Each reason to send a request again is
  used once (`Shaped`): the schema is given up once and the length raised once, and each of the three calls of the client that this leaves is sent `MaxRetries` + 1 times at most. For refreshes, the calls over before another are over for good,
  and Redis, while it works, holds nothing older than a refresh that is over.
* **Library**: `ReingestIsSkipped`, `ChunksStayOwn`, `IngestsAllOrNothing`, `FiltersStayTruthful`, for any concurrent requests
  with any records. What a request did not
  find, no request over before it has stored (`FreshNotStored`), and its rows are those of its records (`RowsMatch`). `AllOrNothing` needs the way a request writes (`StoreInv`):
  its rows are the documents of the new records before the one at hand (`Pending`), a code of that record is stored, inserted by the request or
  still on its list (`Finding`), and nothing of it is among the stored documents before its commit (`Stored`). A finished search has
  only what its last filters match, whatever is stored meanwhile and however many chunks the index leaves out.
* **Accounts**, each part with an inductive invariant of its own; the four parts share no state (`StepsOfParts`).
  *Sign-in*, for any number of requests: `CodesStayUsable` from `CodesInv` (a request that replaces the codes with nobody else at work since it began
  finds every code there is among those it will delete, and its own is then the only one); `SecondFactorsSound` from `MfaInv`, which says of a request at
  work that has no rival what it has seen: the last step and the paper codes as they are (`SeesFactors`), the secret (`ConfirmsSecret`) and whether two-step
  sign-in is on (`SeesEnabled`); and that an accepted factor stays spent unless a rival put it back (`SpentForGood`).
  *Solutions*: `LibraryOfSolutionsSound` from `SolutionsInv`: each column is what its author asked for or was there before (`MadeByWriter`), a request holds the row
  it loaded with the columns it changes (`WorksOnOld`, `WritesOwn`), and what it has flushed is on the shelf but for later writers (`HasWritten`).
  *Session*: `SessionsSound` from `SessionInv`: what the running script has left to do (`rest`) tells which of filing, counting and
  showing has been done for the call at hand (`Counting`, `Filing`, `Showing`), and what a cut left out is in `lost`.
  *IntentForm*: `FormsSound` from `FormInv`: a field whose edit was lost shows what its widget was made with (`LostEditShown`), so the next edit is not lost.

* **Analysis**, the workflows, in `AnalysisProofs`. *Bid*, for any profile files and edits of them, any answers of the model and any failures: `BidScoresAreExplained` and
  `NoDraftIsLost` from `BidInv`. What a tool uses was made by tools that are behind it in the plan and are not called again (`PlanKept`), so a requirement, a match or a section stays what it
  was until it is scored; the sections to draft have one key each (`PlannedIs`) and are drafted and validated in the order of their keys (`DraftingInOrder`, `SectionsInOrder`), so
  each is found by the key it was asked for and a stored row belongs to one section. `Ends` says what any tool leaves alone. The arithmetic is in `FitOfSummary` (when no requirement is
  a gap, each has a match that counts, however often it was matched; when each was matched at most once, those that are no gap map one to one to the matches that count, and rounding adds half a thousandth at most) and `DraftsAreWorth`.
  *Deal*, for any profiles, talks, answers of the model and failed agents: `ConversationIsSound` from `DealInv`, which says of each finding that it is of one profile: the recognised and the missing roles
  split its categories (`RolesAreSplit`), the stage is one that the score fits in (`StageForFits`), and the score is within 0 and 100 (`RatingIs`), so rating and score agree. `FitIs` says
  the same of the product fit, whose matches in degraded mode are the mentioned offerings of that profile and make up its score.
  *Research*, for any offerings, pages and readings: `ResearchIsSound` from `ResearchInv` (what is known of a company is a list of offerings and finite sets of sources). The companies are in a total order
  (`BeforeOrders`), the ranking has each one at the place that the number before it gives (`RankingIs`), so one that is neither answered nor rejected is behind a full answer or behind what is
  screened (`ScreeningLosesNone`); every step lets the hits only grow (`AllGrow`).
  *Ledger*, for any jobs, drafting plans and viewers, and however the threads of runs interleave: `UsageIsTrue` from `LedgerInv`. What the context of a live thread says is known from
  what its run is doing (`ThreadsKnown`): sections are drafted by threads whose context is that of their run, vendors are read by threads that have none, and a run is left when its
  threads have ended, so a call is recorded where it belongs (`CallIsRecorded`) and never in a run that has been told or stored. The tokens of a run's steps of a tool, with those that the tool at
  work has used so far, are those of its records (`StepsAddUp`). The events of a stored run are its records, moved on to a place of the table (`EventsKnown`), so they are counted alike
  (`StoredCounts`). Tokens by run, type and section add up, as what is counted by a key adds up to what is counted (`SumByKey`).
  *Upload*, for any files, profiles, sizes of a chunk and overlaps: `UploadIsKept` from `UploadInv`. The records are those of the readable files among those
  reported, each with the sections its file splits into (`RecordsSoFar`), and what is handed on holds what those files kept and nothing else (`ChunksHanded`). Texts are cut and
  joined by recursive functions over places, of which `Recursion` (an induction on numbers) gives the steps: a state reached from a state by one more sentence. `JoinedPlaces` says that the places of a joined list
  are, one to one, those of its parts, so sections that have no sentence in common have none in common when they are gathered (`GatherIs`, `SplitIs`, `ExtractIs`), and
  a sentence is held once by the chunks of all (`JoinedFills`). `CutsAre` covers a long sentence by its cuts whatever the overlap is, and `AddKeeps` says that after each sentence the chunks done and the one being filled hold all
  so far: what fits, in one piece of one of them (`ChunksHold`).
  *BulkLoad*, for any exports and any size of a batch: `BulkLoadIsSafe` from `LoadInv`. What a load has left is
  the rest of its file, from a whole number of batches on (`LeftIsRest`); its counts are those of what it has stored so far (`CountsTrue`); and every record it is done with
  is in the library, or another of its id was there before it (`IsLoaded`). That a file of an export is a list of records
  with ids and sections (`RecordsAreSequence`) is shown by induction on the numbers.

The proofs need facts about finite sets that the library proves with operator parameters, which the provers here cannot instantiate; `AccountsProofs` derives
what it needs in terms of sets (the least element of a set of numbers, induction over a finite set) from `WellFoundedInduction`. The assumptions on constants are
named in the modules that declare them: `RecordsAssumption` (a batch is a list of records with lists of sections), `ProfilesAssumption` (the default profile
exists and its stages are finite and have integer bounds, as `profile.py` reads them), `StoredAssumption` and `ApiKeyAssumption` (rows that are there at the start have every column
and were not written by the requests to come; creates and edits carry every field of `SolutionIn`), `ClientsAssumption` (a client is never
blank: the page stops with "Enter the client organization.", `ui/pages/1_new_proposal.py:106`), `BatchesAssumption` (an export is a list; a batch
holds a record at least, since `range` refuses a step of 0), `BidsAssumption` (requests, profiles and the model's answers hold lists; a text of the model
has a word, since an empty answer is refused, `llm/service.py:439`, and so has a template), `DealsAssumption` (lists and numbers where profiles, talks and answers have them; the rules do not look for the problem,
`regex_overview`, `agents/intent_detection.py:88`), `SearchesAssumption` (a search needs an offering, `market_research_service.py:319`; companies are numbered), `UploadsAssumption` and
`SizesAssumption` (an upload is a list of lists of lines; a sentence is stripped and not empty, `ingestion/pipeline.py:106`; sizes are natural numbers, that of a
chunk not 0), `LedgerAssumption` (a drafting tool has a section, and drafts in the caller's context what a search never does; a restricted reader
is signed in, `deps.py:27`; the names of sections, of the run's own thread and of a vendor's differ), and the sizes and bounds in `ConstantsAssumption` of `SignIn` and `RateLimiter`.

**Only model-checked**: liveness under fairness and its enabling conditions, which are out of the prover's reach. Every invariant and every action property of a run
is stated by a theorem, those of `RateLimiter` under the hypotheses named above.

## 5. Findings and observations

The violated run is a disagreement between the code and its own words: a revision that is lost is answered
`persisted: true`. `PROJECT.json` quotes the lines. The models also show behaviour that a maintainer may want to know. "Against" names a line that says otherwise.

**Runs and agents**
* A run that uses up its budget may be reported completed without the required work (the one excuse in `CompletedMeansRequired`).
* A replan by the planner model may run a tool again that had succeeded, and leave its failure: the run is then not reported completed (`OkResultsKept` shows that only such a plan does so).
  With `supervisor_llm_planning` off, a replan runs the whole reference plan again, and a tool that had succeeded may be replaced by its failure.
* `AGENTIC_MIGRATION.md` says no failure raises out of `run_agentic`; configuration, authentication and (from tools) rate-limit errors do, as the docstring of
  `tools.py` says; a failure of the model service during planning does too (`supervisor.py:76`).
* A rate limit in one section is swallowed (`tools.py:258`, against `tools.py:9`), and no replan fixes it.
* `clamp_int` reads 1 (of 100) as a share and makes it 100; a NaN score makes it raise. A similarity may be negative (against `scoring.py:3`).
* Duplicate matches push the fit above 1 before scoring clamps it; the fit counts all matches of a requirement, the gaps use the last.
* A profile edited during a run is seen by its later tools. A failed embedding model is not tried again in the same request.
* Market research: fatal LLM errors are swallowed (`market_research_service.py:265`, `:414`); companies beyond twice the limit are never
  screened, even if fewer than the limit remain.

**Usage**
* Vendor threads copy their context inside the pool thread (`market_research_service.py:389`): their calls are missing from the usage of the run (against `usage.py:3`), and they
  use the cache even when the request asks for a refresh.
* A run that raises stores none of its usage (against `ui/pages/8_usage.py:27`). The time of a usage row is that of the row, so a window of days may cut a run at its edge.

**Model calls**
* A cached JSON array is a hit that is repaired again each time (`cache.py:66`). A response that fails the client's own validation is not mapped to an error of the service.
* The limiter admits a call of the client once, while the client may send it up to `llm_max_retries` times more in that place (`groq_client.py:54`, `config.py:131`): `RateLimiter` counts calls, so its
  bounds are of calls, not of what the provider receives.
* When Redis fails, two stores hold cached answers, and an older one than a refreshed one may be served (`RefreshWins` says nothing of calls after a failure).
* `get_redis` does not look again at its last failure after waiting for the lock, so waiting threads try to connect in turn.
* The memory store of the limiter drops all counters at 10,000 keys (`rate_limiter.py:98`, against lines 7–8); a shorter pause set concurrently in Redis may win (`:189`, against 8–9); a
  weighted window lets a burst at the end of a minute be followed by more than the limit within 60 seconds; when Redis fails between acquiring and settling, the
  estimate stays in one store and the correction goes to the other.

**Streams**
* The event queue has no bound and nobody drains it after a disconnect (`streams.py:74`).
* A browser run that was replaced while its poll was in flight may still put its result or its error on the screen of its successor (`StaleOnlyFromPoll` bounds this).
* A connection lost during COMMIT is outside the model: the row may be stored though the code reports it lost (`run_store.py:201`).

**Library**
* A relaxed search may return fewer chunks than the attempt it replaces, since the index is scanned approximately and filtered afterwards; the last attempt's results are returned all the same.
* Concurrent requests can both store a new id; the same id twice in one request gives two documents, with each other's chunks for section keys they share;
  id 0 is never looked up but stored as "0" (against `scripts/load_proposals.py:7` and the ingestion page, which say that known ids are skipped).
* Types created in opposite orders deadlock, and a type created by another request after the look-up fails the whole request; either is rolled back.
* An export that is edited and imported again gives the ids of records without one to others, since they are made of their place (`import_proposals.py:120`): a load then skips a new
  record as known, and keeps the old words. Entries of a list with the same title replace each other in the import, while ingestion joins them.
* Uploads with the same file stem share an id. A file whose sections are all shorter than 40 characters is reported ok but skipped.

**Accounts**
* Concurrent requests for a code can leave two rows; a mail that fails drops all pending codes.
* A setup that overlaps an enable can leave a secret that was never confirmed; a check that overlaps a disable can leave the list of backup codes with two-step sign-in off;
  overlapping checks may put the last step back. Failure counters are read and written back.
* Two concurrent edits of a solution blend field by field; swapping two names in two windows deadlocks in the database, and one answer is a 500 rather than a 409.
  An update of a row deleted meanwhile is a 500, a delete of it a 204.

**Streamlit**
* "Use Revised Version In This Session" (`ui/pages/2_revision.py:171`) is nested in `if submitted`, so its click never applies, and a second revision starts from the session's first text.
* Downloading a PDF reruns the page, and the results shown vanish (they stay in the session). "Sections Generated" counts failed sections too (`ui/app.py:127`).
* A market search without rows stops before its tokens are added (`ui/pages/5_market_research.py:118`). A click during a run may cut the script before the run is the latest, or before its tokens count.
* Intent page: every second consecutive edit of one field is lost (`4_intent_detection.py:352`); a value typed in a widget first shown with another hides an analysis that returns that other value again;
  an edit during an analysis drops its answer; a stage stays when the score is moved by hand; when the API is out during one rerun the stage becomes the lowest of the
  fallback profile and stays so; findings of different conversations are merged (an empty value, and a fit of 0, keep the old ones); Reset keeps the uploaded text.

## 6. Not modelled

* **Plain reads and writes of one row**: the session check and logout, the redirect to Google, the profile, health and document-format routes. Nothing
  interleaves with them that the properties could tell apart.
* **Wording and layout**: prompts, JSON schemas, PDF and Word formatting, headings found in text, the theme, `web/src/pages` and `web/src/components`, the library and usage pages of Streamlit,
  lists shown on the intent page, `raw_text` (which equals the uploaded text when it matters), `readiness_rating` (the score divided by ten). Their correctness is a matter of content.
* **Prices**: they are a function of stored counts and decide nothing.
* **Parsing of PDF, Word and web pages**: external; the models take any lines and any pages of the instance.
* **Migrations, training and notebooks** (`alembic`, the other `scripts` and modules of `rfp_mistral`, `notebooks`): run once by a person or offline, apart from the service.
* **Configuration**: settings are CONSTANTS.
* Coalescing of several Streamlit clicks is one click that waits; a lost COMMIT is left out (see 5).
