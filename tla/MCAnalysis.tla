----------------------------- MODULE MCAnalysis -----------------------------
(* An instance of Analysis for TLC.                                        *)
EXTENDS Analysis, TLC

CONSTANTS r1, r2, r3, blank, noParent, notStated, today, nothing, v1, v2, url1, url2, noFile,
          w1, w2, ann, ben, noJob, noTag

Sect(key, aliases, low, high) == [key |-> key, aliases |-> aliases, low |-> low, high |-> high]

Weights == [requirement_coverage |-> 35, quality |-> 20, solution_fit |-> 15, completeness |-> 15,
            historical_similarity |-> 15]

-----------------------------------------------------------------------------
(* Bids.                                                                   *)

Default == [sections |-> <<Sect("pricing", <<"Cost">>, 100, 200), Sect("team", << >>, 100, 200)>>,
            weights |-> Weights, offerings |-> << >>]

(* A profile that extends the default one, and two edits of it: "team" and  *)
(* "cost" are given to other sections, and the file extends itself.        *)
Tenant(parent, own) == "default" :> [parent |-> noParent, own |-> Default]
                    @@ "tenant"  :> [parent |-> parent, own |-> own]

Catalogue == <<"cloud", "data">>

SomeFiles == Tenant("default", [offerings |-> Catalogue, weights |-> [quality |-> 0]])

SomeEdits ==
  { Tenant("default", [offerings |-> << >>,
                       sections |-> <<Sect("staff", <<"team">>, 300, 400), Sect("cost", << >>, 10, 50)>>]),
    Tenant("tenant", [offerings |-> Catalogue]) }

Slugs == "Cost" :> "cost" @@ "cost" :> "cost" @@ "pricing" :> "pricing" @@ "team" :> "team"
         @@ "staff" :> "staff" @@ "full_document" :> "full_document"
         @@ "notes" :> "notes" @@ "executive_summary" :> "executive_summary"

SharedWords == r1 :> ("cloud" :> 3 @@ "data" :> 3) @@ r2 :> ("cloud" :> 0 @@ "data" :> 1)
               @@ r3 :> ("cloud" :> 0 @@ "data" :> 0)

Text(words, exact, near) == [words |-> words, exact |-> exact, near |-> near]

SomeBids == { [kind |-> "proposal_generation", statements |-> <<r1, r1>>, fast |-> FALSE,
               sections |-> <<"Cost", "pricing", "team">>, document |-> NoText],
              [kind |-> "proposal_generation", statements |-> <<r1, r2>>, fast |-> TRUE,
               sections |-> << >>, document |-> NoText],
              [kind |-> "document_match", statements |-> <<r2>>, fast |-> FALSE,
               sections |-> << >>, document |-> Text(150, {r1}, {r2})] }

SomeBriefs == { <<r1, r2, r3>>, <<blank, r1, r1>>, << >> }

Match(id, code, coverage) == [id |-> id, code |-> code, coverage |-> coverage]

SomeComparisons == { << Match(1, "cloud", "full"), Match(2, "none", "full"), Match(3, "data", "full") >>,
                     << Match(1, "cloud", "full"), Match(1, "data", "partial"), Match(2, "data", "full") >>,
                     << Match(2, "other", "full"), Match(1, "data", "partial") >> }

SomeTexts == { Text(40, {r1}, {r2}) }

SomeRubrics == {700}

SomeEvidence == { <<800, -100>> }

-----------------------------------------------------------------------------
(* Conversations.                                                          *)

Basic(name, relationship, urgency, date) ==
  [client_name |-> name, existing_relationship |-> relationship, urgency_statement |-> urgency,
   date_opened |-> date]

SomeTalks == { [overview |-> Basic("acme", "New logo", "by March", blank), points |-> 105,
                mentions |-> "cloud" :> 3 @@ "data" :> 0],
               [overview |-> Basic(blank, "Unknown", blank, "2024-05-01"), points |-> 35,
                mentions |-> "cloud" :> 0 @@ "data" :> 1] }

Stage(name, max) == [name |-> name, max |-> max]

SomeProfiles == { [Unset EXCEPT !.categories = <<"buyer", "user", "legal">>, !.offerings = <<"cloud", "data">>,
                                !.stages = <<Stage("ready", 90), Stage("early", 30), Stage("first", 30)>>],
                  [Unset EXCEPT !.categories = <<"buyer">>], Unset }

SomeRelationships == {"New logo", "Existing customer", "Unknown"}

SomeOverviews == { Basic("acme inc", "a friend", blank, blank),
                   Basic(blank, "Existing customer", "this quarter", "2024-06-01") }

Framing(problem, urgency) == [problem_statement |-> problem, urgency_statement |-> urgency]

SomeFramings == { Framing("slow", notStated), Framing(blank, "now"), Framing(notStated, blank) }

Buyer(score, identified, missing, people) ==
  [score |-> score, identified |-> identified, missing |-> missing, people |-> people, gaps |-> <<blank, "budget">>]

SomeBuyers == { Buyer(250, <<"user", "guest", "user">>, << >>, << >>),
                Buyer(45000, <<"guest">>, <<"guest">>, <<"legal", "guest">>),
                Buyer(95500, << >>, <<"buyer", "legal">>, <<"user">>),
                Buyer(-1000, << >>, << >>, << >>) }

SomeFits == { [score |-> 1000, matches |-> <<blank>>], [score |-> 130000, matches |-> <<"cloud">>] }

-----------------------------------------------------------------------------
(* Markets: the sites of five companies, and articles.                     *)

TwoFacts == {"price", "review"}

Found(price, review) == [price |-> price, review |-> review]

Site(c, href, facts) == [company |-> c, content |-> FALSE, href |-> href, facts |-> facts]

None == Found(nothing, nothing)

SomePages == { << Site(1, url1, None), Site(2, url1, Found(v1, nothing)), Site(3, url1, None) >>,
               << Site(2, url2, Found(v2, v1)), Site(4, url1, None) >>,
               << [Site(3, url2, Found(v1, v1)) EXCEPT !.content = TRUE], Site(0, url2, Found(v1, v1)),
                  Site(5, url1, None) >> }

SomeReadings == { Found(v2, nothing), Found(v1, v2) }

SomeSearches == { [offerings |-> <<"cloud", "data">>, summary |-> FALSE],
                  [offerings |-> <<"cloud">>, summary |-> TRUE] }

-----------------------------------------------------------------------------
(* Uploads: every file of at most four lines of some kinds, and some of two. *)

Heading(title) == [title |-> title, lengths |-> << >>]
Words(lengths) == [title |-> notStated, lengths |-> lengths]

SomeLines == {Heading("Cost"), Heading("pricing"), Heading("team"),
              Words(<<30>>), Words(<<300, 199>>), Words(<<380>>), Words(<<12, 1000, 1>>), Words(<<501>>)}

OneFile == {<<lines>> : lines \in UNION {[1..n -> SomeLines] : n \in 1..4}}

TwoFiles == {<<noFile, << Words(<<500>>), Heading("team"), Words(<<20, 19>>) >>, noFile>>,
             << << Words(<<30>>) >>, << Heading("Cost"), Words(<<60>>), Heading("full_document"), Words(<<50>>) >> >>,
             << noFile >> }

SomeUploads == OneFile \cup TwoFiles

SomeUploadProfiles == {Load(SomeFiles, "tenant")} \cup {Load(f, "tenant") : f \in {e \in SomeEdits : e["tenant"].parent = "default"}}

-----------------------------------------------------------------------------
(* Exports: proposals of each layout, with and without an id; one comes     *)
(* twice, and one goes to the front in an edit.                            *)

Entry(key, length, text) == [key |-> key, length |-> length, text |-> text]

Proposal(id, layout, entries) == [id |-> id, layout |-> layout, entries |-> entries]

AsObject == Proposal(notStated, "object", << Entry("Cost", 30, "a"), Entry("pricing", 90, "b"), Entry("cost", 20, "c") >>)
AsList   == Proposal("x", "list", << Entry("team", 90, "d"), Entry("team", 90, "e"), Entry("Cost", 0, "f") >>)
AsFields == Proposal(notStated, "fields", << Entry("notes", 10, "g"), Entry("title", 90, "h"),
                                             Entry("pricing", 80, "i"), Entry("team", 79, "j") >>)
Nameless == Proposal(notStated, "fields", << Entry("title", 90, "k") >>)

SomeExports == { <<AsObject, AsList, Nameless, AsFields>>, <<AsFields, AsObject, AsList>>,
                 <<AsList, AsObject, AsList>>, <<AsList, AsList>> }

NotesToPricing == "notes" :> "pricing"

-----------------------------------------------------------------------------
(* Accounts: two runs, of a proposal, a market or a revision.               *)

TwoWorkflows == {w1, w2}

EqualWorkflows == Permutations(TwoWorkflows)

Job(type, owner, tools) == [type |-> type, owner |-> owner, tools |-> tools]

SomeJobs == { Job("proposal_generation", ann, {"structure_request", "generate_proposal_sections"}),
              Job("market_research", noTag, {"market_research"}),
              Job("revision", ben, {"revise_section"}) }

SomeDrafting == [generate_proposal_sections |-> <<"pricing", "team">>, revise_section |-> <<"team">>]

ResearchTools == {"market_research"}

SomeViewers == { [owner |-> ann, restricted |-> TRUE], [owner |-> ben, restricted |-> TRUE],
                 [owner |-> ann, restricted |-> FALSE], [owner |-> noTag, restricted |-> FALSE] }
=============================================================================
