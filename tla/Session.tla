------------------------------ MODULE Session ------------------------------
(***************************************************************************)
(* A browser session of the Streamlit interface (ui/app.py, ui/pages).     *)
(*                                                                         *)
(* Every click runs the script of the open page from its top; a button is  *)
(* pressed in that run only, and what the run before has drawn is gone.  A *)
(* script that calls the API blocks.  A click that comes meanwhile waits,  *)
(* and cuts the script where it next draws or touches st.session_state.    *)
(* A draft is known by the call that wrote it, 0 for a section that failed. *)
(***************************************************************************)
EXTENDS Naturals, Sequences, SequencesExt

CONSTANTS Clients,     \* what may be entered as the client organization
          Outcomes,    \* sections a run may come back with: those that failed
          Keys,        \* section keys
          MaxAnswers   \* bound on the answered calls of a session

(* A proposal is not asked for without its client.                          *)
ASSUME ClientsAssumption == "" \notin Clients /\ MaxAnswers \in Nat

VARIABLES page,      \* the page that is open
          signedOn,  \* session_state["authenticated"]
          asking,    \* what the running script has asked the API
          rest,      \* what that script has left to do
          waiting,   \* the click that came meanwhile
          runs,      \* session_state["workflow_results"]
          last,      \* latest_result, latest_pdf_metadata, latest_market_research
          counted,   \* how often each call is in session_state["session_usage"]
          screen,    \* what the page shows of a call, with the PDF it offers
          answers,   \* what the calls were answered (history)
          lost       \* calls whose script was cut (history)

sessionVars == <<page, signedOn, asking, rest, waiting, runs, last, counted, screen, answers, lost>>

Pages == {"home", "proposal", "revision", "match", "market", "search"}

NoQuestion == [kind |-> "none"]
NoClick == [do |-> "nothing"]
Nothing == [call |-> 0]

SessionInit == /\ page = "home" /\ signedOn = FALSE
               /\ asking = NoQuestion /\ rest = << >> /\ waiting = NoClick
               /\ runs = << >> /\ last = [result |-> 0, client |-> "", research |-> 0]
               /\ counted = [n \in 1..MaxAnswers |-> 0]
               /\ screen = Nothing
               /\ answers = << >> /\ lost = {}

InCall == rest = <<"call">>

-----------------------------------------------------------------------------
(* Forms.                                                                  *)

Drafted(run) == {k \in Keys : run.sections[k] # 0}

(* The picker of a revision offers the runs kept, and the sections of the   *)
(* chosen one that have not failed.                                        *)
Selectable == {i \in DOMAIN runs : Drafted(runs[i]) # {}}

HomeForm == IF signedOn THEN {} ELSE [filled : BOOLEAN]

ProposalForm == IF signedOn THEN [client : Clients, filled : BOOLEAN] ELSE {}

RevisionForm == UNION {[of : {i}, key : Drafted(runs[i]), filled : BOOLEAN] : i \in Selectable}

MatchForm == [filled : BOOLEAN]
MarketForm == [filled : BOOLEAN]
SearchForm == [filled : BOOLEAN]

Forms == CASE page = "home"     -> HomeForm
           [] page = "proposal" -> ProposalForm
           [] page = "revision" -> RevisionForm
           [] page = "match"    -> MatchForm
           [] page = "market"   -> MarketForm
           [] page = "search"   -> SearchForm

LogOut == [do |-> "log out"]

(* The theme, the profile, a download, "Use Revised Version": no page does   *)
(* anything for them but run again.                                        *)
Other == [do |-> "other"]

Clicks == [do : {"go"}, to : Pages] \cup [do : {"submit"}, form : Forms] \cup {LogOut, Other}

(* A form that lacks what it needs is turned down; that of the home page    *)
(* signs on and runs the page again.                                       *)
Submit(form) == LET calls == form.filled /\ page # "home"
                IN  /\ signedOn' = (signedOn \/ (form.filled /\ page = "home"))
                    /\ asking' = IF calls THEN [kind |-> page, form |-> form] ELSE NoQuestion
                    /\ rest' = IF calls THEN <<"call">> ELSE << >>

RunPage(click) == /\ page' = IF click.do = "go" THEN click.to ELSE page
                  /\ screen' = Nothing
                  /\ IF click.do = "submit" THEN Submit(click.form)
                     ELSE /\ signedOn' = (signedOn /\ click # LogOut)
                          /\ asking' = NoQuestion /\ rest' = << >>

Click == /\ waiting = NoClick /\ Len(answers) < MaxAnswers
         /\ \E click \in Clicks :
              IF rest = << >>
              THEN RunPage(click) /\ UNCHANGED waiting
              ELSE waiting' = click /\ UNCHANGED <<page, signedOn, asking, rest, screen>>
         /\ UNCHANGED <<runs, last, counted, answers, lost>>

(* The script ends where it is, and the page is run for the click.          *)
Cut == /\ waiting # NoClick /\ ~InCall
       /\ lost' = IF rest = << >> THEN lost ELSE lost \cup {Len(answers)}
       /\ RunPage(waiting)
       /\ waiting' = NoClick
       /\ UNCHANGED <<runs, last, counted, answers>>

-----------------------------------------------------------------------------
(* The answer of a call, and what the page does with it.                    *)

CreateWorkflowRun(form) == [kind : {"proposal"}, client : {form.client}, failed : Outcomes]

(* The text to revise is that of the run as the session has it.             *)
ReviseSection(form) ==
  {[kind |-> "revision", of |-> runs[form.of].call, key |-> form.key, base |-> runs[form.of].sections[form.key]]}

RunMarketResearch == [kind : {"market"}, rows : BOOLEAN]
RunDocumentMatch == [kind : {"match"}]
RetrievalSearch == [kind : {"search"}]

AnswersTo(question) == CASE question.kind = "proposal" -> CreateWorkflowRun(question.form)
                         [] question.kind = "revision" -> ReviseSection(question.form)
                         [] question.kind = "market"   -> RunMarketResearch
                         [] question.kind = "match"    -> RunDocumentMatch
                         [] question.kind = "search"   -> RetrievalSearch

StepsOf(answer) ==
  CASE answer.kind = "proposal" -> <<"keep", "latest", "metadata", "count", "show">>
    [] answer.kind = "market"   -> IF answer.rows THEN <<"show", "count", "research">> ELSE << >>
    [] answer.kind = "search"   -> <<"show">>
    [] OTHER                    -> <<"count", "show">>

Return == /\ InCall
          /\ asking' = NoQuestion
          /\ \/ rest' = << >> /\ UNCHANGED answers
             \/ /\ Len(answers) < MaxAnswers
                /\ \E answer \in AnswersTo(asking) :
                     answers' = Append(answers, answer) /\ rest' = StepsOf(answer)
          /\ UNCHANGED <<page, signedOn, waiting, runs, last, counted, screen, lost>>

Call == Len(answers)

Answered == Last(answers)

(* The sections of an answer as they are generated.                        *)
Generated(n) == [k \in Keys |-> IF k \in answers[n].failed THEN 0 ELSE n]

AccumulateSessionUsage == counted' = [counted EXCEPT ![Call] = @ + 1]

(* build_proposal_pdf leaves out the sections that have no text.            *)
Pdf(client, sections) == [client |-> client, sections |-> {<<k, sections[k]>> : k \in {j \in Keys : sections[j] # 0}}]

(* Mutant: the client entered last comes first.                            *)
LatestMetadata(run) == IF last.client # "" THEN last.client ELSE run.client

PdfMetadata(run) == IF run.client # "" THEN run.client ELSE last.client

RunOf(n) == CHOOSE run \in ToSet(runs) : run.call = n

ShowProposal == [call |-> Call, tabs |-> Generated(Call), pdf |-> Pdf(Answered.client, Generated(Call))]

ShowRevision == LET run     == RunOf(Answered.of)
                    revised == [run.sections EXCEPT ![Answered.key] = Call]
                IN  [call |-> Call, compared |-> <<run.sections[Answered.key], Call>>,
                     pdf |-> Pdf(PdfMetadata(run), revised)]

ShowMatch == [call |-> Call]
ShowMarket == [call |-> Call]
ShowSearch == [call |-> Call]

ShowAnswer == CASE Answered.kind = "proposal" -> ShowProposal
                [] Answered.kind = "revision" -> ShowRevision
                [] Answered.kind = "match"    -> ShowMatch
                [] Answered.kind = "market"   -> ShowMarket
                [] Answered.kind = "search"   -> ShowSearch

Step == /\ rest # << >> /\ ~InCall /\ waiting = NoClick
        /\ rest' = Tail(rest)
        /\ LET step == Head(rest)
           IN  /\ runs' = IF step = "keep"
                          THEN Append(runs, [call |-> Call, client |-> Answered.client, sections |-> Generated(Call)])
                          ELSE runs
               /\ last' = CASE step = "latest"   -> [last EXCEPT !.result = Call]
                            [] step = "metadata" -> [last EXCEPT !.client = Answered.client]
                            [] step = "research" -> [last EXCEPT !.research = Call]
                            [] OTHER -> last
               /\ IF step = "count" THEN AccumulateSessionUsage ELSE UNCHANGED counted
               /\ screen' = IF step = "show" THEN ShowAnswer ELSE screen
        /\ UNCHANGED <<page, signedOn, asking, waiting, answers, lost>>

SessionNext == Click \/ Cut \/ Return \/ Step

-----------------------------------------------------------------------------
(* What the dashboard shows of the session.                                *)

Recent == Reverse(SubSeq(runs, IF Len(runs) > 5 THEN Len(runs) - 4 ELSE 1, Len(runs)))

Dashboard == [latest |-> last.result, tokens |-> {n \in DOMAIN counted : counted[n] > 0}, recent |-> Recent]

-----------------------------------------------------------------------------
(* Properties.                                                             *)

(* A run is kept as it was answered, in the order of the calls; so each     *)
(* revision starts from the text that was generated, not from a revision   *)
(* before it (pages 1 and 2).                                              *)
RunsAsAnswered ==
  /\ \A i \in DOMAIN runs :
       /\ answers[runs[i].call].kind = "proposal" /\ runs[i].client = answers[runs[i].call].client
       /\ runs[i].sections = Generated(runs[i].call)
       /\ \A j \in 1..(i - 1) : runs[j].call < runs[i].call
  /\ \A n \in DOMAIN answers : answers[n].kind = "revision" => answers[n].base = answers[n].of

(* Between scripts, the latest result of the dashboard is that of the run   *)
(* it lists first, but for runs whose script was cut.                      *)
LatestExplained ==
  rest = << >> =>
    /\ last.result = 0 \/ \E run \in ToSet(runs) : run.call = last.result
    /\ \A run \in ToSet(Dashboard.recent) : run.call > Dashboard.latest => run.call \in lost

(* A call is in the totals of the session once when its script was not cut, *)
(* and never twice; the page for vendors counts only when it found some.   *)
CountedOnce ==
  \A n \in DOMAIN answers :
    /\ counted[n] <= 1
    /\ rest = << >> /\ n \notin lost =>
         (n \in Dashboard.tokens <=> StepsOf(answers[n]) \notin {<< >>, <<"show">>})

(* The PDF a page offers is of its own run: the client entered for it, and  *)
(* the texts generated for it, but for the section just revised.           *)
OffersItsOwn ==
  screen.call # 0 /\ answers[screen.call].kind \in {"proposal", "revision"} =>
    LET a     == answers[screen.call]
        of    == IF a.kind = "revision" THEN a.of ELSE screen.call
        texts == {<<k, of>> : k \in Keys \ answers[of].failed}
    IN  /\ counted[screen.call] = 1
        /\ a.kind = "revision" => screen.compared = <<of, screen.call>>
        /\ screen.pdf.client = answers[of].client
        /\ screen.pdf.sections = IF a.kind = "proposal" THEN texts
                                 ELSE (texts \ {<<a.key, of>>}) \cup {<<a.key, screen.call>>}

SessionSound == RunsAsAnswered /\ LatestExplained /\ CountedOnce /\ OffersItsOwn
=============================================================================
