----------------------------- MODULE IntentForm -----------------------------
(***************************************************************************)
(* The form of the intent page of the Streamlit interface                  *)
(* (ui/pages/4_intent_detection.py): an analysis fills it in, a person     *)
(* edits it, and it outlives the visits of the page in the session.        *)
(*                                                                         *)
(* The widgets have no keys.  One keeps what the person entered as long as *)
(* the script gives it the initial value it was made with, and is a new    *)
(* one, with that value, when the script gives it another; and the script  *)
(* gives it what it has returned in the run before.  As in Session, a      *)
(* click cuts a script that waits for the API at its next drawing.         *)
(***************************************************************************)
EXTENDS Integers, FiniteSets, FiniteSetsExt

CONSTANTS Overview,     \* texts of client_overview
          Notes,        \* the text of product_fit
          Words,        \* what a text may say
          Scores,       \* what a score may be
          Domains,      \* profiles: for each gauge its stages, [name, max]
          Default,      \* the profile of a new session
          Lowest,       \* for each gauge its stage when there is no profile
          Findings,     \* what an analysis may answer: [text, score, stage]
          NoScore,      \* an answer without one
          MaxAnalyses   \* bound

Texts == Overview \cup {Notes}
Gauges == {"buyer_readiness", "product_fit"}
Widgets == Texts \cup Gauges
NoProfile == [g \in Gauges |-> {}]

ASSUME ProfilesAssumption ==
  /\ Default \in DOMAIN Domains
  /\ \A name \in DOMAIN Domains : \A g \in Gauges :
       IsFiniteSet(Domains[name][g]) /\ \A s \in Domains[name][g] : s.max \in Int

VARIABLES intent,    \* session_state["intent_detection_state"]: [value, stage]
          uploaded,  \* what the uploader holds
          made,      \* the initial value each widget was made with
          entered,   \* what each widget shows
          chosen,    \* session_state["profile_name"]
          script,    \* where the script of the page is
          next,      \* the click that came while it ran
          analysed,  \* analyses answered
          inTotals,  \* how many are in the totals of the session
          filled,    \* texts shown filled in, and not blanked by hand since (history)
          missed     \* edits of a field in a row that were lost (history)

formVars == <<intent, uploaded, made, entered, chosen, script, next, analysed, inTotals, filled, missed>>

EmptyState == [value |-> [k \in Widgets |-> IF k \in Texts THEN "" ELSE 0], stage |-> Lowest]

Resting == [do |-> "nothing"]

FormInit == /\ intent = EmptyState /\ uploaded = "none"
            /\ made = EmptyState.value /\ entered = EmptyState.value
            /\ chosen = Default
            /\ script = "done" /\ next = Resting
            /\ analysed = 0 /\ inTotals = 0
            /\ filled = {} /\ missed = [k \in Widgets |-> 0]

-----------------------------------------------------------------------------
(* A run of the page, from its top to its end.                              *)

StageNames(stages, g) == IF stages = {} THEN {Lowest[g]} ELSE {s.name : s \in stages}

StageForScore(stages, score, g) ==
  LET reached == {s \in stages : score <= s.max}
      lowest(S) == CHOOSE s \in S : \A t \in S : s.max <= t.max
  IN  IF stages = {} THEN Lowest[g]
      ELSE IF reached = {} THEN (CHOOSE s \in stages : \A t \in stages : t.max <= s.max).name
      ELSE lowest(reached).name

(* What the widgets return, where f is the form and shown what they show.   *)
Returned(f, shown) == [k \in Widgets |-> IF f.value[k] = made[k] THEN shown[k] ELSE f.value[k]]

(* The stage stays as long as it is one of the profile's.                   *)
StageOf(f, value, profile) ==
  [g \in Gauges |-> IF f.stage[g] \in StageNames(profile[g], g) THEN f.stage[g]
                    ELSE StageForScore(profile[g], value[g], g)]

(* The profile is the chosen one, or none when the API does not answer.     *)
RunForm(f, values, name, blanked) ==
  /\ \E profile \in {Domains[name], NoProfile} :
       intent' = [value |-> values, stage |-> StageOf(f, values, profile)]
  /\ made' = f.value /\ entered' = values /\ chosen' = name
  /\ script' = "done" /\ next' = Resting
  /\ filled' = (filled \ blanked) \cup {k \in Texts : values[k] # ""}

Edit(k, to) ==
  LET values == Returned(intent, [entered EXCEPT ![k] = to])
  IN  /\ RunForm(intent, values, chosen, IF values[k] = to THEN {k} ELSE {})
      /\ missed' = [missed EXCEPT ![k] = IF values[k] = to THEN 0 ELSE @ + 1]
      /\ UNCHANGED uploaded

(* A file that cannot be read leaves no text.                              *)
Upload(click) ==
  /\ RunForm(intent, Returned(intent, entered), chosen, {})
  /\ uploaded' = click.file
  /\ UNCHANGED missed

PickProfile(click) == /\ RunForm(intent, Returned(intent, entered), click.name, {})
                      /\ UNCHANGED <<uploaded, missed>>

(* The page is left, its widgets are forgotten, and it is opened again.     *)
Reopen == /\ RunForm(intent, intent.value, chosen, {})
          /\ uploaded' = "none"
          /\ UNCHANGED missed

(* A second run follows, with the uploader as it was.                      *)
Reset == /\ RunForm(EmptyState, EmptyState.value, chosen, Texts)
         /\ missed' = [k \in Widgets |-> 0]
         /\ UNCHANGED uploaded

Analyse == /\ IF uploaded = "readable"
              THEN /\ script' = "waiting" /\ next' = Resting
                   /\ UNCHANGED <<intent, made, entered, chosen, filled>>
              ELSE RunForm(intent, Returned(intent, entered), chosen, {})
           /\ UNCHANGED <<uploaded, missed>>

Handle(click) == CASE click.do = "edit"    -> Edit(click.text, click.to)
                   [] click.do = "slide"   -> Edit(click.gauge, click.score)
                   [] click.do = "upload"  -> Upload(click)
                   [] click.do = "pick"    -> PickProfile(click)
                   [] click.do = "reopen"  -> Reopen
                   [] click.do = "reset"   -> Reset
                   [] click.do = "analyse" -> Analyse

FormClicks == {c \in [do : {"edit"}, text : Texts, to : Words \cup {""}] : c.to # entered[c.text]}
                \cup {c \in [do : {"slide"}, gauge : Gauges, score : Scores] : c.score # entered[c.gauge]}
                \cup [do : {"upload"}, file : {"readable", "unreadable"}]
                \cup [do : {"pick"}, name : DOMAIN Domains \ {chosen}]
                \cup [do : {"reopen", "reset"}]
                \cup {c \in [do : {"analyse"}] : uploaded # "none" /\ analysed < MaxAnalyses}

FormClick == /\ next = Resting
             /\ \E click \in FormClicks :
                  IF script = "done" THEN Handle(click)
                  ELSE /\ next' = click
                       /\ UNCHANGED <<intent, uploaded, made, entered, chosen, script, filled, missed>>
             /\ UNCHANGED <<analysed, inTotals>>

-----------------------------------------------------------------------------
(* An analysis.                                                            *)

(* Mutant: an empty value replaces the one there is.                        *)
MergeAll(f, a) == [value |-> [k \in Widgets |-> IF k \in Texts \/ a.value[k] # NoScore THEN a.value[k] ELSE f.value[k]],
                   stage |-> [g \in Gauges |-> IF a.stage[g] # "" THEN a.stage[g] ELSE f.stage[g]]]

(* Texts, and a score of 0 for the fit, are taken only if they say something. *)
Merge(f, a) ==
  LET says(k) == IF k \in Texts THEN a.value[k] # ""
                 ELSE a.value[k] # NoScore /\ (k = "product_fit" => a.value[k] # 0)
  IN  [value |-> [k \in Widgets |-> IF says(k) THEN a.value[k] ELSE f.value[k]],
       stage |-> [g \in Gauges |-> IF a.stage[g] # "" THEN a.stage[g] ELSE f.stage[g]]]

(* The answer is dropped if a click has come; the merge itself is not cut.  *)
AnalysisAnswers(a) == /\ script = "waiting" /\ next = Resting
                      /\ intent' = Merge(intent, a)
                      /\ script' = "merged"
                      /\ analysed' = analysed + 1
                      /\ missed' = [k \in Widgets |-> 0]
                      /\ UNCHANGED <<uploaded, made, entered, chosen, next, inTotals, filled>>

AnalysisFails == /\ script = "waiting" /\ next = Resting
                 /\ RunForm(intent, Returned(intent, entered), chosen, {})
                 /\ UNCHANGED <<uploaded, analysed, inTotals, missed>>

(* The tokens are added after the success has been drawn.                   *)
Finish == /\ script = "merged" /\ next = Resting
          /\ inTotals' = inTotals + 1
          /\ RunForm(intent, Returned(intent, entered), chosen, {})
          /\ UNCHANGED <<uploaded, analysed, missed>>

CutForm == /\ script # "done" /\ next # Resting
           /\ Handle(next)
           /\ analysed' = IF script = "waiting" THEN analysed + 1 ELSE analysed
           /\ UNCHANGED inTotals

FormNext == FormClick \/ (\E a \in Findings : AnalysisAnswers(a)) \/ AnalysisFails \/ Finish \/ CutForm

-----------------------------------------------------------------------------
(* Properties.                                                             *)

(* Of the edits of a field, at most one in a row is lost, if no analysis    *)
(* came between (the widgets of the form, which take their initial value   *)
(* from what they have returned).                                          *)
NeverLostTwice == \A k \in Widgets : missed[k] <= 1

(* A text that the page has shown stays filled in until a person blanks it  *)
(* or resets the form, whatever an analysis leaves empty.                  *)
FilledStays == \A k \in filled : intent.value[k] # ""

(* Between runs, the stage is one of the profile now chosen, or the one of  *)
(* a page that found no profile.                                           *)
StageOfProfile ==
  script = "done" =>
    \A g \in Gauges : intent.stage[g] \in StageNames(Domains[chosen][g], g) \cup {Lowest[g]}

(* Between runs, what the page shows is what the session keeps.             *)
ShownIsKept == script = "done" => entered = intent.value

FormSound == NeverLostTwice /\ FilledStays /\ StageOfProfile /\ ShownIsKept
=============================================================================
