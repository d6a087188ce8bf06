--------------------------- MODULE AccountsProofs ---------------------------
(***************************************************************************)
(* Theorems about what the application keeps for a person, for any number   *)
(* of concurrent requests, any solutions, forms, findings and answers: the  *)
(* form of the intent page, the library of solutions, sign-in and the      *)
(* browser session.  Each part has its inductive invariant; the theorems    *)
(* are at the end.                                                         *)
(***************************************************************************)
EXTENDS Accounts, FiniteSetTheorems, SequenceTheorems, WellFoundedInduction, TLAPS

-----------------------------------------------------------------------------
(* Induction in terms of sets, from the least element of a set.             *)

LEMMA LeastNat ==
  ASSUME NEW S \in SUBSET Nat, S # {}
  PROVE  \E n \in S : \A m \in S : n <= m
  <1> DEFINE R == OpToRel(<, Nat)
  <1>1. IsWellFoundedOn(R, Nat)
    BY NatLessThanWellFounded
  <1>2. \A m, n \in Nat : m < n => <<m, n>> \in R
    BY DEF OpToRel
  <1> HIDE DEF R
  <1>3. PICK n \in S : \A m \in S : ~ (<<m, n>> \in R)
    BY <1>1, WFMin
  <1>4. ASSUME NEW m \in S PROVE n <= m
    <2>1. m \in Nat /\ n \in Nat
      OBVIOUS
    <2>2. ~(m < n)
      BY <1>2, <1>3, <2>1, Zenon
    <2> QED BY <2>1, <2>2
  <1> QED BY <1>4

LEMMA SetInduction ==
  ASSUME NEW S, 0 \in S, \A n \in Nat : n \in S => n + 1 \in S
  PROVE  Nat \subseteq S
  <1> SUFFICES ASSUME Nat \ S # {} PROVE FALSE
    OBVIOUS
  <1>1. PICK n \in Nat \ S : \A m \in Nat \ S : n <= m
    BY LeastNat
  <1>2. n # 0 /\ n - 1 \in Nat
    BY <1>1
  <1>3. n - 1 \in S
    BY <1>1, <1>2
  <1> QED BY <1>1, <1>2, <1>3

LEMMA FiniteSetInduction ==
  ASSUME NEW S, IsFiniteSet(S), NEW F, {} \in F,
         \A T \in SUBSET S : \A x \in S \ T : T \in F => T \cup {x} \in F
  PROVE  S \in F
  <1> DEFINE N == {n \in Nat : \A T \in SUBSET S : Cardinality(T) = n => T \in F}
  <1>1. 0 \in N
    BY FS_Subset, FS_EmptySet
  <1>2. ASSUME NEW n \in Nat, n \in N PROVE n + 1 \in N
    <2> SUFFICES ASSUME NEW T \in SUBSET S, Cardinality(T) = n + 1 PROVE T \in F
      OBVIOUS
    <2>1. IsFiniteSet(T)
      BY FS_Subset
    <2>2. PICK x \in T : TRUE
      BY <2>1, FS_EmptySet
    <2>3. Cardinality(T \ {x}) = Cardinality(T) - 1
      BY <2>1, <2>2, FS_RemoveElement
    <2>4. T \ {x} \in F
      BY <1>2, <2>3, n + 1 - 1 = n
    <2>5. (T \ {x}) \cup {x} \in F
      BY <2>4, <2>2
    <2> QED BY <2>5, <2>2
  <1> HIDE DEF N
  <1>3. Nat \subseteq N
    BY <1>1, <1>2, SetInduction
  <1>4. Cardinality(S) \in Nat
    BY FS_CardinalityType
  <1> QED BY <1>3, <1>4 DEF N

-----------------------------------------------------------------------------
(* The form of the intent page.                                            *)

(* Clicks, whether or not the page offers them now.                         *)
ClickKinds == [do : {"edit"}, text : Texts, to : Words \cup {""}]
                \cup [do : {"slide"}, gauge : Gauges, score : Scores]
                \cup [do : {"upload"}, file : {"readable", "unreadable"}]
                \cup [do : {"pick"}, name : DOMAIN Domains]
                \cup [do : {"reopen", "reset"}]
                \cup [do : {"analyse"}]

FormTyped == /\ chosen \in DOMAIN Domains
             /\ script \in {"done", "waiting", "merged"}
             /\ next \in ClickKinds \cup {Resting}
             /\ filled \subseteq Texts
             /\ missed \in [Widgets -> {0, 1}]
             /\ entered = [k \in Widgets |-> entered[k]]
             /\ intent.value = [k \in Widgets |-> intent.value[k]]

(* A field whose edit was lost shows what it was made with.                 *)
LostEditShown == \A k \in Widgets : missed[k] = 1 => intent.value[k] = made[k] /\ entered[k] = made[k]

FilledShown == \A k \in filled : intent.value[k] # "" /\ entered[k] # ""

FormInv == FormTyped /\ LostEditShown /\ FilledShown /\ StageOfProfile /\ ShownIsKept

LEMMA FormInvSound == FormInv => FormSound
  <1>1. ASSUME FormInv, NEW k \in Widgets
        PROVE  missed[k] <= 1
    <2>1. missed[k] \in {0, 1}
      BY <1>1 DEF FormInv, FormTyped
    <2>2. QED
      BY <2>1
  <1>2. QED
    BY <1>1 DEF FormInv, FilledShown, FormSound, NeverLostTwice, FilledStays

LEMMA InitForm == FormInit => FormInv
  <1> SUFFICES ASSUME FormInit
               PROVE  FormInv
    OBVIOUS
  <1>1. missed = [k \in Widgets |-> 0] /\ filled = {} /\ chosen = Default
        /\ script = "done" /\ next = Resting
    BY DEF FormInit
  <1>2. intent = EmptyState /\ entered = EmptyState.value /\ EmptyState.stage = Lowest
        /\ EmptyState.value = [k \in Widgets |-> IF k \in Texts THEN "" ELSE 0]
    BY DEF FormInit, EmptyState
  <1>3. FormTyped
    BY <1>1, <1>2, ProfilesAssumption DEF FormTyped
  <1>4. LostEditShown /\ FilledShown
    BY <1>1 DEF LostEditShown, FilledShown
  <1>5. StageOfProfile /\ ShownIsKept
    BY <1>2 DEF StageOfProfile, ShownIsKept
  <1>6. QED
    BY <1>3, <1>4, <1>5 DEF FormInv

(* Of finitely many stages, one is the lowest and one the highest.          *)
LEMMA StageBounds ==
  ASSUME NEW S, IsFiniteSet(S), \A s \in S : s.max \in Int
  PROVE  \A T \in SUBSET S : T # {} =>
           /\ \E s \in T : \A t \in T : s.max <= t.max
           /\ \E s \in T : \A t \in T : t.max <= s.max
  <1> DEFINE Bounded(T) == T # {} => /\ \E s \in T : \A t \in T : s.max <= t.max
                                     /\ \E s \in T : \A t \in T : t.max <= s.max
  <1> SUFFICES ASSUME NEW U \in SUBSET S
               PROVE  Bounded(U)
    OBVIOUS
  <1> DEFINE F == {T \in SUBSET U : Bounded(T)}
  <1>1. {} \in F
    OBVIOUS
  <1>2. ASSUME NEW T \in SUBSET U, NEW x \in U \ T, T \in F
        PROVE  T \cup {x} \in F
    <2>1. CASE T = {}
      <3>1. T \cup {x} = {x} /\ x.max <= x.max
        BY <2>1
      <3>2. QED
        BY <3>1
    <2>2. CASE T # {}
      <3>1. PICK s \in T : \A t \in T : s.max <= t.max
        BY <1>2, <2>2
      <3>2. PICK v \in T : \A t \in T : t.max <= v.max
        BY <1>2, <2>2
      <3>3. \E w \in T \cup {x} : \A t \in T \cup {x} : w.max <= t.max
        <4>1. CASE s.max <= x.max
          BY <3>1, <4>1
        <4>2. CASE x.max <= s.max
          <5>1. \A t \in T \cup {x} : x.max <= t.max
            BY <3>1, <4>2
          <5>2. QED
            BY <5>1
        <4>3. QED
          BY <4>1, <4>2
      <3>4. \E w \in T \cup {x} : \A t \in T \cup {x} : t.max <= w.max
        <4>1. CASE x.max <= v.max
          BY <3>2, <4>1
        <4>2. CASE v.max <= x.max
          <5>1. \A t \in T \cup {x} : t.max <= x.max
            BY <3>2, <4>2
          <5>2. QED
            BY <5>1
        <4>3. QED
          BY <4>1, <4>2
      <3>5. QED
        BY <3>3, <3>4
    <2>3. QED
      BY <2>1, <2>2
  <1>3. IsFiniteSet(U)
    BY FS_Subset
  <1> HIDE DEF F
  <1>4. U \in F
    BY <1>1, <1>2, <1>3, FiniteSetInduction
  <1>5. QED
    BY <1>4 DEF F

(* A score is given one of the stages of the profile.                       *)
LEMMA ScoreHasStage ==
  ASSUME NEW stages, IsFiniteSet(stages), \A s \in stages : s.max \in Int, NEW score, NEW g
  PROVE  StageForScore(stages, score, g) \in StageNames(stages, g)
  <1> DEFINE reached == {s \in stages : score <= s.max}
  <1>1. CASE stages = {}
    BY <1>1 DEF StageForScore, StageNames
  <1>2. CASE stages # {} /\ reached = {}
    <2>1. \E s \in stages : \A t \in stages : t.max <= s.max
      BY <1>2, StageBounds
    <2>2. PICK s \in stages : s = CHOOSE u \in stages : \A t \in stages : t.max <= u.max
      BY <2>1
    <2>3. StageForScore(stages, score, g) = s.name
      BY <1>2, <2>2 DEF StageForScore
    <2>4. QED
      BY <1>2, <2>3 DEF StageNames
  <1>3. CASE stages # {} /\ reached # {}
    <2>1. \E s \in reached : \A t \in reached : s.max <= t.max
      BY <1>3, StageBounds
    <2>2. PICK s \in reached : s = CHOOSE u \in reached : \A t \in reached : u.max <= t.max
      BY <2>1
    <2>3. StageForScore(stages, score, g) = s.name
      BY <1>3, <2>2 DEF StageForScore
    <2>4. QED
      BY <1>3, <2>2, <2>3 DEF StageNames
  <1>4. QED
    BY <1>1, <1>2, <1>3

(* After a run of the page, the stages are the profile's, and what is shown *)
(* is kept.                                                                *)
LEMMA RunFormShows ==
  ASSUME NEW f, NEW values, NEW name \in DOMAIN Domains, NEW blanked, FormInv,
         RunForm(f, values, name, blanked)
  PROVE  /\ StageOfProfile' /\ ShownIsKept'
         /\ intent'.value = values /\ made' = f.value /\ entered' = values
         /\ chosen' \in DOMAIN Domains /\ script' = "done" /\ next' = Resting
         /\ filled' \subseteq Texts
  <1>1. PICK profile \in {Domains[name], NoProfile} :
          intent' = [value |-> values, stage |-> StageOf(f, values, profile)]
    BY DEF RunForm
  <1>2. ASSUME NEW g \in Gauges
        PROVE  intent'.stage[g] \in StageNames(Domains[name][g], g) \cup {Lowest[g]}
    <2>1. intent'.stage[g] \in {f.stage[g], StageForScore(profile[g], values[g], g)}
          /\ (intent'.stage[g] \in StageNames(profile[g], g)
              \/ intent'.stage[g] = StageForScore(profile[g], values[g], g))
      BY <1>1 DEF StageOf
    <2>2. CASE profile = NoProfile
      BY <2>1, <2>2 DEF NoProfile, StageNames, StageForScore
    <2>3. CASE profile = Domains[name]
      BY <2>1, <2>3, ScoreHasStage, ProfilesAssumption
    <2>4. QED
      BY <2>2, <2>3
  <1>3. chosen' = name /\ entered' = values /\ intent'.value = values
    BY <1>1 DEF RunForm
  <1>4. QED
    BY <1>2, <1>3 DEF RunForm, StageOfProfile, ShownIsKept, FormInv, FormTyped

(* A run of the page that changes no field.                                 *)
LEMMA RunFormAsShown ==
  ASSUME FormInv, NEW values \in {Returned(intent, entered), intent.value},
         NEW name \in DOMAIN Domains, UNCHANGED missed, RunForm(intent, values, name, {})
  PROVE  FormInv'
  <1>1. /\ StageOfProfile' /\ ShownIsKept'
        /\ intent'.value = values /\ made' = intent.value /\ entered' = values
        /\ chosen' \in DOMAIN Domains /\ script' = "done" /\ next' = Resting
        /\ filled' \subseteq Texts
    BY RunFormShows
  <1>2. filled' = filled \cup {k \in Texts : values[k] # ""}
    BY DEF RunForm
  <1>3. \A k \in Widgets : missed[k] = 1 => values[k] = intent.value[k]
    BY DEF FormInv, LostEditShown, Returned
  <1>4. \A k \in filled : values[k] # ""
    BY DEF FormInv, FormTyped, FilledShown, Returned, Widgets
  <1>5. FilledShown' /\ LostEditShown'
    BY <1>1, <1>2, <1>3, <1>4 DEF FilledShown, LostEditShown
  <1>6. values = [k \in Widgets |-> values[k]]
    BY DEF FormInv, FormTyped, Returned
  <1>7. QED
    BY <1>1, <1>5, <1>6 DEF FormInv, FormTyped

(* An edit is lost only where the form has got another value than the one   *)
(* the widget was made with, and the run that loses it makes the widget    *)
(* with that value.                                                        *)
LEMMA EditKeeps ==
  ASSUME FormInv, NEW k \in Widgets, NEW to, Edit(k, to)
  PROVE  FormInv'
  <1> DEFINE values == Returned(intent, [entered EXCEPT ![k] = to])
             blanked == IF values[k] = to THEN {k} ELSE {}
  <1>1. RunForm(intent, values, chosen, blanked)
    BY DEF Edit
  <1>2. missed' = [missed EXCEPT ![k] = IF values[k] = to THEN 0 ELSE @ + 1]
    BY DEF Edit
  <1>3. \A j \in Widgets : values[j] = IF intent.value[j] = made[j]
                                        THEN [entered EXCEPT ![k] = to][j] ELSE intent.value[j]
    BY DEF Returned
  <1>a. values = [j \in Widgets |-> values[j]]
    BY DEF Returned
  <1> HIDE DEF values
  <1>b. \A j \in Widgets : [entered EXCEPT ![k] = to][j] = IF j = k THEN to ELSE entered[j]
    BY DEF FormInv, FormTyped
  <1>4. /\ StageOfProfile' /\ ShownIsKept'
        /\ intent'.value = values /\ made' = intent.value /\ entered' = values
        /\ chosen' \in DOMAIN Domains /\ script' = "done" /\ next' = Resting
        /\ filled' \subseteq Texts
        /\ filled' = (filled \ blanked) \cup {j \in Texts : values[j] # ""}
    <2>1. chosen \in DOMAIN Domains
      BY DEF FormInv, FormTyped
    <2>2. QED
      BY <1>1, <2>1, RunFormShows DEF RunForm
  <1>5. \A j \in Widgets : missed[j] \in {0, 1}
                          /\ (missed[j] = 1 => intent.value[j] = made[j] /\ entered[j] = made[j])
    BY DEF FormInv, FormTyped, LostEditShown
  <1>6. \A j \in Widgets : j # k => missed'[j] = missed[j] /\ (missed[j] = 1 => values[j] = intent.value[j])
    BY <1>2, <1>3, <1>b, <1>5 DEF FormInv, FormTyped
  <1>7. missed'[k] \in {0, 1} /\ (missed'[k] = 1 => values[k] = intent.value[k])
    <2>1. missed'[k] = IF values[k] = to THEN 0 ELSE missed[k] + 1
      BY <1>2 DEF FormInv, FormTyped
    <2>2. CASE values[k] = to
      BY <2>1, <2>2
    <2>3. CASE values[k] # to
      <3>1. values[k] = intent.value[k] /\ intent.value[k] # made[k]
        BY <1>3, <1>b, <2>3
      <3>2. missed[k] = 0
        BY <1>5, <3>1
      <3>3. QED
        BY <2>1, <2>3, <3>1, <3>2
    <2>4. QED
      BY <2>2, <2>3
  <1>8. missed' \in [Widgets -> {0, 1}]
    <2>1. \A j \in Widgets : missed'[j] \in {0, 1}
      BY <1>5, <1>6, <1>7
    <2>2. missed' = [j \in Widgets |-> missed'[j]]
      BY <1>2 DEF FormInv, FormTyped
    <2>3. QED
      BY <2>1, <2>2
  <1>9. LostEditShown'
    BY <1>4, <1>5, <1>6, <1>7 DEF LostEditShown
  <1>10. \A j \in filled' : values[j] # ""
    <2>1. SUFFICES ASSUME NEW j \in filled \ blanked
                   PROVE  values[j] # ""
      BY <1>4
    <2>2. j \in Widgets /\ intent.value[j] # "" /\ entered[j] # ""
      BY DEF FormInv, FormTyped, FilledShown, Widgets
    <2>3. CASE j = k
      BY <1>3, <1>b, <2>2, <2>3
    <2>4. CASE j # k
      BY <1>3, <1>b, <2>2, <2>4
    <2>5. QED
      BY <2>3, <2>4
  <1>11. QED
    BY <1>4, <1>a, <1>8, <1>9, <1>10 DEF FormInv, FormTyped, FilledShown

LEMMA HandleKeeps ==
  ASSUME FormInv, NEW click \in ClickKinds, Handle(click)
  PROVE  FormInv'
  <1>1. chosen \in DOMAIN Domains
    BY DEF FormInv, FormTyped
  <1>2. CASE click.do = "edit"
    <2>1. click.text \in Widgets
      BY <1>2 DEF ClickKinds, Widgets
    <2>2. QED
      BY <1>2, <2>1, EditKeeps DEF Handle
  <1>3. CASE click.do = "slide"
    <2>1. click.gauge \in Widgets
      BY <1>3 DEF ClickKinds, Widgets
    <2>2. QED
      BY <1>3, <2>1, EditKeeps DEF Handle
  <1>4. CASE click.do = "upload"
    BY <1>1, <1>4, RunFormAsShown DEF Handle, Upload
  <1>5. CASE click.do = "pick"
    <2>1. click.name \in DOMAIN Domains
      BY <1>5 DEF ClickKinds
    <2>2. QED
      BY <1>5, <2>1, RunFormAsShown DEF Handle, PickProfile
  <1>6. CASE click.do = "reopen"
    BY <1>1, <1>6, RunFormAsShown DEF Handle, Reopen
  <1>7. CASE click.do = "reset"
    <2>1. /\ RunForm(EmptyState, EmptyState.value, chosen, Texts)
          /\ missed' = [k \in Widgets |-> 0]
      BY <1>7 DEF Handle, Reset
    <2>2. filled' = (filled \ Texts) \cup {k \in Texts : EmptyState.value[k] # ""}
      BY <2>1 DEF RunForm
    <2>3. filled' = {}
      BY <2>2 DEF EmptyState, Widgets, FormInv, FormTyped
    <2>4. EmptyState.value = [k \in Widgets |-> EmptyState.value[k]]
      BY DEF EmptyState
    <2>5. /\ StageOfProfile' /\ ShownIsKept'
          /\ intent'.value = EmptyState.value /\ entered' = EmptyState.value
          /\ chosen' \in DOMAIN Domains /\ script' = "done" /\ next' = Resting
      BY <1>1, <2>1, RunFormShows
    <2>6. FormTyped'
      BY <2>1, <2>3, <2>4, <2>5 DEF FormTyped
    <2>7. \A k \in Widgets : missed'[k] = 0
      BY <2>1
    <2>8. LostEditShown' /\ FilledShown'
      BY <2>3, <2>7 DEF LostEditShown, FilledShown
    <2>9. QED
      BY <2>5, <2>6, <2>8 DEF FormInv
  <1>8. CASE click.do = "analyse"
    <2>1. CASE uploaded = "readable"
      <3>1. /\ script' = "waiting" /\ next' = Resting
            /\ UNCHANGED <<intent, made, entered, chosen, filled, missed>>
        BY <1>8, <2>1 DEF Handle, Analyse
      <3>2. QED
        BY <3>1 DEF FormInv, FormTyped, LostEditShown, FilledShown, StageOfProfile, ShownIsKept
    <2>2. CASE uploaded # "readable"
      BY <1>1, <1>8, <2>2, RunFormAsShown DEF Handle, Analyse
    <2>3. QED
      BY <2>1, <2>2
  <1>9. QED
    BY <1>2, <1>3, <1>4, <1>5, <1>6, <1>7, <1>8 DEF ClickKinds

(* The merge of an analysis takes no text away.                             *)
LEMMA MergeKeeps ==
  ASSUME FormInv, NEW a, AnalysisAnswers(a)
  PROVE  FormInv'
  <1>1. /\ script' = "merged" /\ intent' = Merge(intent, a)
        /\ missed' = [k \in Widgets |-> 0]
        /\ UNCHANGED <<made, entered, chosen, next, filled>>
    BY DEF AnalysisAnswers
  <1>2. \A k \in Texts : intent.value[k] # "" => intent'.value[k] # ""
    BY <1>1 DEF Merge, Widgets
  <1>3. intent'.value = [k \in Widgets |-> intent'.value[k]]
    BY <1>1 DEF Merge
  <1>4. FormTyped'
    BY <1>1, <1>3 DEF FormInv, FormTyped
  <1>5. LostEditShown' /\ FilledShown'
    <2>1. \A k \in Widgets : missed'[k] = 0
      BY <1>1
    <2>2. LostEditShown'
      BY <2>1 DEF LostEditShown
    <2>3. filled' \subseteq Texts /\ \A k \in filled' : intent.value[k] # "" /\ entered'[k] # ""
      BY <1>1 DEF FormInv, FormTyped, FilledShown
    <2>4. QED
      BY <1>2, <2>2, <2>3 DEF FilledShown
  <1>6. StageOfProfile' /\ ShownIsKept'
    BY <1>1 DEF StageOfProfile, ShownIsKept
  <1>7. QED
    BY <1>4, <1>5, <1>6 DEF FormInv

LEMMA FormStepKeeps == FormInv /\ [FormNext]_formVars => FormInv'
  <1> SUFFICES ASSUME FormInv, [FormNext]_formVars
               PROVE  FormInv'
    OBVIOUS
  <1>1. FormClicks \subseteq ClickKinds
    BY DEF FormClicks, ClickKinds
  <1>2. CASE FormClick
    <2>1. PICK click \in ClickKinds :
            IF script = "done" THEN Handle(click)
            ELSE /\ next' = click
                 /\ UNCHANGED <<intent, uploaded, made, entered, chosen, script, filled, missed>>
      BY <1>1, <1>2 DEF FormClick
    <2>2. CASE script = "done"
      BY <2>1, <2>2, HandleKeeps
    <2>3. CASE script # "done"
      BY <2>1, <2>3
      DEF FormInv, FormTyped, LostEditShown, FilledShown, StageOfProfile, ShownIsKept
    <2>4. QED
      BY <2>2, <2>3
  <1>3. CASE \E a \in Findings : AnalysisAnswers(a)
    BY <1>3, MergeKeeps
  <1>4. CASE AnalysisFails \/ Finish
    <2>1. chosen \in DOMAIN Domains
      BY DEF FormInv, FormTyped
    <2>2. QED
      BY <1>4, <2>1, RunFormAsShown DEF AnalysisFails, Finish
  <1>5. CASE CutForm
    <2>1. next \in ClickKinds /\ Handle(next)
      BY <1>5 DEF CutForm, FormInv, FormTyped
    <2>2. QED
      BY <2>1, HandleKeeps
  <1>6. CASE UNCHANGED formVars
    BY <1>6
    DEF formVars, FormInv, FormTyped, LostEditShown, FilledShown, StageOfProfile, ShownIsKept
  <1>7. QED
    BY <1>2, <1>3, <1>4, <1>5, <1>6 DEF FormNext

-----------------------------------------------------------------------------
(* The library of solutions.                                               *)

Places == {"idle", "scoped", "writing", "naming", "committing", "presenting", "over"}

Written == {"presenting", "over"}

SolutionsTyped ==
  /\ at \in [Visits -> Places]
  /\ demand = [q \in Visits |-> demand[q]] /\ scope = [q \in Visits |-> scope[q]]
  /\ loaded = [q \in Visits |-> loaded[q]] /\ reply = [q \in Visits |-> reply[q]]
  /\ earlier \in [Visits -> SUBSET Visits]
  /\ \A id \in DOMAIN shelf : IsRow(shelf[id])

(* What a request is about, by its place.                                   *)
AsksAt(q) == /\ at[q] = "idle" => demand[q].op = "none"
             /\ at[q] # "idle" => demand[q] \in Demands /\ scope[q].owner = demand[q].by
             /\ at[q] = "writing" => demand[q].op \in {"update", "delete"}
             /\ at[q] \in {"naming", "presenting"} => demand[q].op \in {"create", "update"}
             /\ at[q] = "committing" => demand[q].op \in {"create", "update", "delete"}
             /\ at[q] # "over" => reply[q] = NoReply

(* A row is made once, by the request it is known by, before any other      *)
(* request works on it.                                                    *)
WorksOnOld(q) == at[q] \notin {"idle", "scoped", "over"} /\ demand[q].op # "create" /\ demand[q].id \in Visits
                   => at[demand[q].id] \in Written

MadeByWriter == \A id \in DOMAIN shelf : id \in Visits => at[id] \in Written

AuthorsStarted == \A id \in DOMAIN shelf : \A f \in Columns :
                    shelf[id].author[f] \in Visits => at[shelf[id].author[f]] # "idle"

(* A field of a row was last written by a request that q does not follow.   *)
ByAnother(row, f, q) == row.author[f] \in Visits \ (earlier[q] \cup {q})

(* The row that q is about to write is its owner's, and says what q has     *)
(* loaded, but for what others have written while q was handled.           *)
WritesOwn(q) ==
  /\ at[q] \in {"naming", "committing"} /\ demand[q].op = "create" => loaded[q] = New(q)
  /\ at[q] \in {"writing", "naming", "committing"} /\ demand[q].op = "update" =>
       /\ IsRow(loaded[q])
       /\ demand[q].id \in DOMAIN shelf =>
            /\ shelf[demand[q].id].owner = demand[q].by
            /\ \A f \in Columns : \/ shelf[demand[q].id].fields[f] = loaded[q].fields[f]
                                  \/ ByAnother(shelf[demand[q].id], f, q)

(* What a request that has written answers with.                            *)
AnswersWith(q, row) == \A f \in Columns : row.fields[f] = demand[q].fields[f] \/ ByAnother(row, f, q)

HasWritten(q) == at[q] = "presenting" /\ Target(q) \in DOMAIN shelf => AnswersWith(q, shelf[Target(q)])

HasAnswered(q) == at[q] = "over" /\ demand[q].op \in {"create", "update"} /\ reply[q].code = 200 =>
                    AnswersWith(q, reply[q].row)

EarlierOver(q) == \A p \in earlier[q] : Over(p)

VisitInv(q) == AsksAt(q) /\ WorksOnOld(q) /\ WritesOwn(q) /\ HasWritten(q) /\ HasAnswered(q) /\ EarlierOver(q)

SolutionsInv == SolutionsTyped /\ MadeByWriter /\ AuthorsStarted /\ OwnWords /\ \A q \in Visits : VisitInv(q)

LEMMA SolutionsInvSound == SolutionsInv => SolutionsSound
  <1> SUFFICES ASSUME SolutionsInv
               PROVE  AnswersHold
    BY DEF SolutionsInv, SolutionsSound
  <1> SUFFICES ASSUME NEW q \in Visits, demand[q].op \in {"create", "update"}, reply[q].code = 200
               PROVE  \A f \in DOMAIN demand[q].fields :
                        \/ reply[q].row.fields[f] = demand[q].fields[f]
                        \/ reply[q].row.author[f] \in Visits \ (earlier[q] \cup {q})
    BY DEF AnswersHold
  <1>1. VisitInv(q)
    BY DEF SolutionsInv
  <1>2. at[q] = "over"
    BY <1>1 DEF VisitInv, AsksAt, NoReply
  <1>3. AnswersWith(q, reply[q].row)
    BY <1>1, <1>2 DEF VisitInv, HasAnswered
  <1>4. DOMAIN demand[q].fields = Columns
    BY <1>1, <1>2, StoredAssumption DEF VisitInv, AsksAt
  <1>5. QED
    BY <1>3, <1>4 DEF AnswersWith, ByAnother

LEMMA InitSolutions == SolutionsInit => SolutionsInv
  <1> SUFFICES ASSUME SolutionsInit
               PROVE  SolutionsInv
    OBVIOUS
  <1>1. /\ shelf = Stored
        /\ at = [q \in Visits |-> "idle"] /\ demand = [q \in Visits |-> NoDemand]
        /\ reply = [q \in Visits |-> NoReply] /\ earlier = [q \in Visits |-> {}]
    BY DEF SolutionsInit
  <1>2. SolutionsTyped
    BY <1>1, StoredAssumption DEF SolutionsInit, SolutionsTyped, Places
  <1>3. MadeByWriter /\ AuthorsStarted
    BY <1>1, StoredAssumption DEF MadeByWriter, AuthorsStarted
  <1>4. OwnWords
    BY <1>1, StoredAssumption DEF OwnWords, IsRow
  <1>5. ASSUME NEW q \in Visits
        PROVE  VisitInv(q)
    <2>1. at[q] = "idle" /\ demand[q].op = "none" /\ reply[q] = NoReply /\ earlier[q] = {}
      BY <1>1 DEF NoDemand
    <2>2. QED
      BY <2>1 DEF VisitInv, AsksAt, WorksOnOld, WritesOwn, HasWritten, HasAnswered, EarlierOver
  <1>6. QED
    BY <1>2, <1>3, <1>4, <1>5 DEF SolutionsInv

(* A step of one request that writes no row: it is the only one that moves. *)
Quiet(q) == /\ UNCHANGED <<shelf, admins, demand, scope, earlier>>
            /\ at[q] # "idle" /\ at[q] # "over"
            /\ \E place \in Places \ {"idle"} :
                 at' = [at EXCEPT ![q] = place] /\ (at[q] = "presenting" => place = "over")
            /\ \E row : loaded' = [loaded EXCEPT ![q] = row]
            /\ \E r : reply' = [reply EXCEPT ![q] = r]

LEMMA QuietStep ==
  ASSUME SolutionsInv, NEW q \in Visits, Quiet(q), VisitInv(q)'
  PROVE  SolutionsInv'
  <1>1. PICK place \in Places \ {"idle"} :
          at' = [at EXCEPT ![q] = place] /\ (at[q] = "presenting" => place = "over")
    BY DEF Quiet
  <1>2. /\ UNCHANGED <<shelf, demand, scope, earlier>>
        /\ at[q] # "idle" /\ at[q] # "over"
    BY DEF Quiet
  <1>3. /\ at \in [Visits -> Places]
        /\ loaded = [p \in Visits |-> loaded[p]] /\ reply = [p \in Visits |-> reply[p]]
    BY DEF SolutionsInv, SolutionsTyped
  <1>4. /\ at'[q] = place
        /\ \A p \in Visits \ {q} : at'[p] = at[p] /\ loaded'[p] = loaded[p] /\ reply'[p] = reply[p]
    BY <1>1, <1>3 DEF Quiet
  <1>5. SolutionsTyped'
    <2>1. at' \in [Visits -> Places]
      BY <1>1, <1>3
    <2>2. loaded' = [p \in Visits |-> loaded'[p]]
      <3>1. PICK row : loaded' = [loaded EXCEPT ![q] = row]
        BY DEF Quiet
      <3>2. QED
        BY <1>3, <3>1
    <2>3. reply' = [p \in Visits |-> reply'[p]]
      <3>1. PICK r : reply' = [reply EXCEPT ![q] = r]
        BY DEF Quiet
      <3>2. QED
        BY <1>3, <3>1
    <2>4. QED
      BY <1>2, <2>1, <2>2, <2>3 DEF SolutionsInv, SolutionsTyped
  <1>6. \A p \in Visits : /\ at[p] \in Written => at'[p] \in Written
                          /\ at[p] # "idle" => at'[p] # "idle"
                          /\ at[p] = "over" => at'[p] = "over"
    BY <1>1, <1>2, <1>4 DEF Written
  <1>7. MadeByWriter' /\ AuthorsStarted' /\ OwnWords'
    BY <1>2, <1>6 DEF SolutionsInv, MadeByWriter, AuthorsStarted, OwnWords
  <1>8. ASSUME NEW p \in Visits, p # q
        PROVE  VisitInv(p)'
    <2>1. VisitInv(p) /\ at'[p] = at[p] /\ loaded'[p] = loaded[p] /\ reply'[p] = reply[p]
      BY <1>4, <1>8 DEF SolutionsInv
    <2>2. AsksAt(p)' /\ WorksOnOld(p)'
      BY <1>2, <1>6, <2>1 DEF VisitInv, AsksAt, WorksOnOld
    <2>3. WritesOwn(p)'
      BY <1>2, <2>1 DEF VisitInv, WritesOwn, New, ByAnother
    <2>4. HasWritten(p)' /\ HasAnswered(p)'
      BY <1>2, <2>1 DEF VisitInv, HasWritten, HasAnswered, AnswersWith, ByAnother, Target
    <2>5. EarlierOver(p)'
      <3>1. earlier[p] \subseteq Visits
        BY DEF SolutionsInv, SolutionsTyped
      <3>2. QED
        BY <1>2, <1>6, <2>1, <3>1 DEF VisitInv, EarlierOver, Over
    <2>6. QED
      BY <2>2, <2>3, <2>4, <2>5 DEF VisitInv
  <1>9. QED
    BY <1>5, <1>7, <1>8 DEF SolutionsInv

LEMMA TurnAwayQuiet ==
  ASSUME SolutionsInv, NEW q \in Visits, NEW code, code # 200, TurnAway(q, code),
         at[q] \notin {"idle", "over"}, UNCHANGED <<admins, demand, scope, earlier>>
  PROVE  SolutionsInv'
  <1>1. /\ at' = [at EXCEPT ![q] = "over"] /\ reply' = [reply EXCEPT ![q] = [code |-> code]]
        /\ UNCHANGED <<shelf, loaded>>
    BY DEF TurnAway, Reply
  <1>2. Quiet(q)
    <2>1. loaded' = [loaded EXCEPT ![q] = loaded[q]]
      BY <1>1 DEF SolutionsInv, SolutionsTyped
    <2>2. "over" \in Places \ {"idle"}
      BY DEF Places
    <2>3. QED
      BY <1>1, <2>1, <2>2 DEF Quiet
  <1>3. VisitInv(q)'
    <2>1. VisitInv(q) /\ at'[q] = "over" /\ reply'[q].code # 200
      BY <1>1 DEF SolutionsInv, SolutionsTyped
    <2>2. \A p \in earlier[q] : at'[p] = "over"
      <3>1. earlier[q] \subseteq Visits /\ at \in [Visits -> Places]
        BY DEF SolutionsInv, SolutionsTyped
      <3>2. QED
        BY <1>1, <2>1, <3>1 DEF VisitInv, EarlierOver, Over
    <2>3. QED
      BY <2>1, <2>2 DEF VisitInv, AsksAt, WorksOnOld, WritesOwn, HasWritten, HasAnswered, EarlierOver, Over
  <1>4. QED
    BY <1>2, <1>3, QuietStep

(* An answer to a request that writes nothing.                              *)
LEMMA ReadQuiet ==
  ASSUME SolutionsInv, NEW q \in Visits, NEW r, Reply(q, r), UNCHANGED <<shelf, loaded>>,
         at[q] = "scoped", demand[q].op \notin {"create", "update"},
         UNCHANGED <<admins, demand, scope, earlier>>
  PROVE  SolutionsInv'
  <1>1. /\ at' = [at EXCEPT ![q] = "over"] /\ reply' = [reply EXCEPT ![q] = r]
        /\ UNCHANGED <<shelf, loaded>>
    BY DEF Reply
  <1>2. Quiet(q)
    <2>1. loaded' = [loaded EXCEPT ![q] = loaded[q]]
      BY <1>1 DEF SolutionsInv, SolutionsTyped
    <2>2. "over" \in Places \ {"idle"}
      BY DEF Places
    <2>3. QED
      BY <1>1, <2>1, <2>2 DEF Quiet
  <1>3. VisitInv(q)'
    <2>1. VisitInv(q) /\ at'[q] = "over"
      BY <1>1 DEF SolutionsInv, SolutionsTyped
    <2>2. \A p \in earlier[q] : at'[p] = "over"
      <3>1. earlier[q] \subseteq Visits /\ at \in [Visits -> Places]
        BY DEF SolutionsInv, SolutionsTyped
      <3>2. QED
        BY <1>1, <2>1, <3>1 DEF VisitInv, EarlierOver, Over
    <2>3. QED
      BY <2>1, <2>2 DEF VisitInv, AsksAt, WorksOnOld, WritesOwn, HasWritten, HasAnswered, EarlierOver, Over
  <1>4. QED
    BY <1>2, <1>3, QuietStep

(* A request goes on, with the row it works on.                             *)
LEMMA MoveQuiet ==
  ASSUME SolutionsInv, NEW q \in Visits, NEW place \in Places \ {"idle", "over"}, Move(q, place), NEW row,
         loaded' = [loaded EXCEPT ![q] = row], UNCHANGED <<shelf, reply>>,
         at[q] \notin {"idle", "over", "presenting"}, UNCHANGED <<admins, demand, scope, earlier>>,
         AsksAt(q)', WorksOnOld(q)', WritesOwn(q)', HasWritten(q)'
  PROVE  SolutionsInv'
  <1>1. at' = [at EXCEPT ![q] = place]
    BY DEF Move
  <1>2. Quiet(q)
    <2>1. reply' = [reply EXCEPT ![q] = reply[q]]
      BY DEF SolutionsInv, SolutionsTyped
    <2>2. QED
      BY <1>1, <2>1 DEF Quiet
  <1>3. VisitInv(q)'
    <2>1. VisitInv(q) /\ at'[q] = place /\ at[q] # "over"
      BY <1>1 DEF SolutionsInv, SolutionsTyped
    <2>2. \A p \in earlier[q] : at'[p] = "over"
      <3>1. earlier[q] \subseteq Visits /\ at \in [Visits -> Places]
        BY DEF SolutionsInv, SolutionsTyped
      <3>2. QED
        BY <1>1, <2>1, <3>1 DEF VisitInv, EarlierOver, Over
    <2>3. QED
      BY <2>1, <2>2 DEF VisitInv, HasAnswered, EarlierOver, Over
  <1>4. QED
    BY <1>2, <1>3, QuietStep

LEMMA ReceiveKeeps ==
  ASSUME SolutionsInv, NEW q \in Visits, Receive(q)
  PROVE  SolutionsInv'
  <1>1. PICK d \in Demands : demand' = [demand EXCEPT ![q] = d] /\ scope' = [scope EXCEPT ![q] = ScopeOf(d.by)]
    BY DEF Receive
  <1>2. /\ at[q] = "idle" /\ at' = [at EXCEPT ![q] = "scoped"]
        /\ earlier' = [earlier EXCEPT ![q] = {p \in Visits : Over(p)}]
        /\ UNCHANGED <<shelf, loaded, reply>>
    BY DEF Receive, Move
  <1>3. /\ at \in [Visits -> Places] /\ earlier \in [Visits -> SUBSET Visits]
        /\ demand = [p \in Visits |-> demand[p]] /\ scope = [p \in Visits |-> scope[p]]
    BY DEF SolutionsInv, SolutionsTyped
  <1>4. /\ at'[q] = "scoped" /\ demand'[q] = d /\ scope'[q] = ScopeOf(d.by)
        /\ earlier'[q] = {p \in Visits : Over(p)}
        /\ \A p \in Visits \ {q} : /\ at'[p] = at[p] /\ demand'[p] = demand[p]
                                   /\ scope'[p] = scope[p] /\ earlier'[p] = earlier[p]
    BY <1>1, <1>2, <1>3
  <1>5. SolutionsTyped'
    <2>1. at' \in [Visits -> Places]
      BY <1>2, <1>3 DEF Places
    <2>2. demand' = [p \in Visits |-> demand'[p]] /\ scope' = [p \in Visits |-> scope'[p]]
      BY <1>1, <1>3
    <2>3. earlier' \in [Visits -> SUBSET Visits]
      BY <1>2, <1>3
    <2>4. QED
      BY <1>2, <2>1, <2>2, <2>3 DEF SolutionsInv, SolutionsTyped
  <1>6. MadeByWriter' /\ AuthorsStarted'
    BY <1>2, <1>4 DEF SolutionsInv, MadeByWriter, AuthorsStarted, Written
  <1>7. OwnWords'
    <2>1. \A id \in DOMAIN shelf : DOMAIN shelf[id].author = Columns
      BY DEF SolutionsInv, SolutionsTyped, IsRow
    <2>2. QED
      BY <1>2, <1>4, <2>1 DEF SolutionsInv, OwnWords, AuthorsStarted
  <1>8. ASSUME NEW p \in Visits \ {q}
        PROVE  VisitInv(p)'
    <2>1. /\ VisitInv(p) /\ at'[p] = at[p] /\ demand'[p] = demand[p] /\ scope'[p] = scope[p]
          /\ earlier'[p] = earlier[p] /\ UNCHANGED <<shelf, loaded, reply>>
      BY <1>2, <1>4 DEF SolutionsInv
    <2>2. AsksAt(p)' /\ WorksOnOld(p)'
      BY <1>2, <1>4, <2>1 DEF VisitInv, AsksAt, WorksOnOld, Written
    <2>3. WritesOwn(p)'
      BY <2>1 DEF VisitInv, WritesOwn, New, ByAnother
    <2>4. HasWritten(p)' /\ HasAnswered(p)'
      BY <2>1 DEF VisitInv, HasWritten, HasAnswered, AnswersWith, ByAnother, Target
    <2>5. EarlierOver(p)'
      BY <1>2, <1>3, <1>4, <2>1 DEF VisitInv, EarlierOver, Over
    <2>6. QED
      BY <2>2, <2>3, <2>4, <2>5 DEF VisitInv
  <1>9. VisitInv(q)'
    <2>1. ScopeOf(d.by).owner = d.by
      BY DEF ScopeOf
    <2>2. reply'[q] = NoReply
      BY <1>2 DEF SolutionsInv, VisitInv, AsksAt
    <2>3. EarlierOver(q)'
      BY <1>2, <1>3, <1>4 DEF EarlierOver, Over
    <2>4. QED
      BY <1>4, <2>1, <2>2, <2>3 DEF VisitInv, AsksAt, WorksOnOld, WritesOwn, HasWritten, HasAnswered
  <1>10. QED
    BY <1>5, <1>6, <1>7, <1>8, <1>9 DEF SolutionsInv

LEMMA ListKeeps ==
  ASSUME SolutionsInv, NEW q \in Visits, List(q)
  PROVE  SolutionsInv'
  <1>1. /\ at[q] = "scoped" /\ demand[q].op \notin {"create", "update"}
        /\ UNCHANGED <<admins, demand, scope, earlier>>
    BY DEF List
  <1>2. CASE demand[q].op = "everyone" /\ scope[q].admin
    <2>1. \/ Reply(q, [code |-> 200, listed |-> DOMAIN shelf]) /\ UNCHANGED <<shelf, loaded>>
          \/ TurnAway(q, 403)
      BY <1>2 DEF List
    <2>2. QED
      BY <1>1, <2>1, ReadQuiet, TurnAwayQuiet
  <1>3. CASE ~(demand[q].op = "everyone" /\ scope[q].admin) /\ scope[q].owner = ApiKey
    <2>1. TurnAway(q, 403)
      BY <1>3 DEF List
    <2>2. QED
      BY <1>1, <2>1, TurnAwayQuiet
  <1>4. CASE ~(demand[q].op = "everyone" /\ scope[q].admin) /\ scope[q].owner # ApiKey
    <2>1. Reply(q, [code |-> 200, listed |-> Mine(q)]) /\ UNCHANGED <<shelf, loaded>>
      BY <1>4 DEF List
    <2>2. QED
      BY <1>1, <2>1, ReadQuiet
  <1>5. QED
    BY <1>2, <1>3, <1>4

LEMMA LoadKeeps ==
  ASSUME SolutionsInv, NEW q \in Visits, Load(q)
  PROVE  SolutionsInv'
  <1> DEFINE id == demand[q].id
  <1>1. /\ at[q] = "scoped" /\ demand[q].op \in {"get", "update", "delete"}
        /\ UNCHANGED <<admins, demand, scope, earlier>>
    BY DEF Load
  <1>2. CASE TurnAway(q, 404) \/ TurnAway(q, 403)
    BY <1>1, <1>2, TurnAwayQuiet
  <1>3. CASE /\ demand[q].op = "get"
             /\ Reply(q, [code |-> 200, row |-> shelf[id]]) /\ UNCHANGED <<shelf, loaded>>
    BY <1>1, <1>3, ReadQuiet
  <1>4. CASE /\ id \in DOMAIN shelf /\ demand[q].op # "get"
             /\ demand[q].op = "update" => MayEdit(q, shelf[id])
             /\ loaded' = [loaded EXCEPT ![q] = shelf[id]] /\ Move(q, "writing") /\ UNCHANGED <<shelf, reply>>
    <2>1. /\ at'[q] = "writing" /\ loaded'[q] = shelf[id]
          /\ VisitInv(q) /\ IsRow(shelf[id])
      BY <1>4 DEF Move, SolutionsInv, SolutionsTyped
    <2>2. AsksAt(q)'
      BY <1>1, <1>4, <2>1 DEF VisitInv, AsksAt
    <2>3. WorksOnOld(q)'
      <3>1. id \in Visits => at[id] \in Written /\ id # q
        BY <1>1, <1>4 DEF SolutionsInv, MadeByWriter, Written
      <3>2. id \in Visits => at'[id] = at[id]
        BY <1>4, <3>1 DEF Move, SolutionsInv, SolutionsTyped
      <3>3. QED
        BY <1>1, <3>1, <3>2 DEF WorksOnOld
    <2>4. WritesOwn(q)' /\ HasWritten(q)'
      BY <1>1, <1>4, <2>1 DEF WritesOwn, HasWritten, MayEdit, VisitInv, AsksAt
    <2>5. "writing" \in Places \ {"idle", "over"}
      BY DEF Places
    <2>6. QED
      BY <1>1, <1>4, <2>2, <2>3, <2>4, <2>5, MoveQuiet
  <1>5. QED
    BY <1>1, <1>2, <1>3, <1>4 DEF Load

LEMMA StartCreateKeeps ==
  ASSUME SolutionsInv, NEW q \in Visits, StartCreate(q)
  PROVE  SolutionsInv'
  <1>1. /\ at[q] = "scoped" /\ demand[q].op = "create"
        /\ UNCHANGED <<admins, demand, scope, earlier>>
    BY DEF StartCreate
  <1>2. CASE TurnAway(q, 403)
    BY <1>1, <1>2, TurnAwayQuiet
  <1>3. CASE loaded' = [loaded EXCEPT ![q] = New(q)] /\ Move(q, "naming") /\ UNCHANGED <<shelf, reply>>
    <2>1. /\ at'[q] = "naming" /\ loaded'[q] = New(q) /\ New(q)' = New(q) /\ VisitInv(q)
      BY <1>1, <1>3 DEF Move, SolutionsInv, SolutionsTyped, New
    <2>2. AsksAt(q)' /\ WorksOnOld(q)' /\ WritesOwn(q)' /\ HasWritten(q)'
      BY <1>1, <1>3, <2>1 DEF VisitInv, AsksAt, WorksOnOld, WritesOwn, HasWritten
    <2>3. "naming" \in Places \ {"idle", "over"}
      BY DEF Places
    <2>4. QED
      BY <1>1, <1>3, <2>2, <2>3, MoveQuiet
  <1>4. QED
    BY <1>2, <1>3 DEF StartCreate

(* A request that goes on with the row it has.                              *)
LEMMA GoOnQuiet ==
  ASSUME SolutionsInv, NEW q \in Visits, NEW place \in Places \ {"idle", "over"}, Move(q, place),
         UNCHANGED <<shelf, loaded, reply>>,
         at[q] \notin {"idle", "over", "presenting"}, UNCHANGED <<admins, demand, scope, earlier>>,
         AsksAt(q)', WorksOnOld(q)', WritesOwn(q)', HasWritten(q)'
  PROVE  SolutionsInv'
  <1>1. loaded' = [loaded EXCEPT ![q] = loaded[q]]
    BY DEF SolutionsInv, SolutionsTyped
  <1>2. QED
    BY <1>1, MoveQuiet

(* A writing request keeps what makes its write right until it commits.     *)
LEMMA WriterGoesOn ==
  ASSUME SolutionsInv, NEW q \in Visits, NEW place \in {"naming", "committing"}, Move(q, place),
         UNCHANGED <<shelf, loaded, reply>>, at[q] \in {"writing", "naming"},
         place = "naming" => demand[q].op = "update",
         UNCHANGED <<admins, demand, scope, earlier>>
  PROVE  SolutionsInv'
  <1>1. /\ at' = [at EXCEPT ![q] = place] /\ at'[q] = place /\ VisitInv(q)
        /\ place \in Places \ {"idle", "over"}
        /\ UNCHANGED <<demand, shelf, loaded, reply, scope, earlier>>
    BY DEF Move, SolutionsInv, SolutionsTyped, Places
  <1>2. AsksAt(q)'
    BY <1>1 DEF VisitInv, AsksAt
  <1>3. WorksOnOld(q)'
    <2>1. \A p \in Visits : at[p] \in Written => at'[p] \in Written
      BY <1>1 DEF SolutionsInv, SolutionsTyped, Written
    <2>2. QED
      BY <1>1, <2>1 DEF VisitInv, WorksOnOld
  <1>4. WritesOwn(q)'
    BY <1>1 DEF VisitInv, AsksAt, WritesOwn, New, ByAnother
  <1>5. HasWritten(q)'
    BY <1>1 DEF HasWritten
  <1>6. QED
    BY <1>1, <1>2, <1>3, <1>4, <1>5, GoOnQuiet

LEMMA LockRowKeeps ==
  ASSUME SolutionsInv, NEW q \in Visits, LockRow(q)
  PROVE  SolutionsInv'
  <1>1. at[q] = "writing" /\ UNCHANGED <<admins, demand, scope, earlier>> /\ VisitInv(q)
    BY DEF LockRow, SolutionsInv
  <1>2. CASE /\ demand[q].op = "update" /\ Changed(q) = {}
             /\ Move(q, "presenting") /\ UNCHANGED <<shelf, loaded, reply>>
    <2>1. /\ at'[q] = "presenting" /\ at' = [at EXCEPT ![q] = "presenting"]
          /\ "presenting" \in Places \ {"idle", "over"}
      BY <1>2 DEF Move, SolutionsInv, SolutionsTyped, Places
    <2>2. AsksAt(q)' /\ WritesOwn(q)'
      BY <1>1, <1>2, <2>1 DEF VisitInv, AsksAt, WritesOwn
    <2>3. WorksOnOld(q)'
      <3>1. \A p \in Visits : at[p] \in Written => at'[p] \in Written
        BY <1>1, <2>1 DEF SolutionsInv, SolutionsTyped, Written
      <3>2. QED
        BY <1>1, <1>2, <3>1 DEF VisitInv, WorksOnOld
    <2>4. HasWritten(q)'
      <3>1. \A f \in Columns : loaded[q].fields[f] = demand[q].fields[f]
        BY <1>1, <1>2 DEF Changed, VisitInv, WritesOwn, IsRow
      <3>2. demand[q].id \in DOMAIN shelf => AnswersWith(q, shelf[demand[q].id])
        BY <1>1, <1>2, <3>1 DEF VisitInv, WritesOwn, AnswersWith
      <3>3. QED
        BY <1>1, <1>2, <3>2 DEF HasWritten, Target, AnswersWith, ByAnother
    <2>5. QED
      BY <1>1, <1>2, <2>1, <2>2, <2>3, <2>4, GoOnQuiet
  <1>3. CASE \E place \in {"naming", "committing"} :
               /\ Move(q, place)
               /\ place = "naming" => demand[q].op = "update"
               /\ UNCHANGED <<shelf, loaded, reply>>
    BY <1>1, <1>3, WriterGoesOn
  <1>4. CASE TurnAway(q, 204) \/ TurnAway(q, 500)
    BY <1>1, <1>4, TurnAwayQuiet
  <1>5. QED
    BY <1>2, <1>3, <1>4 DEF LockRow

LEMMA TakeNameKeeps ==
  ASSUME SolutionsInv, NEW q \in Visits, TakeName(q) \/ DeadlockFound(q)
  PROVE  SolutionsInv'
  <1>1. at[q] = "naming" /\ UNCHANGED <<admins, demand, scope, earlier>>
    BY DEF TakeName, DeadlockFound, Awaits
  <1>2. CASE TurnAway(q, 409) \/ TurnAway(q, 500)
    BY <1>1, <1>2, TurnAwayQuiet
  <1>3. CASE Move(q, "committing") /\ UNCHANGED <<shelf, loaded, reply>>
    BY <1>1, <1>3, WriterGoesOn
  <1>4. QED
    BY <1>2, <1>3 DEF TakeName, DeadlockFound

LEMMA PresentKeeps ==
  ASSUME SolutionsInv, NEW q \in Visits, Present(q)
  PROVE  SolutionsInv'
  <1>1. at[q] = "presenting" /\ UNCHANGED <<shelf, admins, demand, scope, loaded, earlier>> /\ VisitInv(q)
    BY DEF Present, SolutionsInv
  <1>2. CASE Target(q) \notin DOMAIN shelf
    <2>1. TurnAway(q, 500)
      BY <1>1, <1>2 DEF Present, TurnAway
    <2>2. QED
      BY <1>1, <2>1, TurnAwayQuiet
  <1>3. CASE Target(q) \in DOMAIN shelf
    <2> DEFINE row == shelf[Target(q)]
    <2>1. at' = [at EXCEPT ![q] = "over"] /\ reply' = [reply EXCEPT ![q] = [code |-> 200, row |-> row]]
      BY <1>1, <1>3 DEF Present, Reply
    <2>2. Quiet(q)
      <3>1. loaded' = [loaded EXCEPT ![q] = loaded[q]]
        BY <1>1 DEF SolutionsInv, SolutionsTyped
      <3>2. "over" \in Places \ {"idle"}
        BY DEF Places
      <3>3. QED
        BY <1>1, <2>1, <3>1, <3>2 DEF Quiet
    <2>3. at'[q] = "over" /\ reply'[q].row = row
      BY <2>1 DEF SolutionsInv, SolutionsTyped
    <2>4. AnswersWith(q, row)
      BY <1>1, <1>3 DEF VisitInv, HasWritten
    <2>5. HasAnswered(q)'
      BY <1>1, <2>3, <2>4 DEF HasAnswered, AnswersWith, ByAnother
    <2>6. EarlierOver(q)'
      <3>1. earlier[q] \subseteq Visits /\ at \in [Visits -> Places]
        BY DEF SolutionsInv, SolutionsTyped
      <3>2. QED
        BY <1>1, <2>1, <3>1 DEF VisitInv, EarlierOver, Over
    <2>7. VisitInv(q)'
      BY <1>1, <2>3, <2>5, <2>6 DEF VisitInv, AsksAt, WorksOnOld, WritesOwn, HasWritten
    <2>8. QED
      BY <2>2, <2>7, QuietStep
  <1>4. QED
    BY <1>2, <1>3

(* What a committed row has become is one more request's work: nobody's     *)
(* promise about it is broken.                                             *)
LEMMA CommitKeeps ==
  ASSUME SolutionsInv, NEW q \in Visits, Commit(q)
  PROVE  SolutionsInv'
  <1> DEFINE id == demand[q].id
  <1>1. /\ at[q] = "committing" /\ VisitInv(q)
        /\ demand[q].op \in {"create", "update", "delete"}
        /\ UNCHANGED <<admins, demand, scope, loaded, earlier>>
    BY DEF Commit, SolutionsInv, VisitInv, AsksAt
  <1>2. PICK place \in Written : /\ at' = [at EXCEPT ![q] = place]
                                 /\ place = "presenting" => reply' = reply /\ demand[q].op # "delete"
                                 /\ place = "over" => /\ reply' = [reply EXCEPT ![q] = [code |-> 204]]
                                                      /\ demand[q].op = "delete"
    BY <1>1 DEF Commit, Move, Reply, Written
  <1>3. /\ at \in [Visits -> Places] /\ earlier \in [Visits -> SUBSET Visits]
        /\ reply = [p \in Visits |-> reply[p]]
    BY DEF SolutionsInv, SolutionsTyped
  <1>4. /\ at'[q] = place /\ at' \in [Visits -> Places]
        /\ \A p \in Visits \ {q} : at'[p] = at[p] /\ reply'[p] = reply[p]
        /\ reply' = [p \in Visits |-> reply'[p]]
    BY <1>2, <1>3 DEF Places, Written
  <1>5. \A p \in Visits : /\ at[p] \in Written => at'[p] \in Written
                          /\ at[p] # "idle" => at'[p] # "idle"
                          /\ at[p] = "over" => at'[p] = "over"
    BY <1>1, <1>2, <1>4 DEF Written
  (* The row written, if any: a new one, or one whose changed fields are q's. *)
  <1>6. \A x \in DOMAIN shelf' :
          \/ x \in DOMAIN shelf /\ shelf'[x] = shelf[x]
          \/ x = q /\ demand[q].op = "create" /\ shelf'[x] = New(q)
          \/ x = id /\ demand[q].op = "update" /\ x \in DOMAIN shelf /\ shelf'[x] = Updated(q, shelf[x])
    <2>1. CASE demand[q].op = "create"
      BY <1>1, <2>1 DEF Commit, VisitInv, WritesOwn
    <2>2. CASE demand[q].op = "update"
      BY <1>1, <2>2 DEF Commit
    <2>3. CASE demand[q].op = "delete"
      BY <1>1, <2>3 DEF Commit
    <2>4. QED
      BY <1>1, <2>1, <2>2, <2>3
  <1>7. demand[q].op = "create" => IsRow(New(q)) /\ New(q).owner = demand[q].by
          /\ New(q).fields = demand[q].fields /\ \A f \in Columns : New(q).author[f] = q
    <2>1. demand[q].op = "create" => DOMAIN demand[q].fields = Columns
      BY <1>1, StoredAssumption DEF VisitInv, AsksAt
    <2>2. QED
      BY <1>1, <2>1 DEF New, IsRow, VisitInv, AsksAt
  <1>8. demand[q].op = "update" /\ id \in DOMAIN shelf =>
          /\ IsRow(Updated(q, shelf[id])) /\ Updated(q, shelf[id]).owner = shelf[id].owner
          /\ shelf[id].owner = demand[q].by
          /\ \A f \in Columns :
               \/ /\ Updated(q, shelf[id]).fields[f] = demand[q].fields[f]
                  /\ Updated(q, shelf[id]).author[f] = q
               \/ /\ Updated(q, shelf[id]).fields[f] = shelf[id].fields[f]
                  /\ Updated(q, shelf[id]).author[f] = shelf[id].author[f]
                  /\ demand[q].fields[f] = loaded[q].fields[f]
    <2> SUFFICES ASSUME demand[q].op = "update", id \in DOMAIN shelf
                 PROVE  /\ IsRow(Updated(q, shelf[id])) /\ Updated(q, shelf[id]).owner = shelf[id].owner
                        /\ shelf[id].owner = demand[q].by
                        /\ \A f \in Columns :
                             \/ /\ Updated(q, shelf[id]).fields[f] = demand[q].fields[f]
                                /\ Updated(q, shelf[id]).author[f] = q
                             \/ /\ Updated(q, shelf[id]).fields[f] = shelf[id].fields[f]
                                /\ Updated(q, shelf[id]).author[f] = shelf[id].author[f]
                                /\ demand[q].fields[f] = loaded[q].fields[f]
      OBVIOUS
    <2>1. PICK row : row = shelf[id]
      OBVIOUS
    <2>2. IsRow(row) /\ IsRow(loaded[q]) /\ row.owner = demand[q].by
      BY <1>1, <2>1 DEF VisitInv, WritesOwn, SolutionsInv, SolutionsTyped
    <2>3. PICK C : C = Changed(q)
      OBVIOUS
    <2>4. \A f \in Columns : f \notin C => demand[q].fields[f] = loaded[q].fields[f]
      BY <2>2, <2>3 DEF Changed, IsRow
    <2> DEFINE texts == [f \in Columns |-> IF f \in C THEN demand[q].fields[f] ELSE row.fields[f]]
               writers == [f \in Columns |-> IF f \in C THEN q ELSE row.author[f]]
    <2>5. Updated(q, row) = [owner |-> row.owner, fields |-> texts, author |-> writers]
      <3>1. Updated(q, row) = [row EXCEPT !.fields = texts, !.author = writers]
        BY <2>2, <2>3 DEF Updated, IsRow
      <3>2. PICK a, b, c : row = [owner |-> a, fields |-> b, author |-> c]
        BY <2>2 DEF IsRow
      <3> HIDE DEF texts, writers
      <3>3. ASSUME NEW t, NEW w
            PROVE  [[owner |-> a, fields |-> b, author |-> c] EXCEPT !.fields = t, !.author = w]
                     = [owner |-> a, fields |-> t, author |-> w]
        <4>1. [[owner |-> a, fields |-> b, author |-> c] EXCEPT !.fields = t] = [owner |-> a, fields |-> t, author |-> c]
          OBVIOUS
        <4>2. [[owner |-> a, fields |-> t, author |-> c] EXCEPT !.author = w] = [owner |-> a, fields |-> t, author |-> w]
          OBVIOUS
        <4>3. QED
          BY <4>1, <4>2
      <3>4. QED
        BY <3>1, <3>2, <3>3
    <2>6. QED
      BY <2>1, <2>2, <2>4, <2>5 DEF IsRow
  <1>9. SolutionsTyped'
    BY <1>1, <1>3, <1>4, <1>6, <1>7, <1>8 DEF SolutionsInv, SolutionsTyped
  <1>10. MadeByWriter'
    BY <1>2, <1>4, <1>5, <1>6 DEF SolutionsInv, MadeByWriter, Written
  <1>11. AuthorsStarted' /\ OwnWords'
    <2> SUFFICES ASSUME NEW x \in DOMAIN shelf', NEW f \in Columns, shelf'[x].author[f] \in Visits
                 PROVE  at'[shelf'[x].author[f]] # "idle" /\ demand[shelf'[x].author[f]].by = shelf'[x].owner
      BY <1>1, <1>9 DEF AuthorsStarted, OwnWords, SolutionsTyped, IsRow
    <2>1. at'[q] # "idle"
      BY <1>2, <1>4 DEF Written
    <2>2. \A y \in DOMAIN shelf : shelf[y].author[f] \in Visits =>
            at[shelf[y].author[f]] # "idle" /\ demand[shelf[y].author[f]].by = shelf[y].owner
      BY DEF SolutionsInv, AuthorsStarted, OwnWords, SolutionsTyped, IsRow
    <2>3. CASE x \in DOMAIN shelf /\ shelf'[x] = shelf[x]
      BY <1>5, <2>2, <2>3
    <2>4. CASE x = q /\ demand[q].op = "create" /\ shelf'[x] = New(q)
      BY <1>7, <2>1, <2>4
    <2>5. CASE x = id /\ demand[q].op = "update" /\ x \in DOMAIN shelf /\ shelf'[x] = Updated(q, shelf[x])
      BY <1>5, <1>8, <2>1, <2>2, <2>5
    <2>6. QED
      BY <1>6, <2>3, <2>4, <2>5
  <1>12. ASSUME NEW p \in Visits, p # q
         PROVE  VisitInv(p)'
    <2>1. VisitInv(p) /\ at'[p] = at[p] /\ reply'[p] = reply[p] /\ UNCHANGED <<demand, scope, loaded, earlier>>
      BY <1>1, <1>4, <1>12 DEF SolutionsInv
    <2>2. AsksAt(p)' /\ WorksOnOld(p)'
      BY <1>5, <2>1 DEF VisitInv, AsksAt, WorksOnOld
    <2>3. q \notin earlier[p]
      BY <1>1, <2>1 DEF VisitInv, EarlierOver, Over
    <2>4. \A x \in DOMAIN shelf' :
            \/ x = q /\ demand[q].op = "create" /\ at[q] \notin Written
            \/ /\ x \in DOMAIN shelf
               /\ shelf'[x].owner = shelf[x].owner
               /\ \A f \in Columns : \/ ByAnother(shelf'[x], f, p)
                                     \/ /\ shelf'[x].fields[f] = shelf[x].fields[f]
                                        /\ shelf'[x].author[f] = shelf[x].author[f]
      BY <1>1, <1>6, <1>8, <1>12, <2>3 DEF ByAnother, Written
    <2>5. WritesOwn(p)'
      <3>1. at[p] \in {"naming", "committing"} /\ demand[p].op = "create" => loaded'[p] = New(p)'
        BY <2>1 DEF VisitInv, WritesOwn, New
      <3>2. ASSUME at[p] \in {"writing", "naming", "committing"}, demand[p].op = "update",
                   demand[p].id \in DOMAIN shelf'
            PROVE  /\ shelf'[demand[p].id].owner = demand[p].by
                   /\ \A f \in Columns : \/ shelf'[demand[p].id].fields[f] = loaded[p].fields[f]
                                         \/ ByAnother(shelf'[demand[p].id], f, p)
        <4>1. demand[p].id # q \/ at[q] \in Written
          BY <2>1, <3>2 DEF VisitInv, WorksOnOld
        <4>2. demand[p].id \in DOMAIN shelf
          BY <2>4, <3>2, <4>1
        <4>3. /\ shelf[demand[p].id].owner = demand[p].by
              /\ \A f \in Columns : \/ shelf[demand[p].id].fields[f] = loaded[p].fields[f]
                                    \/ ByAnother(shelf[demand[p].id], f, p)
          BY <2>1, <3>2, <4>2 DEF VisitInv, WritesOwn
        <4>4. QED
          BY <2>4, <3>2, <4>1, <4>3 DEF ByAnother
      <3>3. at[p] \in {"writing", "naming", "committing"} /\ demand[p].op = "update" => IsRow(loaded'[p])
        BY <2>1 DEF VisitInv, WritesOwn
      <3>4. QED
        BY <2>1, <3>1, <3>2, <3>3 DEF WritesOwn, ByAnother
    <2>6. HasWritten(p)'
      <3> SUFFICES ASSUME at[p] = "presenting", Target(p) \in DOMAIN shelf'
                   PROVE  \A f \in Columns : \/ shelf'[Target(p)].fields[f] = demand[p].fields[f]
                                             \/ ByAnother(shelf'[Target(p)], f, p)
        BY <2>1 DEF HasWritten, Target, AnswersWith, ByAnother
      <3>1. Target(p) # q \/ at[q] \in Written
        BY <1>12, <2>1 DEF VisitInv, WorksOnOld, Target
      <3>2. Target(p) \in DOMAIN shelf
        BY <2>4, <3>1
      <3>3. AnswersWith(p, shelf[Target(p)])
        BY <2>1, <3>2 DEF VisitInv, HasWritten
      <3>4. QED
        BY <2>4, <3>1, <3>3 DEF AnswersWith, ByAnother
    <2>7. HasAnswered(p)'
      BY <2>1 DEF VisitInv, HasAnswered, AnswersWith, ByAnother
    <2>8. EarlierOver(p)'
      BY <1>3, <1>5, <2>1 DEF VisitInv, EarlierOver, Over
    <2>9. QED
      BY <2>2, <2>5, <2>6, <2>7, <2>8 DEF VisitInv
  <1>13. VisitInv(q)'
    <2>1. EarlierOver(q)'
      BY <1>1, <1>3, <1>5 DEF VisitInv, EarlierOver, Over
    <2>2. AsksAt(q)' /\ WritesOwn(q)' /\ HasAnswered(q)'
      BY <1>1, <1>2, <1>3, <1>4 DEF VisitInv, AsksAt, WritesOwn, HasAnswered, Written
    <2>3. WorksOnOld(q)'
      BY <1>1, <1>5 DEF VisitInv, WorksOnOld
    <2>4. HasWritten(q)'
      <3> SUFFICES ASSUME at'[q] = "presenting", Target(q) \in DOMAIN shelf'
                   PROVE  \A f \in Columns : \/ shelf'[Target(q)].fields[f] = demand[q].fields[f]
                                             \/ ByAnother(shelf'[Target(q)], f, q)
        BY <1>1 DEF HasWritten, Target, AnswersWith, ByAnother
      <3>1. demand[q].op # "delete"
        BY <1>2, <1>4
      <3>2. CASE demand[q].op = "create"
        <4>1. shelf'[q] = New(q)
          BY <1>1, <3>2 DEF Commit, VisitInv, WritesOwn
        <4>2. QED
          BY <1>7, <3>2, <4>1 DEF Target
      <3>3. CASE demand[q].op = "update"
        <4>1. id \in DOMAIN shelf /\ shelf'[id] = Updated(q, shelf[id]) /\ Target(q) = id
          BY <1>1, <3>3 DEF Commit, Target
        <4>2. \A f \in Columns : shelf[id].fields[f] = loaded[q].fields[f] \/ ByAnother(shelf[id], f, q)
          BY <1>1, <3>3, <4>1 DEF VisitInv, WritesOwn
        <4>3. QED
          BY <1>8, <3>3, <4>1, <4>2 DEF ByAnother
      <3>4. QED
        BY <1>1, <3>1, <3>2, <3>3
    <2>5. QED
      BY <2>1, <2>2, <2>3, <2>4 DEF VisitInv
  <1>14. QED
    BY <1>9, <1>10, <1>11, <1>12, <1>13 DEF SolutionsInv

LEMMA SolutionsStepKeeps == SolutionsInv /\ [SolutionsNext]_solutionVars => SolutionsInv'
  <1> SUFFICES ASSUME SolutionsInv, [SolutionsNext]_solutionVars
               PROVE  SolutionsInv'
    OBVIOUS
  <1>1. ASSUME NEW q \in Visits, SolutionStep(q)
        PROVE  SolutionsInv'
    BY <1>1, ReceiveKeeps, ListKeeps, LoadKeeps, StartCreateKeeps, LockRowKeeps, TakeNameKeeps,
       CommitKeeps, PresentKeeps DEF SolutionStep
  <1>2. ASSUME UNCHANGED <<shelf, at, demand, scope, loaded, reply, earlier>>
        PROVE  SolutionsInv'
    <2>1. SolutionsTyped' /\ MadeByWriter' /\ AuthorsStarted' /\ OwnWords'
      BY <1>2 DEF SolutionsInv, SolutionsTyped, MadeByWriter, AuthorsStarted, OwnWords
    <2>2. ASSUME NEW p \in Visits
          PROVE  VisitInv(p)'
      <3>1. VisitInv(p)
        BY DEF SolutionsInv
      <3>2. AsksAt(p)' /\ WorksOnOld(p)' /\ WritesOwn(p)'
        BY <1>2, <3>1 DEF VisitInv, AsksAt, WorksOnOld, WritesOwn, New, ByAnother
      <3>3. HasWritten(p)' /\ HasAnswered(p)' /\ EarlierOver(p)'
        BY <1>2, <3>1 DEF VisitInv, HasWritten, HasAnswered, AnswersWith, ByAnother, Target, EarlierOver, Over
      <3>4. QED
        BY <3>2, <3>3 DEF VisitInv
    <2>3. QED
      BY <2>1, <2>2 DEF SolutionsInv
  <1>3. QED
    BY <1>1, <1>2 DEF SolutionsNext, ChangeRole, solutionVars

-----------------------------------------------------------------------------
(* Sign-in.                                                                *)

SignInSteps == {"idle", "working", "sending", "purging", "mailing", "ended"}

AccountRows == [exists : BOOLEAN, verified : BOOLEAN, google : BOOLEAN, secret : Makers, enabled : Makers,
                lastStep : Int, backup : SUBSET (Makers \X {1, 2}), failures : Int, lockedUntil : Int]

CodeRows == [by : Requests, created : Int, attempts : Int]

Papers == Makers \X {0, 1, 2}

SignInTyped == /\ now \in Int /\ account \in AccountRows
               /\ codes \subseteq CodeRows
               /\ step \in [Requests -> SignInSteps] /\ kind = [r \in Requests |-> kind[r]]
               /\ saw \in [Requests -> AccountRows]
               /\ sawCode \in [Requests -> CodeRows \cup {NoCode}]
               /\ doomed = [r \in Requests |-> doomed[r]]
               /\ emailed \subseteq Requests /\ removers \subseteq Requests
               /\ accepted \in [Requests -> [secret : Makers, step : Int, paper : Papers]]
               /\ before \in [Requests -> SUBSET Requests]

(* What came before a request was over, and so was what came before that.   *)
BeforeIsOver == \A r \in Requests : /\ \A u \in before[r] : Ended(u) /\ before[u] \subseteq before[r]
                                    /\ step[r] = "idle" => kind[r] = "none"

-----------------------------------------------------------------------------
(* The emailed code.                                                       *)

(* Nobody else that was at work since r began has removed codes.            *)
Alone(r) == \A u \in removers \ {r} : u \in before[r]

(* A request that replaces the codes, alone, finds them all, and its own    *)
(* code is then the only one.                                              *)
ReplacesCodes(r) ==
  /\ step[r] \in {"purging", "mailing"} => r \in removers
  /\ r \in emailed => Ended(r)
  /\ step[r] = "purging" /\ Alone(r) => \A c \in codes : c.by \in doomed[r]
  /\ (step[r] = "mailing" \/ r \in emailed) /\ Alone(r) => \E c \in codes : codes = {c} /\ c.by = r

CodesInv == SignInTyped /\ BeforeIsOver /\ \A r \in Requests : ReplacesCodes(r)

-----------------------------------------------------------------------------
(* The second factor.                                                      *)

AtWork(r) == step[r] = "working"

(* Another request was accepted that was at work at the same time.          *)
Rivalled(r) == \E u \in Requests : Overlap(u, r) /\ accepted[u] # NoFactor

(* A request that was accepted is over; one that is at work and has no      *)
(* rival has seen the factors as they are.                                 *)
AcceptedAtEnd(r) == ~Ended(r) => accepted[r] = NoFactor

SeesFactors(r) == AtWork(r) /\ ~Rivalled(r) =>
                    /\ account.enabled = saw[r].enabled /\ account.lastStep = saw[r].lastStep
                    /\ account.backup = saw[r].backup

(* No row accepts the factor f.                                            *)
Spent(row, f) == IF f.secret = Nobody THEN f.paper \notin row.backup
                 ELSE row.secret = f.secret => row.lastStep >= f.step /\ row.enabled # Nobody

SpentForGood(r) == accepted[r] # NoFactor /\ ~Rivalled(r) =>
                     /\ Spent(account, accepted[r])
                     /\ \A s \in Requests : AtWork(s) /\ r \in before[s] => Spent(saw[s], accepted[r])

(* Secrets and backup codes come from requests that are over, ...           *)
Known(rs) == {Nobody, Earlier} \cup rs

KnownFactors(row, rs) == row.secret \in Known(rs) /\ \A p \in row.backup : p[1] \in Known(rs)

OriginsKnown(r) == /\ AtWork(r) => KnownFactors(saw[r], before[r])
                   /\ accepted[r].secret \in Known(before[r]) /\ accepted[r].paper[1] \in Known(before[r])

(* ... and one that was replaced never comes back.                          *)
SecretMovesOn(r) == AtWork(r) => account.secret \in {saw[r].secret, Nobody} \cup (Requests \ before[r])

(* What has no account has no second factor.                               *)
NoFactors(row) == ~row.exists => row.secret = Nobody /\ row.enabled = Nobody /\ row.lastStep = 0 /\ row.backup = {}

ExistsForGood(r) == /\ NoFactors(saw[r]) /\ (saw[r].exists => account.exists)
                    /\ AtWork(r) /\ kind[r] \in {"mfa_setup", "mfa_enable", "mfa_disable"} => saw[r].exists

(* The secret that a confirmation confirms is in the account.               *)
Disturbed(r) == \E u \in Requests : kind[u] \in {"mfa_setup", "mfa_disable"} /\ Overlap(u, r)

ConfirmsSecret(r) == AtWork(r) => account.secret = saw[r].secret \/ Disturbed(r)

(* A request that began after two-step sign-in was enabled knows it.        *)
SeesEnabled(r) == AtWork(r) /\ account.enabled \in before[r] => saw[r].enabled = account.enabled

FactorInv(r) == /\ AcceptedAtEnd(r) /\ SeesFactors(r) /\ SpentForGood(r) /\ OriginsKnown(r)
                /\ SecretMovesOn(r) /\ ExistsForGood(r) /\ ConfirmsSecret(r) /\ SeesEnabled(r)

AccountInv == /\ KnownFactors(account, {r \in Requests : Ended(r)})
              /\ account.enabled \in Requests => Ended(account.enabled)
              /\ NoFactors(account)

MfaInv == /\ SignInTyped /\ BeforeIsOver /\ AccountInv
          /\ \A r \in Requests : FactorInv(r)
          /\ FactorUsedOnce /\ EnabledConfirmed

-----------------------------------------------------------------------------
(* The steps of a handler.                                                 *)

Handler(r) == \/ Signup(r) \/ AskForCode(r) \/ Login(r) \/ Purge(r) \/ Issue(r) \/ Mail(r) \/ MailFails(r)
              \/ EnterCode(r) \/ Google(r)
              \/ MfaVerify(r) \/ MfaSetup(r) \/ MfaEnable(r) \/ MfaDisable(r)

(* What they do to the request itself.                                      *)
Handled(r) == /\ step[r] \notin {"idle", "ended"}
              /\ \E s \in {"sending", "purging", "mailing", "ended"} : step' = [step EXCEPT ![r] = s]
              /\ \E row \in {saw[r], NoAccount} : saw' = [saw EXCEPT ![r] = row]
              /\ UNCHANGED <<now, kind, before>>

LEMMA NoAccountTyped == NoAccount \in AccountRows /\ Unconfirmed \in AccountRows
  <1>1. NoAccount \in AccountRows
    BY DEF NoAccount, AccountRows, Makers
  <1>2. [NoAccount EXCEPT !.exists = TRUE] \in AccountRows
    BY <1>1 DEF AccountRows
  <1>3. QED
    BY <1>1, <1>2 DEF Unconfirmed

(* The columns of the second factor.                                        *)
SameFactors(x, y) == x.secret = y.secret /\ x.enabled = y.enabled /\ x.lastStep = y.lastStep /\ x.backup = y.backup

(* Rows with a column set.                                                  *)
WithVerified(row) == [row EXCEPT !.verified = TRUE]
WithGoogle(row) == [row EXCEPT !.exists = TRUE, !.verified = TRUE, !.google = TRUE]
WithFailures(row, x) == [row EXCEPT !.failures = x]
WithLock(row, x, y) == [row EXCEPT !.failures = x, !.lockedUntil = y]
WithLastStep(row, x) == [row EXCEPT !.lastStep = x]
WithBackup(row, x) == [row EXCEPT !.backup = x]
WithSecret(row, x) == [row EXCEPT !.secret = x]

LEMMA VerifiedSet ==
  ASSUME NEW row \in AccountRows
  PROVE  /\ WithVerified(row) \in AccountRows
         /\ SameFactors(WithVerified(row), row) /\ WithVerified(row).exists = row.exists
  <1>1. WithVerified(row) \in AccountRows
    BY DEF WithVerified, AccountRows
  <1>2. DOMAIN row = {"exists", "verified", "google", "secret", "enabled", "lastStep", "backup", "failures",
                      "lockedUntil"}
    BY DEF AccountRows
  <1>3. QED
    BY <1>1, <1>2 DEF WithVerified, SameFactors

LEMMA GoogleSet ==
  ASSUME NEW row \in AccountRows
  PROVE  /\ WithGoogle(row) \in AccountRows
         /\ SameFactors(WithGoogle(row), row) /\ WithGoogle(row).exists
  <1>1. WithGoogle(row) \in AccountRows
    BY DEF WithGoogle, AccountRows
  <1>2. DOMAIN row = {"exists", "verified", "google", "secret", "enabled", "lastStep", "backup", "failures",
                      "lockedUntil"}
    BY DEF AccountRows
  <1>3. QED
    BY <1>1, <1>2 DEF WithGoogle, SameFactors

LEMMA FailuresSet ==
  ASSUME NEW row \in AccountRows, NEW x \in Int
  PROVE  /\ WithFailures(row, x) \in AccountRows
         /\ SameFactors(WithFailures(row, x), row) /\ WithFailures(row, x).exists = row.exists
  <1>1. WithFailures(row, x) \in AccountRows
    BY DEF WithFailures, AccountRows
  <1>2. DOMAIN row = {"exists", "verified", "google", "secret", "enabled", "lastStep", "backup", "failures",
                      "lockedUntil"}
    BY DEF AccountRows
  <1>3. QED
    BY <1>1, <1>2 DEF WithFailures, SameFactors

LEMMA LockSet ==
  ASSUME NEW row \in AccountRows, NEW x \in Int, NEW y \in Int
  PROVE  /\ WithLock(row, x, y) \in AccountRows
         /\ SameFactors(WithLock(row, x, y), row) /\ WithLock(row, x, y).exists = row.exists
  <1>1. WithLock(row, x, y) \in AccountRows
    BY DEF WithLock, AccountRows
  <1>2. DOMAIN row = {"exists", "verified", "google", "secret", "enabled", "lastStep", "backup", "failures",
                      "lockedUntil"}
    BY DEF AccountRows
  <1>3. QED
    BY <1>1, <1>2 DEF WithLock, SameFactors

LEMMA LastStepSet ==
  ASSUME NEW row \in AccountRows, NEW x \in Int
  PROVE  /\ WithLastStep(row, x) \in AccountRows
         /\ WithLastStep(row, x).exists = row.exists
         /\ WithLastStep(row, x).secret = row.secret
         /\ WithLastStep(row, x).enabled = row.enabled
         /\ WithLastStep(row, x).lastStep = x
         /\ WithLastStep(row, x).backup = row.backup
  <1>1. WithLastStep(row, x) \in AccountRows
    BY DEF WithLastStep, AccountRows
  <1>2. DOMAIN row = {"exists", "verified", "google", "secret", "enabled", "lastStep", "backup", "failures",
                      "lockedUntil"}
    BY DEF AccountRows
  <1>3. QED
    BY <1>1, <1>2 DEF WithLastStep, SameFactors

LEMMA BackupSet ==
  ASSUME NEW row \in AccountRows, NEW x \in SUBSET (Makers \X {1, 2})
  PROVE  /\ WithBackup(row, x) \in AccountRows
         /\ WithBackup(row, x).exists = row.exists
         /\ WithBackup(row, x).secret = row.secret
         /\ WithBackup(row, x).enabled = row.enabled
         /\ WithBackup(row, x).lastStep = row.lastStep
         /\ WithBackup(row, x).backup = x
  <1>1. WithBackup(row, x) \in AccountRows
    BY DEF WithBackup, AccountRows
  <1>2. DOMAIN row = {"exists", "verified", "google", "secret", "enabled", "lastStep", "backup", "failures",
                      "lockedUntil"}
    BY DEF AccountRows
  <1>3. QED
    BY <1>1, <1>2 DEF WithBackup, SameFactors

LEMMA SecretSet ==
  ASSUME NEW row \in AccountRows, NEW x \in Makers
  PROVE  /\ WithSecret(row, x) \in AccountRows
         /\ WithSecret(row, x).exists = row.exists
         /\ WithSecret(row, x).secret = x
         /\ WithSecret(row, x).enabled = row.enabled
         /\ WithSecret(row, x).lastStep = row.lastStep
         /\ WithSecret(row, x).backup = row.backup
  <1>1. WithSecret(row, x) \in AccountRows
    BY DEF WithSecret, AccountRows
  <1>2. DOMAIN row = {"exists", "verified", "google", "secret", "enabled", "lastStep", "backup", "failures",
                      "lockedUntil"}
    BY DEF AccountRows
  <1>3. QED
    BY <1>1, <1>2 DEF WithSecret, SameFactors

LEMMA AnswerHandles ==
  ASSUME SignInTyped, NEW r \in Requests, step[r] \notin {"idle", "ended"},
         \/ \E a : Answer(r, a)
         \/ \E s \in {"sending", "mailing"} : Continue(r, s),
         UNCHANGED <<now, kind, before>>
  PROVE  /\ Handled(r)
         /\ step' \in [Requests -> SignInSteps] /\ saw' \in [Requests -> AccountRows]
         /\ sawCode' \in [Requests -> CodeRows \cup {NoCode}]
         /\ doomed' = [p \in Requests |-> doomed'[p]]
  <1>1. CASE \E a : Answer(r, a)
    <2>1. PICK a : Answer(r, a)
      BY <1>1
    <2>2. step' = [step EXCEPT ![r] = "ended"] /\ saw' = [saw EXCEPT ![r] = NoAccount]
          /\ sawCode' = [sawCode EXCEPT ![r] = NoCode] /\ doomed' = [doomed EXCEPT ![r] = {}]
      BY <2>1 DEF Answer
    <2>3. Handled(r)
      BY <2>2 DEF Handled
    <2>4. step' \in [Requests -> SignInSteps] /\ saw' \in [Requests -> AccountRows]
      BY <2>2, NoAccountTyped DEF SignInTyped, SignInSteps
    <2>5. sawCode' \in [Requests -> CodeRows \cup {NoCode}] /\ doomed' = [p \in Requests |-> doomed'[p]]
      BY <2>2 DEF SignInTyped
    <2>6. QED
      BY <2>3, <2>4, <2>5
  <1>2. CASE \E s \in {"sending", "mailing"} : Continue(r, s)
    <2>1. saw' = [saw EXCEPT ![r] = saw[r]]
      BY <1>2 DEF Continue, SignInTyped
    <2>2. QED
      BY <1>2, <2>1 DEF Continue, Handled, SignInTyped, SignInSteps
  <1>3. QED
    BY <1>1, <1>2

(* A flush changes the columns that differ from what was read.              *)
LEMMA SaveColumns ==
  ASSUME SignInTyped, NEW r \in Requests, NEW row \in AccountRows, Save(r, row)
  PROVE  /\ account' \in AccountRows
         /\ account'.exists = IF row.exists # saw[r].exists THEN row.exists ELSE account.exists
         /\ account'.secret = IF row.secret # saw[r].secret THEN row.secret ELSE account.secret
         /\ account'.enabled = IF row.enabled # saw[r].enabled THEN row.enabled ELSE account.enabled
         /\ account'.lastStep = IF row.lastStep # saw[r].lastStep THEN row.lastStep ELSE account.lastStep
         /\ account'.backup = IF row.backup # saw[r].backup THEN row.backup ELSE account.backup
  <1>1. account \in AccountRows /\ saw[r] \in AccountRows
    BY DEF SignInTyped
  <1>2. PICK read : read = saw[r]
    OBVIOUS
  <1>3. account' = [f \in DOMAIN account |-> IF row[f] # read[f] THEN row[f] ELSE account[f]]
    BY <1>2 DEF Save
  <1>4. DOMAIN account = {"exists", "verified", "google", "secret", "enabled", "lastStep", "backup", "failures",
                          "lockedUntil"}
    BY <1>1 DEF AccountRows
  <1>5. account' \in AccountRows
    <2> DEFINE value(f) == IF row[f] # read[f] THEN row[f] ELSE account[f]
    <2>1. account' = [exists |-> value("exists"), verified |-> value("verified"), google |-> value("google"),
                      secret |-> value("secret"), enabled |-> value("enabled"), lastStep |-> value("lastStep"),
                      backup |-> value("backup"), failures |-> value("failures"), lockedUntil |-> value("lockedUntil")]
      BY <1>3, <1>4
    <2>2. /\ value("exists") \in BOOLEAN /\ value("verified") \in BOOLEAN /\ value("google") \in BOOLEAN
          /\ value("secret") \in Makers /\ value("enabled") \in Makers /\ value("lastStep") \in Int
          /\ value("backup") \in SUBSET (Makers \X {1, 2}) /\ value("failures") \in Int
          /\ value("lockedUntil") \in Int
      BY <1>1 DEF AccountRows
    <2> HIDE DEF value
    <2>3. QED
      BY <2>1, <2>2 DEF AccountRows
  <1>6. QED
    BY <1>2, <1>3, <1>4, <1>5

(* A step that touches no factor.                                           *)
Plain == /\ account' \in AccountRows /\ accepted' = accepted
         /\ account.exists => account'.exists
         /\ NoFactors(account) => SameFactors(account', account)

LEMMA SavePlain ==
  ASSUME SignInTyped, NEW r \in Requests, NEW row \in AccountRows, Save(r, row), UNCHANGED accepted,
         SameFactors(row, saw[r]), row.exists = saw[r].exists \/ row.exists
  PROVE  Plain
  BY SaveColumns DEF Plain, SameFactors

(* What an action does to the factors, if anything.                         *)
SetsUp(r) == /\ AtWork(r) /\ Ended(r)' /\ kind[r] = "mfa_setup" /\ saw[r].enabled = Nobody
             /\ account'.secret \in {r, account.secret}
             /\ account'.enabled = account.enabled /\ account'.lastStep = account.lastStep
             /\ account'.backup = account.backup
             /\ accepted' = accepted

(* A factor as a row accepts it: of the app or on paper.                    *)
FitsApp(row, f) == f.secret # Nobody /\ f.secret = row.secret /\ f.step > row.lastStep
FitsPaper(row, f) == f.secret = Nobody /\ f.paper \in row.backup

Accepts(r, f) == AtWork(r) /\ Ended(r)' /\ accepted' = [accepted EXCEPT ![r] = f]

Verifies(r, f) ==
  /\ Accepts(r, f) /\ saw[r].enabled # Nobody
  /\ account'.secret = account.secret /\ account'.enabled = account.enabled
  /\ \/ /\ FitsApp(saw[r], f) /\ f.paper = NoPaper
        /\ account'.lastStep = f.step /\ account'.backup = account.backup
     \/ /\ FitsPaper(saw[r], f)
        /\ account'.lastStep = account.lastStep /\ account'.backup = saw[r].backup \ {f.paper}

Enables(r, f) ==
  /\ Accepts(r, f) /\ saw[r].enabled = Nobody /\ kind[r] = "mfa_enable"
  /\ f.secret # Nobody /\ f.secret = saw[r].secret /\ f.paper = NoPaper
  /\ account'.secret = account.secret /\ account'.enabled = r
  /\ account'.lastStep = IF f.step # saw[r].lastStep THEN f.step ELSE account.lastStep
  /\ account'.backup \in {BackupOf(r), account.backup}

Disables(r, f) ==
  /\ Accepts(r, f) /\ saw[r].enabled # Nobody /\ kind[r] = "mfa_disable"
  /\ (FitsApp(saw[r], f) /\ f.paper = NoPaper) \/ FitsPaper(saw[r], f)
  /\ account'.secret = (IF saw[r].secret # Nobody THEN Nobody ELSE account.secret)
  /\ account'.enabled = Nobody
  /\ account'.lastStep \in {0, account.lastStep}
  /\ account'.backup = IF saw[r].backup # {} THEN {} ELSE account.backup

Factors == [secret : Makers, step : Int, paper : Papers]

ChangesFactors(r) == /\ account' \in AccountRows /\ (account'.exists \/ account'.exists = account.exists)
                     /\ \/ SetsUp(r)
                        \/ \E f \in Factors : Verifies(r, f) \/ Enables(r, f) \/ Disables(r, f)

(* A step of the handler of r.                                              *)
HandlerStep(r) == Handled(r) /\ SignInTyped' /\ (Plain \/ ChangesFactors(r))

LEMMA PlainSame ==
  ASSUME SignInTyped, UNCHANGED <<account, accepted>>
  PROVE  Plain
  BY DEF Plain, SignInTyped, SameFactors

LEMMA NewestTyped == SignInTyped => Newest \subseteq CodeRows \cup {NoCode}
  BY DEF Newest, SignInTyped

LEMMA SendingSteps ==
  ASSUME SignInTyped, NEW r \in Requests, AskForCode(r) \/ Login(r) \/ Purge(r) \/ Issue(r) \/ Mail(r) \/ MailFails(r)
  PROVE  HandlerStep(r)
  <1>1. CASE AskForCode(r) \/ Login(r)
    <2>1. /\ step[r] = "working" /\ UNCHANGED <<now, account, codes, kind, histories>>
          /\ (\E a : Answer(r, a)) \/ (\E s \in {"sending", "mailing"} : Continue(r, s))
      BY <1>1 DEF AskForCode, Login, Working, PasswordWrong, PasswordRight
    <2>2. QED
      BY <2>1, AnswerHandles, PlainSame DEF HandlerStep, SignInTyped, histories
  <1>2. CASE Purge(r) /\ CoolingDown
    <2>1. /\ step[r] = "sending" /\ UNCHANGED <<now, account, codes, kind, histories>>
          /\ Answer(r, Refused(r))
      BY <1>2 DEF Purge, histories
    <2>2. QED
      BY <2>1, AnswerHandles, PlainSame DEF HandlerStep, SignInTyped, histories
  <1>3. CASE Purge(r) /\ ~CoolingDown
    <2>1. /\ step[r] = "sending" /\ step' = [step EXCEPT ![r] = "purging"]
          /\ doomed' = [doomed EXCEPT ![r] = {c.by : c \in codes}]
          /\ removers' = removers \cup {r}
          /\ UNCHANGED <<saw, sawCode, now, account, codes, kind, emailed, accepted, before>>
      BY <1>3 DEF Purge
    <2>2. Handled(r)
      <3>1. saw' = [saw EXCEPT ![r] = saw[r]]
        BY <2>1 DEF SignInTyped
      <3>2. QED
        BY <2>1, <3>1 DEF Handled
    <2>3. step' \in [Requests -> SignInSteps] /\ doomed' = [p \in Requests |-> doomed'[p]]
      BY <2>1 DEF SignInTyped, SignInSteps
    <2>4. QED
      BY <2>1, <2>2, <2>3, PlainSame DEF HandlerStep, SignInTyped
  <1>4. CASE Issue(r)
    <2>1. /\ step[r] = "purging" /\ Continue(r, "mailing")
          /\ codes' = {c \in codes : c.by \notin doomed[r]} \cup {[by |-> r, created |-> now, attempts |-> 0]}
          /\ UNCHANGED <<now, account, kind, histories>>
      BY <1>4 DEF Issue
    <2>2. codes' \subseteq CodeRows
      BY <2>1 DEF SignInTyped, CodeRows
    <2>3. Handled(r) /\ SignInTyped'
      BY <2>1, <2>2, AnswerHandles DEF SignInTyped, histories
    <2>4. QED
      BY <2>1, <2>3, PlainSame DEF HandlerStep, histories
  <1>5. CASE Mail(r) \/ MailFails(r)
    <2>1. /\ step[r] = "mailing" /\ \E a : Answer(r, a)
          /\ codes' \subseteq codes /\ emailed' \in {emailed, emailed \cup {r}}
          /\ UNCHANGED <<now, account, kind, removers, accepted, before>>
      BY <1>5 DEF Mail, MailFails, histories
    <2>2. Handled(r) /\ SignInTyped'
      BY <2>1, AnswerHandles DEF SignInTyped
    <2>3. QED
      BY <2>1, <2>2, PlainSame DEF HandlerStep
  <1>6. QED
    BY <1>1, <1>2, <1>3, <1>4, <1>5

LEMMA SignupSteps ==
  ASSUME SignInTyped, NEW r \in Requests, Signup(r)
  PROVE  HandlerStep(r)
  <1>1. /\ step[r] = "working" /\ UNCHANGED <<now, codes, kind, histories>>
        /\ (\E a : Answer(r, a)) \/ (\E s \in {"sending", "mailing"} : Continue(r, s))
        /\ account' = account \/ (~account.exists /\ account' = Unconfirmed)
    BY DEF Signup, Working
  <1>2. account' \in AccountRows
    BY <1>1, NoAccountTyped DEF SignInTyped
  <1>3. Handled(r) /\ SignInTyped'
    BY <1>1, <1>2, AnswerHandles DEF SignInTyped, histories
  <1>4. SameFactors(Unconfirmed, NoAccount)
    BY DEF SameFactors, Unconfirmed, NoAccount
  <1>5. Plain
    BY <1>1, <1>2, <1>4 DEF Plain, SameFactors, NoFactors, NoAccount, histories
  <1>6. QED
    BY <1>3, <1>5 DEF HandlerStep

LEMMA EnterCodeSteps ==
  ASSUME SignInTyped, NEW r \in Requests, EnterCode(r)
  PROVE  HandlerStep(r)
  <1>1. /\ step[r] = "working" /\ UNCHANGED <<now, kind, emailed, accepted, before>>
        /\ \E a : Answer(r, a)
        /\ removers' \in {removers, removers \cup {r}}
    BY DEF EnterCode, Working, DeleteCode, WrongCode, RightCode
  <1>2. codes' \subseteq CodeRows
    <2>1. CASE codes' \subseteq codes
      BY <2>1 DEF SignInTyped
    <2>2. CASE codes' = {IF c.by = sawCode[r].by THEN [c EXCEPT !.attempts = sawCode[r].attempts + 1] ELSE c : c \in codes}
      <3>1. sawCode[r].attempts + 1 \in Int
        BY DEF SignInTyped, CodeRows, NoCode
      <3>2. \A c \in CodeRows : [c EXCEPT !.attempts = sawCode[r].attempts + 1] \in CodeRows
        BY <3>1 DEF CodeRows
      <3>3. QED
        BY <2>2, <3>2 DEF SignInTyped
    <2>3. QED
      BY <2>1, <2>2 DEF EnterCode, DeleteCode, WrongCode, RightCode
  <1>3. account' \in AccountRows /\ Plain
    <2>1. CASE RightCode(r)
      <3> DEFINE row == [saw[r] EXCEPT !.verified = TRUE]
      <3>1. row \in AccountRows /\ SameFactors(row, saw[r]) /\ row.exists = saw[r].exists
        <4>1. row = WithVerified(saw[r])
          BY DEF WithVerified
        <4> HIDE DEF row
        <4>2. QED
          BY <4>1, VerifiedSet DEF SignInTyped
      <3>2. Save(r, row)
        BY <2>1 DEF RightCode
      <3> HIDE DEF row
      <3>3. Plain
        BY <1>1, <3>1, <3>2, SavePlain
      <3>4. QED
        BY <3>3 DEF Plain
    <2>2. CASE account' = account
      BY <1>1, <2>2, PlainSame DEF SignInTyped
    <2>3. QED
      BY <2>1, <2>2 DEF EnterCode, DeleteCode, WrongCode
  <1>4. Handled(r) /\ SignInTyped'
    BY <1>1, <1>2, <1>3, AnswerHandles DEF SignInTyped
  <1>5. QED
    BY <1>3, <1>4 DEF HandlerStep

LEMMA GoogleSteps ==
  ASSUME SignInTyped, NEW r \in Requests, Google(r)
  PROVE  HandlerStep(r)
  <1> DEFINE row == [saw[r] EXCEPT !.exists = TRUE, !.verified = TRUE, !.google = TRUE]
  <1>1. /\ step[r] = "working" /\ UNCHANGED <<now, codes, kind, histories>> /\ \E a : Answer(r, a)
        /\ account' = account \/ Save(r, row)
    BY DEF Google, Working
  <1>2. row \in AccountRows /\ SameFactors(row, saw[r]) /\ row.exists
    <2>1. row = WithGoogle(saw[r])
      BY DEF WithGoogle
    <2> HIDE DEF row
    <2>2. QED
      BY <2>1, GoogleSet DEF SignInTyped
  <1> HIDE DEF row
  <1>3. Plain
    BY <1>1, <1>2, SavePlain, PlainSame DEF histories
  <1>4. Handled(r) /\ SignInTyped'
    BY <1>1, <1>3, AnswerHandles DEF SignInTyped, Plain, histories
  <1>5. QED
    BY <1>3, <1>4 DEF HandlerStep

LEMMA CodesShown ==
  ASSUME SignInTyped
  PROVE  /\ AppCodes \cup PaperCodes \subseteq Factors
         /\ \A f \in AppCodes : f.secret # Nobody /\ f.paper = NoPaper
         /\ \A f \in PaperCodes : f.secret = Nobody
  <1>1. Shown \subseteq Makers /\ Nobody \notin Shown
    BY ConstantsAssumption DEF Shown, Makers
  <1>2. NoPaper \in Papers
    BY DEF NoPaper, Papers, Makers
  <1>3. (now - 1)..(now + 1) \subseteq Int /\ 0 \in Int /\ Nobody \in Makers
    BY DEF SignInTyped, Makers
  <1>4. UNION {BackupOf(r) : r \in Makers \ {Nobody}} \subseteq Papers
    BY DEF BackupOf, Papers
  <1>5. AppCodes \subseteq Factors
    BY <1>1, <1>2, <1>3 DEF AppCodes, Factors
  <1>6. PaperCodes \subseteq Factors
    BY <1>3, <1>4 DEF PaperCodes, Factors
  <1>7. QED
    BY <1>1, <1>5, <1>6 DEF AppCodes, PaperCodes

LEMMA NoPaperUnused ==
  ASSUME NEW row \in AccountRows
  PROVE  NoPaper \notin row.backup
  BY DEF AccountRows, NoPaper

(* How the two second factors fit a row.                                    *)
LEMMA UsedFits ==
  ASSUME NEW row \in AccountRows, SignInTyped, NEW f \in AppCodes \cup PaperCodes, NEW new \in Used(row, f)
  PROVE  \/ FitsApp(row, f) /\ f.paper = NoPaper /\ new = [row EXCEPT !.lastStep = f.step]
         \/ FitsPaper(row, f) /\ new = [row EXCEPT !.backup = @ \ {f.paper}]
  <1>1. CASE f \in AppCodes
    <2>1. f.secret # Nobody /\ f.paper = NoPaper
      BY <1>1, CodesShown
    <2>2. f.paper \notin row.backup
      BY <2>1, NoPaperUnused
    <2>3. QED
      BY <2>1, <2>2 DEF Used, VerifyTotp, FitsApp
  <1>2. CASE f \in PaperCodes
    <2>1. f.secret = Nobody
      BY <1>2, CodesShown
    <2>2. QED
      BY <2>1 DEF Used, VerifyTotp, FitsPaper
  <1>3. QED
    BY <1>1, <1>2

LEMMA FailureNoted ==
  ASSUME SignInTyped, NEW r \in Requests, NoteFailure(r)
  PROVE  Plain
  <1> DEFINE row == Noted(saw[r])
  <1>1. saw[r] \in AccountRows /\ saw[r].failures + 1 \in Int /\ now + LockTime \in Int
    BY ConstantsAssumption DEF SignInTyped, AccountRows
  <1>2. row \in AccountRows /\ SameFactors(row, saw[r]) /\ row.exists = saw[r].exists
    <2>1. CASE saw[r].failures + 1 >= MaxAttempts
      <3>1. PICK until \in Int : until = now + LockTime
        BY <1>1
      <3>2. row = WithLock(saw[r], 0, until)
        BY <2>1, <3>1 DEF Noted, WithLock
      <3> HIDE DEF row
      <3>3. PICK read \in AccountRows : read = saw[r]
        BY <1>1
      <3>4. 0 \in Int
        OBVIOUS
      <3>5. /\ WithLock(read, 0, until) \in AccountRows
            /\ SameFactors(WithLock(read, 0, until), read)
            /\ WithLock(read, 0, until).exists = read.exists
        BY <3>1, <3>3, <3>4, LockSet
      <3>6. QED
        BY <3>2, <3>3, <3>5
    <2>2. CASE ~(saw[r].failures + 1 >= MaxAttempts)
      <3>1. row = WithFailures(saw[r], saw[r].failures + 1)
        BY <2>2 DEF Noted, WithFailures
      <3> HIDE DEF row
      <3>2. QED
        BY <1>1, <3>1, FailuresSet
    <2>3. QED
      BY <2>1, <2>2
  <1>3. Save(r, row) /\ accepted' = accepted
    BY DEF NoteFailure
  <1> HIDE DEF row
  <1>4. QED
    BY <1>2, <1>3, SavePlain

LEMMA AcceptTyped ==
  ASSUME SignInTyped, NEW r \in Requests, NEW f \in Factors, accepted' = [accepted EXCEPT ![r] = f]
  PROVE  accepted' \in [Requests -> Factors]
  BY DEF SignInTyped, Factors

LEMMA VerifySteps ==
  ASSUME SignInTyped, NEW r \in Requests, MfaVerify(r)
  PROVE  HandlerStep(r)
  <1>1. AtWork(r) /\ UNCHANGED <<now, codes, kind, emailed, removers, before>> /\ \E a : Answer(r, a)
    BY DEF MfaVerify, Working, AtWork, Refuse, NoteFailure
  <1>2. CASE Refuse(r) \/ NoteFailure(r)
    <2>1. Plain
      BY <1>2, PlainSame, FailureNoted DEF Refuse
    <2>2. Handled(r) /\ SignInTyped'
      BY <1>1, <2>1, AnswerHandles DEF SignInTyped, Plain, AtWork
    <2>3. QED
      BY <2>1, <2>2 DEF HandlerStep
  <1>3. ASSUME saw[r].enabled # Nobody, NEW f \in AppCodes \cup PaperCodes, NEW row \in Used(saw[r], f),
               Save(r, [row EXCEPT !.failures = 0, !.lockedUntil = 0]), Accept(r, f), Answer(r, "session")
        PROVE  HandlerStep(r)
    <2>1. saw[r] \in AccountRows /\ f \in Factors
      BY CodesShown DEF SignInTyped
    <2> DEFINE new == [row EXCEPT !.failures = 0, !.lockedUntil = 0]
    <2>2. /\ row \in AccountRows /\ row.secret = saw[r].secret /\ row.enabled = saw[r].enabled
          /\ row.exists = saw[r].exists
          /\ \/ /\ FitsApp(saw[r], f) /\ f.paper = NoPaper
                /\ row.lastStep = f.step /\ row.backup = saw[r].backup
             \/ /\ FitsPaper(saw[r], f)
                /\ row.lastStep = saw[r].lastStep /\ row.backup = saw[r].backup \ {f.paper}
      <3>1. CASE FitsApp(saw[r], f) /\ f.paper = NoPaper /\ row = [saw[r] EXCEPT !.lastStep = f.step]
        <4>1. f.step \in Int
          BY <2>1 DEF Factors
        <4>2. /\ row \in AccountRows /\ row.exists = saw[r].exists /\ row.secret = saw[r].secret
              /\ row.enabled = saw[r].enabled /\ row.lastStep = f.step /\ row.backup = saw[r].backup
          <5>1. row = WithLastStep(saw[r], f.step)
            BY <3>1 DEF WithLastStep
          <5>2. QED
            BY <2>1, <4>1, <5>1, LastStepSet
        <4>3. QED
          BY <3>1, <4>2
      <3>2. CASE FitsPaper(saw[r], f) /\ row = [saw[r] EXCEPT !.backup = @ \ {f.paper}]
        <4>1. saw[r].backup \ {f.paper} \in SUBSET (Makers \X {1, 2})
          BY <2>1 DEF AccountRows
        <4>2. row = WithBackup(saw[r], saw[r].backup \ {f.paper})
          BY <3>2 DEF WithBackup
        <4>3. /\ row \in AccountRows /\ row.exists = saw[r].exists /\ row.secret = saw[r].secret
              /\ row.enabled = saw[r].enabled /\ row.lastStep = saw[r].lastStep
              /\ row.backup = saw[r].backup \ {f.paper}
          BY <2>1, <4>1, <4>2, BackupSet
        <4>4. QED
          BY <3>2, <4>3
      <3>3. QED
        BY <1>3, <2>1, <3>1, <3>2, UsedFits
    <2>3. new \in AccountRows /\ SameFactors(new, row) /\ new.exists = row.exists
      <3>1. new = WithLock(row, 0, 0)
        BY DEF WithLock
      <3> HIDE DEF new
      <3>2. QED
        BY <2>2, <3>1, LockSet
    <2>4. Save(r, new) /\ accepted' = [accepted EXCEPT ![r] = f] /\ step' = [step EXCEPT ![r] = "ended"]
      BY <1>3 DEF Accept, Answer
    <2> HIDE DEF new
    <2>5. Ended(r)'
      BY <2>4 DEF Ended, SignInTyped
    <2>6. Verifies(r, f)
      <3>1. account'.secret = account.secret /\ account'.enabled = account.enabled
        BY <2>2, <2>3, <2>4, SaveColumns DEF SameFactors
      <3>2. CASE FitsApp(saw[r], f) /\ f.paper = NoPaper /\ row.lastStep = f.step /\ row.backup = saw[r].backup
        <4>1. f.step # saw[r].lastStep
          BY <2>1, <3>2 DEF FitsApp, Factors, AccountRows
        <4>2. account'.lastStep = f.step /\ account'.backup = account.backup
          BY <2>2, <2>3, <2>4, <3>2, <4>1, SaveColumns DEF SameFactors
        <4>3. QED
          BY <1>1, <1>3, <2>4, <2>5, <3>1, <3>2, <4>2 DEF Verifies, Accepts
      <3>3. CASE FitsPaper(saw[r], f) /\ row.lastStep = saw[r].lastStep /\ row.backup = saw[r].backup \ {f.paper}
        <4>1. row.backup # saw[r].backup
          BY <3>3 DEF FitsPaper
        <4>2. account'.lastStep = account.lastStep /\ account'.backup = saw[r].backup \ {f.paper}
          BY <2>2, <2>3, <2>4, <3>3, <4>1, SaveColumns DEF SameFactors
        <4>3. QED
          BY <1>1, <1>3, <2>4, <2>5, <3>1, <3>3, <4>2 DEF Verifies, Accepts
      <3>4. QED
        BY <2>2, <3>2, <3>3
    <2>7. account' \in AccountRows /\ account'.exists = account.exists
      BY <2>2, <2>3, <2>4, SaveColumns
    <2>8. Handled(r) /\ SignInTyped'
      BY <1>1, <2>1, <2>4, <2>7, AnswerHandles, AcceptTyped DEF SignInTyped, AtWork, Factors
    <2>9. QED
      BY <2>1, <2>6, <2>7, <2>8 DEF HandlerStep, ChangesFactors
  <1>4. QED
    BY <1>2, <1>3 DEF MfaVerify

(* The rows that setting up, enabling and disabling two-step sign-in write. *)
WithEnabled(row, r, x) == [row EXCEPT !.enabled = r, !.lastStep = x, !.backup = BackupOf(r), !.failures = 0]

LEMMA EnabledSet ==
  ASSUME NEW row \in AccountRows, NEW r \in Requests, NEW x \in Int
  PROVE  /\ WithEnabled(row, r, x) \in AccountRows
         /\ WithEnabled(row, r, x).exists = row.exists /\ WithEnabled(row, r, x).secret = row.secret
         /\ WithEnabled(row, r, x).enabled = r /\ WithEnabled(row, r, x).lastStep = x
         /\ WithEnabled(row, r, x).backup = BackupOf(r)
  <1>1. r \in Makers /\ BackupOf(r) \in SUBSET (Makers \X {1, 2})
    BY DEF BackupOf, Makers
  <1>2. PICK one : one = [row EXCEPT !.enabled = r]
    OBVIOUS
  <1>3. PICK two : two = [one EXCEPT !.lastStep = x]
    OBVIOUS
  <1>4. PICK three : three = [two EXCEPT !.backup = BackupOf(r)]
    OBVIOUS
  <1>5. one \in AccountRows
    BY <1>1, <1>2 DEF AccountRows
  <1>6. two \in AccountRows
    BY <1>3, <1>5 DEF AccountRows
  <1>7. three \in AccountRows
    BY <1>1, <1>4, <1>6 DEF AccountRows
  <1>8. [three EXCEPT !.failures = 0] \in AccountRows
    BY <1>7 DEF AccountRows
  <1>9. WithEnabled(row, r, x) \in AccountRows
    BY <1>2, <1>3, <1>4, <1>8 DEF WithEnabled
  <1>10. DOMAIN row = {"exists", "verified", "google", "secret", "enabled", "lastStep", "backup", "failures",
                      "lockedUntil"}
    BY DEF AccountRows
  <1>11. QED
    BY <1>9, <1>10 DEF WithEnabled

LEMMA OffSet ==
  ASSUME NEW row \in AccountRows
  PROVE  /\ SecondFactorOff(row) \in AccountRows
         /\ SecondFactorOff(row).exists = row.exists /\ SecondFactorOff(row).secret = Nobody
         /\ SecondFactorOff(row).enabled = Nobody /\ SecondFactorOff(row).lastStep = 0
         /\ SecondFactorOff(row).backup = {}
  <1>1. Nobody \in Makers
    BY DEF Makers
  <1>a. PICK one : one = [row EXCEPT !.secret = Nobody]
    OBVIOUS
  <1>b. PICK two : two = [one EXCEPT !.enabled = Nobody]
    OBVIOUS
  <1>c. PICK three : three = [two EXCEPT !.lastStep = 0]
    OBVIOUS
  <1>d. PICK four : four = [three EXCEPT !.backup = {}]
    OBVIOUS
  <1>e. PICK five : five = [four EXCEPT !.failures = 0]
    OBVIOUS
  <1>f. one \in AccountRows
    BY <1>1, <1>a DEF AccountRows
  <1>g. two \in AccountRows
    BY <1>1, <1>b, <1>f DEF AccountRows
  <1>h. three \in AccountRows
    BY <1>c, <1>g DEF AccountRows
  <1>i. four \in AccountRows
    BY <1>d, <1>h DEF AccountRows
  <1>j. five \in AccountRows
    BY <1>e, <1>i DEF AccountRows
  <1>k. [five EXCEPT !.lockedUntil = 0] \in AccountRows
    BY <1>j DEF AccountRows
  <1>2. SecondFactorOff(row) \in AccountRows
    BY <1>a, <1>b, <1>c, <1>d, <1>e, <1>k DEF SecondFactorOff
  <1>3. DOMAIN row = {"exists", "verified", "google", "secret", "enabled", "lastStep", "backup", "failures",
                      "lockedUntil"}
    BY DEF AccountRows
  <1>4. QED
    BY <1>2, <1>3 DEF SecondFactorOff

LEMMA SetupSteps ==
  ASSUME SignInTyped, NEW r \in Requests, MfaSetup(r)
  PROVE  HandlerStep(r)
  <1>1. /\ AtWork(r) /\ kind[r] = "mfa_setup" /\ UNCHANGED <<now, codes, kind, histories>> /\ \E a : Answer(r, a)
    BY DEF MfaSetup, Working, AtWork
  <1>2. CASE account' = account
    <2>1. Handled(r) /\ SignInTyped'
      BY <1>1, <1>2, AnswerHandles DEF SignInTyped, AtWork, histories
    <2>2. QED
      BY <1>1, <1>2, <2>1, PlainSame DEF HandlerStep, histories
  <1>3. CASE saw[r].enabled = Nobody /\ Save(r, [saw[r] EXCEPT !.secret = r])
    <2> DEFINE row == WithSecret(saw[r], r)
    <2>1. saw[r] \in AccountRows /\ r \in Makers
      BY DEF SignInTyped, Makers
    <2>2. /\ row \in AccountRows /\ row.exists = saw[r].exists /\ row.secret = r
          /\ row.enabled = saw[r].enabled /\ row.lastStep = saw[r].lastStep /\ row.backup = saw[r].backup
      BY <2>1, SecretSet
    <2>3. Save(r, row)
      BY <1>3 DEF WithSecret
    <2> HIDE DEF row
    <2>4. /\ account' \in AccountRows /\ account'.exists = account.exists /\ account'.secret \in {r, account.secret}
          /\ account'.enabled = account.enabled /\ account'.lastStep = account.lastStep
          /\ account'.backup = account.backup
      BY <2>2, <2>3, SaveColumns
    <2>5. SetsUp(r)
      <3>1. Ended(r)'
        BY <1>1 DEF Answer, Ended, SignInTyped
      <3>2. QED
        BY <1>1, <1>3, <2>4, <3>1 DEF SetsUp, histories
    <2>6. Handled(r) /\ SignInTyped'
      BY <1>1, <2>4, AnswerHandles DEF SignInTyped, AtWork, histories
    <2>7. QED
      BY <2>4, <2>5, <2>6 DEF HandlerStep, ChangesFactors
  <1>4. QED
    BY <1>2, <1>3 DEF MfaSetup

LEMMA EnableSteps ==
  ASSUME SignInTyped, NEW r \in Requests, MfaEnable(r)
  PROVE  HandlerStep(r)
  <1>1. /\ AtWork(r) /\ kind[r] = "mfa_enable" /\ UNCHANGED <<now, codes, kind, emailed, removers, before>>
        /\ \E a : Answer(r, a)
    BY DEF MfaEnable, Working, AtWork, Refuse
  <1>2. CASE Refuse(r)
    <2>1. Handled(r) /\ SignInTyped'
      BY <1>1, <1>2, AnswerHandles DEF SignInTyped, AtWork, Refuse
    <2>2. QED
      BY <1>2, <2>1, PlainSame DEF HandlerStep, Refuse
  <1>3. ASSUME saw[r].enabled = Nobody, NEW f \in AppCodes, VerifyTotp(f, saw[r].secret, -1),
               Save(r, [saw[r] EXCEPT !.enabled = r, !.lastStep = f.step, !.backup = BackupOf(r), !.failures = 0]),
               Accept(r, f), Answer(r, "ok")
        PROVE  HandlerStep(r)
    <2> DEFINE row == WithEnabled(saw[r], r, f.step)
    <2>1. saw[r] \in AccountRows /\ f \in Factors /\ f.step \in Int /\ f.secret # Nobody /\ f.paper = NoPaper
      BY CodesShown DEF SignInTyped, Factors
    <2>2. /\ row \in AccountRows /\ row.exists = saw[r].exists /\ row.secret = saw[r].secret
          /\ row.enabled = r /\ row.lastStep = f.step /\ row.backup = BackupOf(r)
      BY <2>1, EnabledSet
    <2>3. /\ Save(r, row) /\ accepted' = [accepted EXCEPT ![r] = f] /\ step' = [step EXCEPT ![r] = "ended"]
          /\ f.secret = saw[r].secret
      BY <1>3 DEF WithEnabled, Accept, Answer, VerifyTotp
    <2> HIDE DEF row
    <2>4. r # saw[r].enabled
      BY <1>3, ConstantsAssumption
    <2>5. /\ account' \in AccountRows /\ account'.exists = account.exists
          /\ account'.secret = account.secret /\ account'.enabled = r
          /\ account'.lastStep = IF f.step # saw[r].lastStep THEN f.step ELSE account.lastStep
          /\ account'.backup \in {BackupOf(r), account.backup}
      BY <2>2, <2>3, <2>4, SaveColumns
    <2>6. Ended(r)'
      BY <2>3 DEF Ended, SignInTyped
    <2>7. Enables(r, f)
      BY <1>1, <1>3, <2>1, <2>3, <2>5, <2>6 DEF Enables, Accepts
    <2>8. Handled(r) /\ SignInTyped'
      BY <1>1, <2>1, <2>3, <2>5, AnswerHandles, AcceptTyped DEF SignInTyped, AtWork, Factors
    <2>9. QED
      BY <2>1, <2>5, <2>7, <2>8 DEF HandlerStep, ChangesFactors
  <1>4. QED
    BY <1>2, <1>3 DEF MfaEnable

LEMMA DisableSteps ==
  ASSUME SignInTyped, NEW r \in Requests, MfaDisable(r)
  PROVE  HandlerStep(r)
  <1>1. /\ AtWork(r) /\ kind[r] = "mfa_disable" /\ UNCHANGED <<now, codes, kind, emailed, removers, before>>
        /\ \E a : Answer(r, a)
    BY DEF MfaDisable, Working, AtWork, Refuse, NoteFailure
  <1>2. CASE UNCHANGED <<account, accepted>> \/ NoteFailure(r)
    <2>1. Plain
      BY <1>2, PlainSame, FailureNoted
    <2>2. Handled(r) /\ SignInTyped'
      BY <1>1, <1>2, <2>1, AnswerHandles DEF SignInTyped, Plain, AtWork
    <2>3. QED
      BY <2>1, <2>2 DEF HandlerStep
  <1>3. ASSUME saw[r].enabled # Nobody, NEW f \in AppCodes \cup PaperCodes, Used(saw[r], f) # {},
               Save(r, SecondFactorOff(saw[r])), Accept(r, f), Answer(r, "ok")
        PROVE  HandlerStep(r)
    <2> DEFINE row == SecondFactorOff(saw[r])
    <2>1. saw[r] \in AccountRows /\ f \in Factors
      BY CodesShown DEF SignInTyped
    <2>2. /\ row \in AccountRows /\ row.exists = saw[r].exists /\ row.secret = Nobody
          /\ row.enabled = Nobody /\ row.lastStep = 0 /\ row.backup = {}
      BY <2>1, OffSet
    <2>3. /\ Save(r, row) /\ accepted' = [accepted EXCEPT ![r] = f] /\ step' = [step EXCEPT ![r] = "ended"]
      BY <1>3 DEF Accept, Answer
    <2> HIDE DEF row
    <2>4. (FitsApp(saw[r], f) /\ f.paper = NoPaper) \/ FitsPaper(saw[r], f)
      <3>1. PICK new \in Used(saw[r], f) : TRUE
        BY <1>3
      <3>2. QED
        BY <2>1, <3>1, UsedFits
    <2>5. /\ account' \in AccountRows /\ account'.exists = account.exists
          /\ account'.secret = (IF saw[r].secret # Nobody THEN Nobody ELSE account.secret)
          /\ account'.enabled = Nobody
          /\ account'.lastStep \in {0, account.lastStep}
          /\ account'.backup = IF saw[r].backup # {} THEN {} ELSE account.backup
      <3>1. /\ account' \in AccountRows
            /\ account'.exists = IF row.exists # saw[r].exists THEN row.exists ELSE account.exists
            /\ account'.secret = IF row.secret # saw[r].secret THEN row.secret ELSE account.secret
            /\ account'.enabled = IF row.enabled # saw[r].enabled THEN row.enabled ELSE account.enabled
            /\ account'.lastStep = IF row.lastStep # saw[r].lastStep THEN row.lastStep ELSE account.lastStep
            /\ account'.backup = IF row.backup # saw[r].backup THEN row.backup ELSE account.backup
        BY <2>2, <2>3, SaveColumns
      <3>2. QED
        BY <1>3, <2>2, <3>1
    <2>6. Ended(r)'
      BY <2>3 DEF Ended, SignInTyped
    <2>7. Disables(r, f)
      BY <1>1, <1>3, <2>3, <2>4, <2>5, <2>6 DEF Disables, Accepts
    <2>8. Handled(r) /\ SignInTyped'
      BY <1>1, <2>1, <2>3, <2>5, AnswerHandles, AcceptTyped DEF SignInTyped, AtWork, Factors
    <2>9. QED
      BY <2>1, <2>5, <2>7, <2>8 DEF HandlerStep, ChangesFactors
  <1>4. QED
    BY <1>2, <1>3 DEF MfaDisable, Refuse

LEMMA HandlerSteps ==
  ASSUME SignInTyped, NEW r \in Requests, Handler(r)
  PROVE  HandlerStep(r)
  BY SendingSteps, SignupSteps, EnterCodeSteps, GoogleSteps, VerifySteps, SetupSteps, EnableSteps, DisableSteps
  DEF Handler

LEMMA BeginTyped ==
  ASSUME SignInTyped, NEW r \in Requests, NEW k \in Kinds, Begin(r, k)
  PROVE  SignInTyped'
  <1>1. /\ step' = [step EXCEPT ![r] = "working"] /\ kind' = [kind EXCEPT ![r] = k]
        /\ saw' = [saw EXCEPT ![r] = account] /\ before' = [before EXCEPT ![r] = {q \in Requests : Ended(q)}]
        /\ UNCHANGED <<now, account, codes, doomed, answer, emailed, removers, accepted>>
    BY DEF Begin
  <1>2. PICK c \in CodeRows \cup {NoCode} : sawCode' = [sawCode EXCEPT ![r] = c]
    BY NewestTyped DEF Begin
  <1>3. step' \in [Requests -> SignInSteps] /\ kind' = [q \in Requests |-> kind'[q]]
    BY <1>1 DEF SignInTyped, SignInSteps
  <1>4. saw' \in [Requests -> AccountRows] /\ before' \in [Requests -> SUBSET Requests]
    BY <1>1 DEF SignInTyped
  <1>5. sawCode' \in [Requests -> CodeRows \cup {NoCode}]
    BY <1>2 DEF SignInTyped
  <1>6. QED
    BY <1>1, <1>3, <1>4, <1>5 DEF SignInTyped

(* A request that is handled leaves the others where they are.              *)
LEMMA HandledOthers ==
  ASSUME SignInTyped, NEW r \in Requests, Handled(r)
  PROVE  /\ \A p \in Requests \ {r} : step'[p] = step[p] /\ saw'[p] = saw[p]
         /\ step'[r] \in {"sending", "purging", "mailing", "ended"} /\ saw'[r] \in {saw[r], NoAccount}
         /\ \A p \in Requests : Ended(p) => Ended(p)'
         /\ ~Ended(r) /\ UNCHANGED <<now, kind, before>>
  <1>1. PICK s \in {"sending", "purging", "mailing", "ended"} : step' = [step EXCEPT ![r] = s]
    BY DEF Handled
  <1>2. PICK row \in {saw[r], NoAccount} : saw' = [saw EXCEPT ![r] = row]
    BY DEF Handled
  <1>3. \A p \in Requests \ {r} : step'[p] = step[p] /\ saw'[p] = saw[p]
    BY <1>1, <1>2 DEF SignInTyped
  <1>4. step'[r] = s /\ saw'[r] = row
    BY <1>1, <1>2 DEF SignInTyped
  <1>5. QED
    BY <1>3, <1>4 DEF Handled, Ended

LEMMA HandledOver ==
  ASSUME SignInTyped, BeforeIsOver, NEW r \in Requests, Handled(r)
  PROVE  BeforeIsOver'
  <1>1. before \in [Requests -> SUBSET Requests]
    BY DEF SignInTyped
  <1>2. \A p \in Requests : step'[p] = "idle" => step[p] = "idle"
    BY HandledOthers DEF Handled
  <1>3. QED
    BY <1>1, <1>2, HandledOthers DEF BeforeIsOver

LEMMA BeginOthers ==
  ASSUME SignInTyped, NEW r \in Requests, NEW k \in Kinds, Begin(r, k)
  PROVE  /\ \A p \in Requests \ {r} : /\ step'[p] = step[p] /\ saw'[p] = saw[p] /\ kind'[p] = kind[p]
                                      /\ before'[p] = before[p]
         /\ step[r] = "idle" /\ step'[r] = "working" /\ kind'[r] = k /\ saw'[r] = account
         /\ before'[r] = {q \in Requests : Ended(q)}
         /\ UNCHANGED <<account, codes, doomed, emailed, removers, accepted>>
  BY DEF Begin, SignInTyped

LEMMA BeginOver ==
  ASSUME SignInTyped, BeforeIsOver, NEW r \in Requests, NEW k \in Kinds, Begin(r, k)
  PROVE  BeforeIsOver'
  <1>1. before \in [Requests -> SUBSET Requests]
    BY DEF SignInTyped
  <1>2. \A u \in Requests : Ended(u) => /\ u # r /\ Ended(u)' /\ before'[u] = before[u]
                                        /\ before[u] \subseteq {q \in Requests : Ended(q)}
    BY <1>1, BeginOthers DEF Ended, BeforeIsOver
  <1>3. ASSUME NEW p \in Requests
        PROVE  /\ \A u \in before'[p] : Ended(u)' /\ before'[u] \subseteq before'[p]
               /\ step'[p] = "idle" => kind'[p] = "none"
    <2>1. CASE p = r
      BY <1>2, <2>1, BeginOthers
    <2>2. CASE p # r
      BY <1>1, <1>2, <2>2, BeginOthers DEF BeforeIsOver
    <2>3. QED
      BY <2>1, <2>2
  <1>4. QED
    BY <1>3 DEF BeforeIsOver

-----------------------------------------------------------------------------
LEMMA InitSignIn == Init => SignInTyped /\ BeforeIsOver
  <1> SUFFICES ASSUME Init
               PROVE  SignInTyped /\ BeforeIsOver
    OBVIOUS
  <1>1. account \in AccountRows
    <2>1. Confirmed \in AccountRows
      <3>1. [Unconfirmed EXCEPT !.verified = TRUE] \in AccountRows
        BY NoAccountTyped DEF AccountRows
      <3>2. QED
        BY <3>1 DEF Confirmed
    <2>2. TwoStep \in AccountRows
      <3>1. Earlier \in Makers /\ BackupOf(Earlier) \in SUBSET (Makers \X {1, 2})
        BY DEF Makers, BackupOf
      <3>2. PICK one : one = [Confirmed EXCEPT !.secret = Earlier]
        OBVIOUS
      <3>3. PICK two : two = [one EXCEPT !.enabled = Earlier]
        OBVIOUS
      <3>4. one \in AccountRows
        BY <2>1, <3>1, <3>2 DEF AccountRows
      <3>5. two \in AccountRows
        BY <3>1, <3>3, <3>4 DEF AccountRows
      <3>6. [two EXCEPT !.backup = BackupOf(Earlier)] \in AccountRows
        BY <3>1, <3>5 DEF AccountRows
      <3>7. QED
        BY <3>2, <3>3, <3>6 DEF TwoStep
    <2>3. QED
      BY <2>1, <2>2, NoAccountTyped DEF Init
  <1>2. accepted \in [Requests -> [secret : Makers, step : Int, paper : Papers]]
    <2>1. NoFactor \in [secret : Makers, step : Int, paper : Papers]
      BY DEF NoFactor, NoPaper, Papers, Makers
    <2>2. QED
      BY <2>1 DEF Init
  <1>3. saw \in [Requests -> AccountRows]
    BY NoAccountTyped DEF Init
  <1>4. now = 1 /\ codes = {} /\ emailed = {} /\ removers = {} /\ before = [r \in Requests |-> {}]
        /\ step = [r \in Requests |-> "idle"] /\ kind = [r \in Requests |-> "none"]
        /\ sawCode = [r \in Requests |-> NoCode] /\ doomed = [r \in Requests |-> {}]
    BY DEF Init
  <1>5. SignInTyped
    BY <1>1, <1>2, <1>3, <1>4 DEF SignInTyped, SignInSteps
  <1>6. BeforeIsOver
    BY <1>4 DEF BeforeIsOver
  <1>7. QED
    BY <1>5, <1>6

-----------------------------------------------------------------------------
(* A handler that does not remove codes leaves them as they are, or counts  *)
(* a wrong one.                                                            *)
LEMMA CodesKept ==
  ASSUME CodesInv, NEW p \in Requests, Handler(p), p \notin removers'
  PROVE  \/ codes' = codes
         \/ codes' = {IF c.by = sawCode[p].by THEN [c EXCEPT !.attempts = sawCode[p].attempts + 1] ELSE c : c \in codes}
  <1>1. ~Issue(p) /\ ~MailFails(p)
    BY DEF CodesInv, ReplacesCodes, Issue, MailFails, histories
  <1>2. CASE EnterCode(p)
    <2>1. ~DeleteCode(p) /\ ~RightCode(p)
      BY DEF DeleteCode, RightCode
    <2>2. QED
      BY <1>2, <2>1 DEF EnterCode, WrongCode
  <1>3. CASE ~EnterCode(p)
    BY <1>1, <1>3 DEF Handler, Signup, AskForCode, Login, Purge, Mail, Google, MfaVerify, MfaSetup, MfaEnable, MfaDisable
  <1>4. QED
    BY <1>2, <1>3

LEMMA HistoriesGrow ==
  ASSUME SignInTyped, NEW p \in Requests, Handler(p)
  PROVE  /\ removers \subseteq removers' /\ removers' \subseteq removers \cup {p}
         /\ \A r \in Requests \ {p} : (r \in emailed' <=> r \in emailed) /\ doomed'[r] = doomed[r]
  <1>1. CASE Purge(p)
    BY <1>1 DEF Purge, Answer, SignInTyped
  <1>2. CASE Signup(p) \/ AskForCode(p) \/ Login(p)
    BY <1>2 DEF Signup, AskForCode, Login, Answer, Continue, histories, SignInTyped, PasswordWrong, PasswordRight
  <1>3. CASE Issue(p) \/ Mail(p) \/ MailFails(p)
    BY <1>3 DEF Issue, Mail, MailFails, Answer, Continue, histories, SignInTyped
  <1>4. CASE EnterCode(p) \/ Google(p)
    BY <1>4 DEF EnterCode, DeleteCode, WrongCode, RightCode, Google, Answer, histories, SignInTyped
  <1>5. CASE MfaVerify(p) \/ MfaSetup(p) \/ MfaEnable(p) \/ MfaDisable(p)
    BY <1>5 DEF MfaVerify, MfaSetup, MfaEnable, MfaDisable, Refuse, NoteFailure, Answer, histories, SignInTyped
  <1>6. QED
    BY <1>1, <1>2, <1>3, <1>4, <1>5 DEF Handler

LEMMA OwnCodes ==
  ASSUME CodesInv, NEW r \in Requests, Handler(r)
  PROVE  ReplacesCodes(r)'
  <1>1. /\ Handled(r) /\ SignInTyped' /\ ReplacesCodes(r) /\ r \notin emailed
        /\ ~Ended(r) /\ step'[r] \in {"sending", "purging", "mailing", "ended"} /\ before' = before
    <2>1. HandlerStep(r) /\ ReplacesCodes(r)
      BY HandlerSteps DEF CodesInv
    <2>2. QED
      BY <2>1, HandledOthers DEF HandlerStep, ReplacesCodes, CodesInv
  <1>2. CASE Purge(r) /\ ~CoolingDown
    <2>1. /\ step' = [step EXCEPT ![r] = "purging"] /\ doomed' = [doomed EXCEPT ![r] = {c.by : c \in codes}]
          /\ removers' = removers \cup {r} /\ UNCHANGED <<codes, emailed>>
      BY <1>2 DEF Purge
    <2>2. step'[r] = "purging" /\ doomed'[r] = {c.by : c \in codes}
      BY <2>1 DEF CodesInv, SignInTyped
    <2>3. QED
      BY <1>1, <2>1, <2>2 DEF ReplacesCodes
  <1>3. CASE Issue(r)
    <2> DEFINE new == [by |-> r, created |-> now, attempts |-> 0]
    <2>1. /\ codes' = {c \in codes : c.by \notin doomed[r]} \cup {new} /\ new.by = r
          /\ step' = [step EXCEPT ![r] = "mailing"] /\ UNCHANGED <<emailed, removers>> /\ step[r] = "purging"
      BY <1>3 DEF Issue, Continue, histories
    <2> HIDE DEF new
    <2>2. step'[r] = "mailing"
      BY <2>1 DEF CodesInv, SignInTyped
    <2>3. ASSUME Alone(r)'
          PROVE  codes' = {new}
      <3>1. Alone(r)
        BY <1>1, <2>1, <2>3 DEF Alone
      <3>2. QED
        BY <1>1, <2>1, <3>1 DEF ReplacesCodes
    <2>4. QED
      BY <1>1, <2>1, <2>2, <2>3 DEF ReplacesCodes
  <1>4. CASE Mail(r)
    <2>1. /\ step[r] = "mailing" /\ step' = [step EXCEPT ![r] = "ended"]
          /\ emailed' = emailed \cup {r} /\ UNCHANGED <<codes, removers>>
      BY <1>4 DEF Mail, Answer
    <2>2. step'[r] = "ended"
      BY <2>1 DEF CodesInv, SignInTyped
    <2>3. Alone(r)' => Alone(r)
      BY <1>1, <2>1 DEF Alone
    <2>4. QED
      BY <1>1, <2>1, <2>2, <2>3 DEF ReplacesCodes, Ended
  <1>5. CASE ~(Purge(r) /\ ~CoolingDown) /\ ~Issue(r) /\ ~Mail(r)
    <2>1. emailed' = emailed
      BY <1>5 DEF Handler, Signup, AskForCode, Login, Purge, MailFails, EnterCode, Google, MfaVerify, MfaSetup,
                  MfaEnable, MfaDisable, histories
    <2>2. \E s \in {"sending", "ended"} : step' = [step EXCEPT ![r] = s]
      <3>1. CASE Purge(r) \/ MailFails(r) \/ EnterCode(r) \/ Google(r)
        BY <1>5, <3>1 DEF Purge, MailFails, EnterCode, DeleteCode, WrongCode, RightCode, Google, Answer
      <3>2. CASE MfaVerify(r) \/ MfaSetup(r) \/ MfaEnable(r) \/ MfaDisable(r)
        BY <3>2 DEF MfaVerify, MfaSetup, MfaEnable, MfaDisable, Refuse, NoteFailure, Answer
      <3>3. CASE Signup(r) \/ AskForCode(r) \/ Login(r)
        BY <3>3 DEF Signup, AskForCode, Login, PasswordWrong, PasswordRight, Answer, Continue
      <3>4. QED
        BY <1>5, <3>1, <3>2, <3>3 DEF Handler
    <2>3. step'[r] \in {"sending", "ended"}
      BY <2>2 DEF CodesInv, SignInTyped
    <2>4. QED
      BY <1>1, <2>1, <2>3 DEF ReplacesCodes, Ended
  <1>6. QED
    BY <1>2, <1>3, <1>4, <1>5

LEMMA OthersCodes ==
  ASSUME CodesInv, NEW p \in Requests, Handler(p), NEW r \in Requests \ {p}
  PROVE  ReplacesCodes(r)'
  <1>1. /\ Handled(p) /\ ReplacesCodes(r) /\ ~Ended(p) /\ step'[r] = step[r] /\ before' = before
        /\ (Ended(r) => Ended(r)')
    <2>1. HandlerStep(p) /\ ReplacesCodes(r)
      BY HandlerSteps DEF CodesInv
    <2>2. QED
      BY <2>1, HandledOthers DEF HandlerStep, CodesInv
  <1>2. removers \subseteq removers' /\ (r \in emailed' <=> r \in emailed) /\ doomed'[r] = doomed[r]
    BY HistoriesGrow DEF CodesInv
  <1>3. CASE p \in removers'
    <2>1. ~Alone(r)'
      BY <1>1, <1>3 DEF Alone, CodesInv, BeforeIsOver
    <2>2. QED
      BY <1>1, <1>2, <2>1 DEF ReplacesCodes
  <1>4. CASE p \notin removers'
    <2>1. Alone(r)' => Alone(r)
      BY <1>1, <1>2 DEF Alone
    <2>2. \A d \in codes' : \E c \in codes : d.by = c.by
      <3>1. CASE codes' = codes
        BY <3>1
      <3>2. CASE codes' = {IF c.by = sawCode[p].by THEN [c EXCEPT !.attempts = sawCode[p].attempts + 1] ELSE c :
                           c \in codes}
        <4>1. \A c \in codes : [c EXCEPT !.attempts = sawCode[p].attempts + 1].by = c.by
          BY DEF CodesInv, SignInTyped, CodeRows
        <4>2. QED
          BY <3>2, <4>1
      <3>3. QED
        BY <1>4, <3>1, <3>2, CodesKept
    <2>3. ASSUME NEW c \in codes, codes = {c}
          PROVE  \E d \in codes' : codes' = {d} /\ d.by = c.by
      <3>1. \E d : codes' = {d}
        <4>1. CASE codes' = codes
          BY <2>3, <4>1
        <4>2. CASE codes' = {IF b.by = sawCode[p].by THEN [b EXCEPT !.attempts = sawCode[p].attempts + 1] ELSE b :
                             b \in codes}
          <5>1. PICK d : d = IF c.by = sawCode[p].by THEN [c EXCEPT !.attempts = sawCode[p].attempts + 1] ELSE c
            OBVIOUS
          <5>2. codes' = {d}
            BY <2>3, <4>2, <5>1
          <5>3. QED
            BY <5>2
        <4>3. QED
          BY <1>4, <4>1, <4>2, CodesKept
      <3>2. QED
        BY <2>2, <2>3, <3>1
    <2>4. step'[r] = "purging" /\ Alone(r)' => \A d \in codes' : d.by \in doomed'[r]
      BY <1>1, <1>2, <2>1, <2>2 DEF ReplacesCodes
    <2>5. (step'[r] = "mailing" \/ r \in emailed') /\ Alone(r)' => \E d \in codes' : codes' = {d} /\ d.by = r
      BY <1>1, <1>2, <2>1, <2>3 DEF ReplacesCodes
    <2>6. QED
      BY <1>1, <1>2, <2>4, <2>5 DEF ReplacesCodes
  <1>5. QED
    BY <1>3, <1>4

LEMMA BeginCodes ==
  ASSUME CodesInv, NEW p \in Requests, NEW k \in Kinds, Begin(p, k), NEW r \in Requests
  PROVE  ReplacesCodes(r)'
  <1>1. ReplacesCodes(r) /\ SignInTyped
    BY DEF CodesInv
  <1>2. CASE r = p
    BY <1>1, <1>2, BeginOthers DEF ReplacesCodes, Ended
  <1>3. CASE r # p
    <2>1. step'[r] = step[r] /\ before'[r] = before[r] /\ UNCHANGED <<codes, doomed, emailed, removers>>
      BY <1>1, <1>3, BeginOthers
    <2>2. QED
      BY <1>1, <2>1 DEF ReplacesCodes, Ended, Alone
  <1>4. QED
    BY <1>2, <1>3

LEMMA CodesStepKeeps == CodesInv /\ [Next]_vars => CodesInv'
  <1> SUFFICES ASSUME CodesInv, [Next]_vars
               PROVE  CodesInv'
    OBVIOUS
  <1>0. SignInTyped /\ BeforeIsOver
    BY DEF CodesInv
  <1>1. ASSUME NEW r \in Requests, NEW k \in Kinds, Begin(r, k)
        PROVE  CodesInv'
    BY <1>0, <1>1, BeginTyped, BeginOver, BeginCodes DEF CodesInv
  <1>2. ASSUME NEW r \in Requests, Handler(r)
        PROVE  CodesInv'
    <2>1. SignInTyped' /\ BeforeIsOver'
      BY <1>0, <1>2, HandlerSteps, HandledOver DEF HandlerStep
    <2>2. QED
      BY <1>2, <2>1, OwnCodes, OthersCodes DEF CodesInv
  <1>3. CASE Tick \/ UNCHANGED vars
    <2>1. /\ now' \in Int
          /\ UNCHANGED <<account, codes, step, kind, saw, sawCode, doomed, emailed, removers, accepted, before>>
      BY <1>0, <1>3 DEF Tick, vars, locals, histories, SignInTyped
    <2>2. QED
      BY <2>1 DEF CodesInv, SignInTyped, BeforeIsOver, ReplacesCodes, Ended, Alone
  <1>4. QED
    BY <1>1, <1>2, <1>3 DEF Next, Handler

LEMMA CodesInvUsable == CodesInv => CodeStaysUsable
  <1> SUFFICES ASSUME CodesInv, NEW r \in emailed, Alone(r)
               PROVE  \E c \in codes : c.by = r /\ Newest = {c}
    BY DEF CodeStaysUsable, Alone
  <1>1. PICK c \in codes : codes = {c} /\ c.by = r
    BY DEF CodesInv, SignInTyped, ReplacesCodes
  <1>2. c.created <= c.created
    BY DEF CodesInv, SignInTyped, CodeRows
  <1>3. Newest = {c}
    BY <1>1, <1>2 DEF Newest
  <1>4. QED
    BY <1>1, <1>3

LEMMA InitCodes == Init => CodesInv
  BY InitSignIn DEF Init, CodesInv, ReplacesCodes

-----------------------------------------------------------------------------
(* Who takes a step is at work, and so has not been over before anybody.    *)
LEMMA Acting ==
  ASSUME SignInTyped, BeforeIsOver, NEW u \in Requests, HandlerStep(u)
  PROVE  /\ ~Ended(u) /\ \A p \in Requests : u \notin before[p]
         /\ \A p \in Requests : Ended(p) => Ended(p)'
         /\ \A p \in Requests : AtWork(p)' => /\ p # u /\ AtWork(p) /\ saw'[p] = saw[p]
                                              /\ Overlap(u, p)
         /\ \A p \in Requests : saw'[p] \in {saw[p], NoAccount}
         /\ UNCHANGED <<kind, before>>
  <1>1. Handled(u)
    BY DEF HandlerStep
  <1>2. ~Ended(u) /\ \A p \in Requests : u \notin before[p]
    BY <1>1, HandledOthers DEF BeforeIsOver
  <1>3. ~AtWork(u)'
    BY <1>1, HandledOthers DEF AtWork
  <1>4. \A p \in Requests : AtWork(p)' => p # u /\ AtWork(p) /\ saw'[p] = saw[p]
    BY <1>1, <1>3, HandledOthers DEF AtWork
  <1>5. \A p \in Requests : AtWork(p) => p \notin before[u]
    BY DEF BeforeIsOver, AtWork, Ended
  <1>6. QED
    BY <1>1, <1>2, <1>4, <1>5, HandledOthers DEF Overlap

Acts(u, f) == Verifies(u, f) \/ Enables(u, f) \/ Disables(u, f)

(* A factor that is accepted is one that the row that was read accepts.      *)
LEMMA ActsFits ==
  ASSUME SignInTyped, NEW u \in Requests, NEW f \in Factors, Acts(u, f)
  PROVE  /\ f.secret # Nobody => f.secret = saw[u].secret /\ f.paper = NoPaper
         /\ f.secret # Nobody => saw[u].enabled = Nobody \/ f.step > saw[u].lastStep
         /\ f.secret = Nobody => f.paper \in saw[u].backup
         /\ ~Spent(saw[u], f)
         /\ f # NoFactor
  <1>1. saw[u] \in AccountRows
    BY DEF SignInTyped
  <1>2. /\ f.secret # Nobody => f.secret = saw[u].secret /\ f.paper = NoPaper
        /\ f.secret # Nobody => saw[u].enabled = Nobody \/ f.step > saw[u].lastStep
        /\ f.secret = Nobody => f.paper \in saw[u].backup
    BY DEF Acts, Verifies, Enables, Disables, FitsApp, FitsPaper
  <1>3. f # NoFactor
    BY <1>1, <1>2, NoPaperUnused DEF NoFactor
  <1>4. ~Spent(saw[u], f)
    <2>1. CASE f.secret = Nobody
      BY <1>2, <2>1 DEF Spent
    <2>2. CASE f.secret # Nobody /\ saw[u].enabled = Nobody
      BY <1>2, <2>2 DEF Spent
    <2>3. CASE f.secret # Nobody /\ saw[u].enabled # Nobody
      <3>1. FitsApp(saw[u], f)
        BY <2>3 DEF Acts, Verifies, Enables, Disables, FitsPaper
      <3>2. QED
        BY <1>1, <2>3, <3>1 DEF FitsApp, Spent, AccountRows, Factors
    <2>4. QED
      BY <2>1, <2>2, <2>3
  <1>5. QED
    BY <1>2, <1>3, <1>4

(* Acceptance is added, never taken back.                                   *)
LEMMA ActsAccepts ==
  ASSUME MfaInv, NEW u \in Requests, HandlerStep(u), NEW f \in Factors, Acts(u, f)
  PROVE  /\ AtWork(u) /\ Ended(u)' /\ f # NoFactor
         /\ accepted[u] = NoFactor /\ accepted'[u] = f
         /\ \A p \in Requests \ {u} : accepted'[p] = accepted[p]
         /\ \A p \in Requests : Rivalled(p) => Rivalled(p)'
         /\ \A p \in Requests : Overlap(u, p) => Rivalled(p)'
  <1>1. SignInTyped /\ BeforeIsOver /\ AcceptedAtEnd(u)
    BY DEF MfaInv, FactorInv
  <1>2. Accepts(u, f)
    BY DEF Acts, Verifies, Enables, Disables
  <1>3. /\ AtWork(u) /\ Ended(u)' /\ accepted'[u] = f
        /\ \A p \in Requests \ {u} : accepted'[p] = accepted[p]
    BY <1>1, <1>2 DEF Accepts, SignInTyped
  <1>4. accepted[u] = NoFactor /\ f # NoFactor
    BY <1>1, <1>3, ActsFits DEF AcceptedAtEnd, AtWork, Ended
  <1>5. before' = before
    BY <1>1, Acting
  <1>6. \A p, q \in Requests : Overlap(q, p) => Overlap(q, p)'
    BY <1>5 DEF Overlap
  <1>7. \A p \in Requests : Rivalled(p) => Rivalled(p)'
    BY <1>3, <1>4, <1>6 DEF Rivalled
  <1>8. \A p \in Requests : Overlap(u, p) => Rivalled(p)'
    BY <1>3, <1>4, <1>6 DEF Rivalled
  <1>9. QED
    BY <1>3, <1>4, <1>7, <1>8

(* Steps that leave what was accepted, and all but the secret, as they are. *)
KeepsFactors == /\ accepted' = accepted /\ account'.enabled = account.enabled
                /\ account'.lastStep = account.lastStep /\ account'.backup = account.backup

LEMMA QuietKeeps ==
  ASSUME MfaInv, NEW u \in Requests, HandlerStep(u), Plain \/ SetsUp(u)
  PROVE  /\ KeepsFactors
         /\ account'.secret # account.secret => SetsUp(u) /\ account'.secret = u
         /\ \A p \in Requests : Rivalled(p) <=> Rivalled(p)'
  <1>1. NoFactors(account) /\ before' = before
    BY Acting DEF MfaInv, AccountInv
  <1>2. KeepsFactors
    BY <1>1 DEF Plain, SetsUp, KeepsFactors, SameFactors
  <1>3. account'.secret # account.secret => SetsUp(u) /\ account'.secret = u
    BY <1>1 DEF Plain, SetsUp, SameFactors
  <1>4. \A p \in Requests : Rivalled(p) <=> Rivalled(p)'
    BY <1>1, <1>2 DEF Rivalled, Overlap, KeepsFactors
  <1>5. QED
    BY <1>2, <1>3, <1>4

LEMMA HandlerKinds ==
  ASSUME NEW u \in Requests, HandlerStep(u)
  PROVE  Plain \/ SetsUp(u) \/ \E f \in Factors : Acts(u, f)
  BY DEF HandlerStep, ChangesFactors, Acts

LEMMA AcceptedAtEndKept ==
  ASSUME MfaInv, NEW u \in Requests, HandlerStep(u), NEW r \in Requests
  PROVE  AcceptedAtEnd(r)' /\ SeesFactors(r)'
  <1>1. AcceptedAtEnd(r) /\ SeesFactors(r) /\ SignInTyped /\ BeforeIsOver
    BY DEF MfaInv, FactorInv
  <1>2. CASE Plain \/ SetsUp(u)
    BY <1>1, <1>2, Acting, QuietKeeps DEF AcceptedAtEnd, SeesFactors, KeepsFactors
  <1>3. ASSUME NEW f \in Factors, Acts(u, f)
        PROVE  AcceptedAtEnd(r)' /\ SeesFactors(r)'
    <2>1. AcceptedAtEnd(r)'
      BY <1>1, <1>3, Acting, ActsAccepts DEF AcceptedAtEnd
    <2>2. AtWork(r)' => Rivalled(r)'
      BY <1>1, <1>3, Acting, ActsAccepts
    <2>3. QED
      BY <2>1, <2>2 DEF SeesFactors
  <1>4. QED
    BY <1>2, <1>3, HandlerKinds

(* Nothing that is known when a request began comes from one at work.        *)
LEMMA UnknownYet ==
  ASSUME SignInTyped, BeforeIsOver, NEW u \in Requests, HandlerStep(u), NEW p \in Requests
  PROVE  u \notin Known(before[p])
  BY Acting, ConstantsAssumption DEF Known

(* What is spent stays spent.                                              *)
LEMMA OwnSpent ==
  ASSUME MfaInv, NEW u \in Requests, HandlerStep(u), NEW f \in Factors, Acts(u, f), ~Rivalled(u)'
  PROVE  Spent(account', f)
  <1>1. /\ saw[u] \in AccountRows /\ AtWork(u) /\ u # Nobody /\ SignInTyped
        /\ account.enabled = saw[u].enabled /\ account.lastStep = saw[u].lastStep
        /\ account.backup = saw[u].backup
    <2>1. SignInTyped /\ SeesFactors(u)
      BY DEF MfaInv, FactorInv
    <2>2. AtWork(u) /\ ~Rivalled(u)
      BY ActsAccepts
    <2>3. QED
      BY <2>1, <2>2, ConstantsAssumption DEF SeesFactors, SignInTyped
  <1>2. f.secret # Nobody => f.secret = saw[u].secret /\ f.paper = NoPaper
    BY <1>1, ActsFits
  <1>3. CASE Verifies(u, f)
    <2>1. CASE FitsApp(saw[u], f)
      <3>1. f.paper \notin saw[u].backup /\ f.secret # Nobody
        BY <1>1, <1>2, <2>1, NoPaperUnused DEF FitsApp
      <3>2. account'.lastStep = f.step /\ account'.enabled # Nobody
        BY <1>1, <1>3, <2>1, <3>1 DEF Verifies, FitsPaper
      <3>3. QED
        BY <3>1, <3>2 DEF Spent, Factors
    <2>2. CASE FitsPaper(saw[u], f)
      <3>1. f.secret = Nobody /\ account'.backup = saw[u].backup \ {f.paper}
        BY <1>3, <2>2 DEF Verifies, FitsPaper, FitsApp
      <3>2. QED
        BY <3>1 DEF Spent
    <2>3. QED
      BY <1>3, <2>1, <2>2 DEF Verifies
  <1>4. CASE Enables(u, f)
    <2>1. account'.lastStep = f.step /\ account'.enabled # Nobody /\ f.secret # Nobody
      BY <1>1, <1>4 DEF Enables
    <2>2. QED
      BY <2>1 DEF Spent, Factors
  <1>5. CASE Disables(u, f)
    <2>1. CASE f.secret # Nobody
      BY <1>2, <1>5, <2>1 DEF Disables, Spent
    <2>2. CASE f.secret = Nobody
      <3>1. f.paper \in saw[u].backup
        BY <1>1, <2>2, ActsFits
      <3>2. account'.backup = {}
        BY <1>5, <3>1 DEF Disables
      <3>3. QED
        BY <2>2, <3>2 DEF Spent
    <2>3. QED
      BY <2>1, <2>2
  <1>6. QED
    BY <1>3, <1>4, <1>5 DEF Acts

LEMMA OthersSpent ==
  ASSUME MfaInv, NEW u \in Requests, HandlerStep(u), NEW f \in Factors, Acts(u, f),
         NEW r \in before[u], NEW g \in Factors, g = accepted[r], Spent(account, g), Spent(saw[u], g)
  PROVE  Spent(account', g)
  <1>1. /\ SignInTyped /\ BeforeIsOver /\ OriginsKnown(r) /\ SecretMovesOn(u) /\ r \in Requests
        /\ saw[u] \in AccountRows /\ account \in AccountRows /\ AtWork(u)
    BY ActsAccepts DEF MfaInv, FactorInv, SignInTyped
  <1>2. g.secret \in Known(before[r]) /\ g.paper[1] \in Known(before[r]) /\ before[r] \subseteq before[u]
    BY <1>1 DEF OriginsKnown, BeforeIsOver
  <1>3. u # Nobody /\ u \notin Known(before[r])
    BY <1>1, UnknownYet, ConstantsAssumption
  <1>4. CASE g.secret = Nobody
    <2>1. g.paper \notin account.backup /\ g.paper \notin saw[u].backup
      BY <1>4 DEF Spent
    <2>2. g.paper \notin BackupOf(u)
      BY <1>2, <1>3 DEF BackupOf
    <2>3. account'.backup \in {account.backup, saw[u].backup \ {f.paper}, BackupOf(u), {}}
      BY DEF Acts, Verifies, Enables, Disables
    <2>4. QED
      BY <1>4, <2>1, <2>2, <2>3 DEF Spent
  <1>5. CASE g.secret # Nobody
    <2> SUFFICES ASSUME account'.secret = g.secret
                 PROVE  account'.lastStep >= g.step /\ account'.enabled # Nobody
      BY <1>5 DEF Spent
    <2>1. account.secret = g.secret
      BY <1>5 DEF Acts, Verifies, Enables, Disables
    <2>2. g.secret \notin {Nobody} \cup (Requests \ before[u])
      BY <1>2, <1>5, ConstantsAssumption DEF Known
    <2>3. saw[u].secret = g.secret
      BY <1>1, <2>1, <2>2 DEF SecretMovesOn
    <2>4. /\ account.lastStep >= g.step /\ account.enabled # Nobody
          /\ saw[u].lastStep >= g.step /\ saw[u].enabled # Nobody
      BY <1>5, <2>1, <2>3 DEF Spent
    <2>5. Verifies(u, f)
      BY <1>5, <2>3, <2>4 DEF Acts, Enables, Disables
    <2>6. account'.lastStep = account.lastStep \/ (account'.lastStep = f.step /\ f.step > saw[u].lastStep)
      BY <2>5 DEF Verifies, FitsApp
    <2>7. account'.enabled # Nobody /\ account'.lastStep >= g.step
      BY <1>1, <2>4, <2>5, <2>6 DEF Verifies, Factors, AccountRows
    <2>8. QED
      BY <2>7
  <1>6. QED
    BY <1>4, <1>5

LEMMA QuietSpent ==
  ASSUME MfaInv, NEW u \in Requests, HandlerStep(u), Plain \/ SetsUp(u), NEW r \in Requests,
         Spent(account, accepted[r])
  PROVE  Spent(account', accepted[r])
  <1>1. KeepsFactors /\ (account'.secret # account.secret => account'.secret = u)
    BY QuietKeeps
  <1>2. accepted[r].secret # u
    BY UnknownYet DEF MfaInv, FactorInv, OriginsKnown
  <1>3. QED
    BY <1>1, <1>2 DEF Spent, KeepsFactors

LEMMA SpentKept ==
  ASSUME MfaInv, NEW u \in Requests, HandlerStep(u), NEW r \in Requests
  PROVE  SpentForGood(r)'
  <1>1. SpentForGood(r) /\ SignInTyped /\ BeforeIsOver
    BY DEF MfaInv, FactorInv
  <1>2. \A s \in Requests : AtWork(s)' /\ r \in before'[s] => /\ AtWork(s) /\ r \in before[s] /\ r # u
                                                              /\ saw'[s] = saw[s]
    BY <1>1, Acting
  <1>3. CASE Plain \/ SetsUp(u)
    <2> SUFFICES ASSUME accepted'[r] # NoFactor, ~Rivalled(r)'
                 PROVE  /\ Spent(account', accepted'[r])
                        /\ \A s \in Requests : AtWork(s)' /\ r \in before'[s] => Spent(saw'[s], accepted'[r])
      BY DEF SpentForGood
    <2>1. accepted'[r] = accepted[r] /\ ~Rivalled(r)
      BY <1>3, QuietKeeps DEF KeepsFactors
    <2>2. QED
      BY <1>1, <1>2, <1>3, <2>1, QuietSpent DEF SpentForGood
  <1>4. ASSUME NEW f \in Factors, Acts(u, f), accepted'[r] # NoFactor, ~Rivalled(r)'
        PROVE  /\ Spent(account', accepted'[r])
               /\ \A s \in Requests : AtWork(s)' /\ r \in before'[s] => Spent(saw'[s], accepted'[r])
    <2>1. CASE r = u
      BY <1>2, <1>4, <2>1, OwnSpent, ActsAccepts
    <2>2. CASE r # u
      <3>1. accepted'[r] = accepted[r] /\ ~Rivalled(r) /\ ~Overlap(u, r)
        BY <1>4, <2>2, ActsAccepts
      <3>2. r \in before[u] /\ AtWork(u)
        BY <1>1, <1>4, <2>2, <3>1, Acting, ActsAccepts DEF Overlap
      <3>3. /\ Spent(account, accepted[r])
            /\ \A s \in Requests : AtWork(s) /\ r \in before[s] => Spent(saw[s], accepted[r])
        BY <1>1, <1>4, <3>1 DEF SpentForGood
      <3>4. accepted[r] \in Factors
        BY <1>1 DEF SignInTyped, Factors
      <3>5. Spent(account', accepted[r])
        BY <1>4, <3>2, <3>3, <3>4, OthersSpent
      <3>6. QED
        BY <1>2, <3>1, <3>3, <3>5
    <2>3. QED
      BY <2>1, <2>2
  <1>5. QED
    BY <1>3, <1>4, HandlerKinds DEF SpentForGood

LEMMA OriginsKept ==
  ASSUME MfaInv, NEW u \in Requests, HandlerStep(u), NEW r \in Requests
  PROVE  OriginsKnown(r)'
  <1>1. OriginsKnown(r) /\ SignInTyped /\ BeforeIsOver /\ OriginsKnown(u)
    BY DEF MfaInv, FactorInv
  <1>2. AtWork(r)' => KnownFactors(saw'[r], before'[r])
    BY <1>1, Acting DEF OriginsKnown
  <1>3. before' = before
    BY <1>1, Acting
  <1>4. CASE Plain \/ SetsUp(u)
    BY <1>1, <1>2, <1>3, <1>4, QuietKeeps DEF OriginsKnown, KeepsFactors
  <1>5. ASSUME NEW f \in Factors, Acts(u, f)
        PROVE  OriginsKnown(r)'
    <2>1. CASE r # u
      BY <1>1, <1>2, <1>3, <1>5, <2>1, ActsAccepts DEF OriginsKnown
    <2>2. CASE r = u
      <3>1. KnownFactors(saw[u], before[u])
        BY <1>1, <1>5, ActsAccepts DEF OriginsKnown
      <3>2. NoPaper[1] = Nobody
        BY DEF NoPaper
      <3>3. f.secret \in Known(before[u]) /\ f.paper[1] \in Known(before[u])
        <4>1. CASE f.secret = Nobody
          BY <1>1, <1>5, <3>1, <4>1, ActsFits DEF KnownFactors, Known
        <4>2. CASE f.secret # Nobody
          BY <1>1, <1>5, <3>1, <3>2, <4>2, ActsFits DEF KnownFactors, Known
        <4>3. QED
          BY <4>1, <4>2
      <3>4. accepted'[u] = f
        BY <1>5, ActsAccepts
      <3>5. QED
        BY <1>2, <1>3, <2>2, <3>3, <3>4 DEF OriginsKnown
    <2>3. QED
      BY <2>1, <2>2
  <1>6. QED
    BY <1>4, <1>5, HandlerKinds

(* How the secret and the enabling of the account can change.               *)
LEMMA SecretChanges ==
  ASSUME MfaInv, NEW u \in Requests, HandlerStep(u)
  PROVE  /\ account'.secret # account.secret =>
              /\ kind[u] \in {"mfa_setup", "mfa_disable"}
              /\ account'.secret \in {u, Nobody}
              /\ account'.secret # Nobody => saw[u].enabled = Nobody /\ AtWork(u) /\ Ended(u)' /\ SetsUp(u)
         /\ account'.enabled # account.enabled => account'.enabled \in {u, Nobody} /\ Ended(u)'
  <1>1. CASE Plain \/ SetsUp(u)
    BY <1>1, QuietKeeps DEF KeepsFactors, SetsUp
  <1>2. ASSUME NEW f \in Factors, Acts(u, f)
        PROVE  /\ account'.secret # account.secret => kind[u] = "mfa_disable" /\ account'.secret = Nobody
               /\ account'.enabled # account.enabled => account'.enabled \in {u, Nobody} /\ Ended(u)'
    BY <1>2 DEF Acts, Verifies, Enables, Disables, Accepts
  <1>3. QED
    BY <1>1, <1>2, HandlerKinds

LEMMA RestKept ==
  ASSUME MfaInv, NEW u \in Requests, HandlerStep(u), NEW r \in Requests
  PROVE  SecretMovesOn(r)' /\ ExistsForGood(r)' /\ ConfirmsSecret(r)' /\ SeesEnabled(r)'
  <1>1. /\ SecretMovesOn(r) /\ ExistsForGood(r) /\ ConfirmsSecret(r) /\ SeesEnabled(r)
        /\ SignInTyped /\ BeforeIsOver
    BY DEF MfaInv, FactorInv
  <1>2. u \notin before[r] /\ before[r] \subseteq Requests /\ before' = before /\ kind' = kind
    BY <1>1, Acting DEF SignInTyped
  <1>3. SecretMovesOn(r)'
    BY <1>1, <1>2, Acting, SecretChanges DEF SecretMovesOn
  <1>4. SeesEnabled(r)'
    BY <1>1, <1>2, Acting, SecretChanges, ConstantsAssumption DEF SeesEnabled
  <1>5. Disturbed(r)' <=> Disturbed(r)
    BY <1>2 DEF Disturbed, Overlap
  <1>6. ConfirmsSecret(r)'
    <2>1. AtWork(r)' /\ account'.secret # account.secret => Disturbed(r)
      BY <1>1, <1>2, Acting, SecretChanges DEF Disturbed
    <2>2. QED
      BY <1>1, <1>5, <2>1, Acting DEF ConfirmsSecret
  <1>7. ExistsForGood(r)'
    <2>1. account.exists => account'.exists
      <3>1. account.exists \in BOOLEAN /\ account'.exists \in BOOLEAN
        BY DEF SignInTyped, HandlerStep, MfaInv, AccountRows
      <3>2. QED
        BY <3>1 DEF HandlerStep, Plain, ChangesFactors
    <2>2. NoFactors(NoAccount) /\ ~NoAccount.exists
      BY DEF NoFactors, NoAccount
    <2>3. NoFactors(saw'[r]) /\ (saw'[r].exists => account'.exists)
      BY <1>1, <2>1, <2>2, Acting DEF ExistsForGood
    <2>4. QED
      BY <1>1, <1>2, <2>3, Acting DEF ExistsForGood
  <1>8. QED
    BY <1>3, <1>4, <1>6, <1>7

LEMMA AccountKept ==
  ASSUME MfaInv, NEW u \in Requests, HandlerStep(u)
  PROVE  AccountInv'
  <1> DEFINE over == {r \in Requests : Ended(r)}
             over2 == {r \in Requests : Ended(r)'}
  <1>1. /\ SignInTyped /\ BeforeIsOver /\ AccountInv /\ OriginsKnown(u) /\ ExistsForGood(u)
        /\ before[u] \subseteq Requests
    BY DEF MfaInv, FactorInv, SignInTyped
  <1>2. over \subseteq over2 /\ before[u] \subseteq over
    BY <1>1, Acting DEF BeforeIsOver
  <1>3. KnownFactors(account, over)
    BY <1>1 DEF AccountInv
  <1>4. account'.enabled \in Requests => step'[account'.enabled] = "ended"
    <2>1. CASE account'.enabled = account.enabled
      BY <1>1, <2>1, Acting DEF AccountInv, Ended
    <2>2. CASE account'.enabled # account.enabled
      BY <2>2, SecretChanges, ConstantsAssumption DEF Ended
    <2>3. QED
      BY <2>1, <2>2
  <1>5. account'.secret \in Known(over2)
    <2>1. account.secret \in Known(over2)
      BY <1>2, <1>3 DEF KnownFactors, Known
    <2>2. account'.secret # account.secret => account'.secret \in Known(over2)
      BY SecretChanges DEF Known
    <2>3. QED
      BY <2>1, <2>2
  <1>6. \A p \in account'.backup : p[1] \in Known(over2)
    <2>1. \A p \in account.backup : p[1] \in Known(over2)
      BY <1>2, <1>3 DEF KnownFactors, Known
    <2>2. CASE Plain \/ SetsUp(u)
      BY <2>1, <2>2, QuietKeeps DEF KeepsFactors
    <2>3. ASSUME NEW f \in Factors, Acts(u, f)
          PROVE  \A p \in account'.backup : p[1] \in Known(over2)
      <3>1. AtWork(u) /\ u \in over2
        BY <2>3, ActsAccepts
      <3>2. \A p \in saw[u].backup : p[1] \in Known(over2)
        BY <1>1, <1>2, <3>1 DEF OriginsKnown, KnownFactors, Known
      <3>3. \A p \in BackupOf(u) : p[1] \in Known(over2)
        BY <3>1 DEF BackupOf, Known
      <3>4. account'.backup \in {account.backup, saw[u].backup \ {f.paper}, BackupOf(u), {}}
        BY <2>3 DEF Acts, Verifies, Enables, Disables
      <3>5. QED
        BY <2>1, <3>2, <3>3, <3>4
    <2>4. QED
      BY <2>2, <2>3, HandlerKinds
  <1>7. NoFactors(account')
    <2>1. CASE Plain
      BY <1>1, <2>1 DEF Plain, AccountInv, NoFactors, SameFactors
    <2>2. CASE ChangesFactors(u)
      <3>1. AtWork(u)
        BY <2>2, ActsAccepts DEF ChangesFactors, Acts, SetsUp
      <3>2. saw[u].exists
        <4>1. saw[u].enabled # Nobody => saw[u].exists
          BY <1>1 DEF ExistsForGood, NoFactors
        <4>2. kind[u] \in {"mfa_setup", "mfa_enable"} => saw[u].exists
          BY <1>1, <3>1 DEF ExistsForGood
        <4>3. QED
          BY <2>2, <4>1, <4>2 DEF ChangesFactors, SetsUp, Verifies, Enables, Disables
      <3>3. account.exists
        BY <1>1, <3>2 DEF ExistsForGood
      <3>4. account'.exists
        BY <2>2, <3>3 DEF ChangesFactors
      <3>5. QED
        BY <3>4 DEF NoFactors
    <2>3. QED
      BY <2>1, <2>2 DEF HandlerStep
  <1>8. KnownFactors(account', over2)
    BY <1>5, <1>6 DEF KnownFactors
  <1>9. QED
    BY <1>4, <1>7, <1>8 DEF AccountInv, Ended

LEMMA UsedOnceKept ==
  ASSUME MfaInv, NEW u \in Requests, HandlerStep(u)
  PROVE  FactorUsedOnce'
  <1>1. /\ SignInTyped /\ BeforeIsOver
        /\ \A s \in Requests : \A r \in before[s] :
             accepted[r] = accepted[s] /\ accepted[r] # NoFactor => Rivalled(r)
    BY DEF MfaInv, FactorUsedOnce, Rivalled
  <1>2. before' = before /\ before \in [Requests -> SUBSET Requests] /\ ~Ended(u)
        /\ \A p \in Requests : u \notin before[p]
    BY <1>1, Acting DEF SignInTyped
  <1>3. ASSUME NEW s \in Requests, NEW r \in before'[s], accepted'[r] = accepted'[s], accepted'[r] # NoFactor
        PROVE  Rivalled(r)'
    <2>1. r \in before[s] /\ r \in Requests
      BY <1>2
    <2>2. CASE Plain \/ SetsUp(u)
      BY <1>1, <1>3, <2>1, <2>2, QuietKeeps DEF KeepsFactors
    <2>3. ASSUME NEW f \in Factors, Acts(u, f)
          PROVE  Rivalled(r)'
      <3>1. r # u /\ accepted'[r] = accepted[r]
        BY <1>2, <2>1, <2>3, ActsAccepts
      <3>2. CASE s # u
        BY <1>1, <1>3, <2>1, <2>3, <3>1, <3>2, ActsAccepts
      <3>3. CASE s = u
        <4>1. accepted[r] = f /\ AtWork(u)
          BY <1>3, <2>3, <3>1, <3>3, ActsAccepts
        <4>2. ~Spent(saw[u], f)
          BY <1>1, <2>3, ActsFits
        <4>3. SpentForGood(r)
          BY <2>1 DEF MfaInv, FactorInv
        <4>4. Rivalled(r)
          BY <1>3, <2>1, <3>1, <3>3, <4>1, <4>2, <4>3 DEF SpentForGood
        <4>5. QED
          BY <2>1, <2>3, <4>4, ActsAccepts
      <3>4. QED
        BY <3>2, <3>3
    <2>4. QED
      BY <2>2, <2>3, HandlerKinds
  <1>4. QED
    BY <1>3 DEF FactorUsedOnce, Rivalled

LEMMA ConfirmedKept ==
  ASSUME MfaInv, NEW u \in Requests, HandlerStep(u)
  PROVE  EnabledConfirmed'
  <1> DEFINE e == account'.enabled
  <1> SUFFICES ASSUME e \in Requests
               PROVE  account'.secret = accepted'[e].secret \/ Disturbed(e)
    <2>1. before' = before /\ kind' = kind
      BY Acting DEF MfaInv
    <2>2. QED
      BY <2>1 DEF EnabledConfirmed, Disturbed, Overlap
  <1>1. /\ SignInTyped /\ BeforeIsOver /\ ConfirmsSecret(u) /\ SeesEnabled(u) /\ SeesFactors(u)
        /\ ~Ended(u) /\ \A p \in Requests : u \notin before[p]
    BY Acting DEF MfaInv, FactorInv
  <1>2. Nobody \notin Requests
    BY ConstantsAssumption
  <1>3. account.enabled \in Requests => /\ Ended(account.enabled)
                                        /\ \/ account.secret = accepted[account.enabled].secret
                                           \/ Disturbed(account.enabled)
    BY DEF MfaInv, AccountInv, EnabledConfirmed, Disturbed
  <1>4. CASE Plain \/ SetsUp(u)
    <2>1. e = account.enabled /\ accepted' = accepted
      BY <1>4, QuietKeeps DEF KeepsFactors
    <2>2. CASE account'.secret = account.secret
      BY <1>3, <2>1, <2>2
    <2>3. CASE account'.secret # account.secret
      <3>1. SetsUp(u)
        BY <1>4, <2>3, QuietKeeps
      <3>2. e # u /\ e \notin before[u]
        BY <1>1, <1>2, <1>3, <2>1, <3>1 DEF SetsUp, SeesEnabled
      <3>3. Overlap(u, e)
        BY <1>1, <3>2 DEF Overlap
      <3>4. QED
        BY <3>1, <3>3 DEF Disturbed, SetsUp
    <2>4. QED
      BY <2>2, <2>3
  <1>5. ASSUME NEW f \in Factors, Verifies(u, f)
        PROVE  account'.secret = accepted'[e].secret \/ Disturbed(e)
    <2>1. e = account.enabled /\ account'.secret = account.secret /\ e # u
      BY <1>1, <1>3, <1>5 DEF Verifies
    <2>2. accepted'[e] = accepted[e]
      BY <1>5, <2>1, ActsAccepts DEF Acts
    <2>3. QED
      BY <1>3, <2>1, <2>2
  <1>6. ASSUME NEW f \in Factors, Enables(u, f)
        PROVE  account'.secret = accepted'[e].secret \/ Disturbed(e)
    <2>1. e = u /\ account'.secret = account.secret /\ f.secret = saw[u].secret
      BY <1>6 DEF Enables
    <2>2. accepted'[u] = f /\ AtWork(u)
      BY <1>6, ActsAccepts DEF Acts
    <2>3. QED
      BY <1>1, <2>1, <2>2 DEF ConfirmsSecret
  <1>7. ASSUME NEW f \in Factors, Disables(u, f)
        PROVE  FALSE
    BY <1>2, <1>7 DEF Disables
  <1>8. QED
    BY <1>4, <1>5, <1>6, <1>7, HandlerKinds DEF Acts

LEMMA HandlerKeeps ==
  ASSUME MfaInv, NEW u \in Requests, HandlerStep(u)
  PROVE  MfaInv'
  <1>1. SignInTyped' /\ BeforeIsOver'
    BY HandledOver DEF MfaInv, HandlerStep
  <1>2. \A r \in Requests : FactorInv(r)'
    BY AcceptedAtEndKept, SpentKept, OriginsKept, RestKept DEF FactorInv
  <1>3. QED
    BY <1>1, <1>2, AccountKept, UsedOnceKept, ConfirmedKept DEF MfaInv

-----------------------------------------------------------------------------
(* A request begins: it sees the account as it is.                          *)
LEMMA BeginRivals ==
  ASSUME MfaInv, NEW u \in Requests, NEW k \in Kinds, Begin(u, k)
  PROVE  /\ accepted[u] = NoFactor /\ ~Ended(u) /\ kind[u] = "none"
         /\ \A p \in Requests : u \notin before[p]
         /\ \A p \in Requests \ {u} : /\ Rivalled(p) => Rivalled(p)'
                                      /\ Disturbed(p) => Disturbed(p)'
         /\ \A p \in Requests : Ended(p) <=> Ended(p)'
  <1>1. SignInTyped /\ BeforeIsOver /\ AcceptedAtEnd(u)
    BY DEF MfaInv, FactorInv
  <1>2. accepted[u] = NoFactor /\ ~Ended(u) /\ kind[u] = "none"
    BY <1>1, BeginOthers DEF AcceptedAtEnd, Ended, BeforeIsOver
  <1>3. \A p \in Requests : u \notin before[p]
    BY <1>1, <1>2 DEF BeforeIsOver
  <1>4. \A p, q \in Requests \ {u} : Overlap(q, p) => Overlap(q, p)'
    BY <1>1, BeginOthers DEF Overlap
  <1>5. \A p \in Requests \ {u} : Rivalled(p) => Rivalled(p)'
    BY <1>1, <1>2, <1>4, BeginOthers DEF Rivalled
  <1>6. \A p \in Requests \ {u} : Disturbed(p) => Disturbed(p)'
    BY <1>1, <1>2, <1>4, BeginOthers DEF Disturbed
  <1>7. \A p \in Requests : Ended(p) <=> Ended(p)'
    BY <1>1, <1>2, BeginOthers DEF Ended
  <1>8. QED
    BY <1>2, <1>3, <1>5, <1>6, <1>7

LEMMA BeginFactors ==
  ASSUME MfaInv, NEW u \in Requests, NEW k \in Kinds, Begin(u, k), NEW r \in Requests
  PROVE  FactorInv(r)'
  <1>1. /\ FactorInv(r) /\ SignInTyped /\ BeforeIsOver /\ AccountInv
        /\ account \in AccountRows /\ before \in [Requests -> SUBSET Requests]
    BY DEF MfaInv, SignInTyped
  <1>2. AcceptedAtEnd(r)'
    BY <1>1, BeginOthers, BeginRivals DEF FactorInv, AcceptedAtEnd
  <1>3. CASE r = u
    <2>1. saw'[u] = account /\ before'[u] = {q \in Requests : Ended(q)} /\ UNCHANGED <<account, accepted>>
          /\ kind'[u] = k /\ accepted'[u] = NoFactor
      BY <1>1, BeginOthers, BeginRivals
    <2>2. SeesFactors(u)' /\ SpentForGood(u)' /\ SecretMovesOn(u)' /\ ConfirmsSecret(u)' /\ SeesEnabled(u)'
      BY <2>1 DEF SeesFactors, SpentForGood, SecretMovesOn, ConfirmsSecret, SeesEnabled
    <2>3. OriginsKnown(u)'
      <3>1. NoFactor.secret = Nobody /\ NoFactor.paper[1] = Nobody
        BY DEF NoFactor, NoPaper
      <3>2. QED
        BY <1>1, <2>1, <3>1 DEF OriginsKnown, AccountInv, Known
    <2>4. ExistsForGood(u)'
      BY <1>1, <2>1 DEF ExistsForGood, AccountInv, Begin, SignedIn
    <2>5. QED
      BY <1>2, <1>3, <2>2, <2>3, <2>4 DEF FactorInv
  <1>4. CASE r # u
    <2>1. /\ saw'[r] = saw[r] /\ before'[r] = before[r] /\ kind'[r] = kind[r] /\ (AtWork(r)' <=> AtWork(r))
          /\ UNCHANGED <<account, accepted>>
          /\ (Rivalled(r) => Rivalled(r)') /\ (Disturbed(r) => Disturbed(r)')
      BY <1>1, <1>4, BeginOthers, BeginRivals DEF AtWork
    <2>2. SeesFactors(r)' /\ SecretMovesOn(r)' /\ ConfirmsSecret(r)' /\ SeesEnabled(r)'
      BY <1>1, <2>1 DEF FactorInv, SeesFactors, SecretMovesOn, ConfirmsSecret, SeesEnabled
    <2>3. OriginsKnown(r)' /\ ExistsForGood(r)'
      BY <1>1, <2>1 DEF FactorInv, OriginsKnown, ExistsForGood
    <2>4. SpentForGood(r)'
      <3> SUFFICES ASSUME accepted[r] # NoFactor, ~Rivalled(r)
                   PROVE  /\ Spent(account, accepted[r])
                          /\ \A s \in Requests : AtWork(s)' /\ r \in before'[s] => Spent(saw'[s], accepted[r])
        BY <2>1 DEF SpentForGood
      <3>1. /\ Spent(account, accepted[r])
            /\ \A s \in Requests : AtWork(s) /\ r \in before[s] => Spent(saw[s], accepted[r])
        BY <1>1 DEF FactorInv, SpentForGood
      <3>2. saw'[u] = account
        BY <1>1, BeginOthers
      <3>3. \A s \in Requests \ {u} : /\ saw'[s] = saw[s] /\ before'[s] = before[s]
                                      /\ (AtWork(s)' <=> AtWork(s))
        BY <1>1, BeginOthers DEF AtWork
      <3>4. QED
        BY <3>1, <3>2, <3>3
    <2>5. QED
      BY <1>2, <2>2, <2>3, <2>4 DEF FactorInv
  <1>5. QED
    BY <1>3, <1>4

LEMMA BeginKeeps ==
  ASSUME MfaInv, NEW u \in Requests, NEW k \in Kinds, Begin(u, k)
  PROVE  MfaInv'
  <1>1. SignInTyped /\ BeforeIsOver /\ AccountInv /\ UNCHANGED <<account, accepted>>
    BY BeginOthers DEF MfaInv
  <1>2. SignInTyped' /\ BeforeIsOver'
    BY <1>1, BeginTyped, BeginOver
  <1>3. AccountInv'
    <2>1. {r \in Requests : Ended(r)'} = {r \in Requests : Ended(r)}
      BY BeginRivals
    <2>2. account.enabled \in Requests => step'[account.enabled] = "ended"
      BY <1>1, BeginRivals DEF AccountInv, Ended
    <2>3. QED
      BY <1>1, <2>1, <2>2 DEF AccountInv, Ended
  <1>4. FactorUsedOnce'
    <2> SUFFICES ASSUME NEW s \in Requests, NEW r \in before'[s], accepted[r] = accepted[s], accepted[r] # NoFactor
                 PROVE  Rivalled(r)'
      BY <1>1 DEF FactorUsedOnce, Rivalled
    <2>1. s # u
      BY BeginRivals
    <2>2. r \in before[s] /\ r \in Requests
      BY <1>1, <2>1, BeginOthers DEF SignInTyped
    <2>3. r # u
      BY <2>2, BeginRivals
    <2>4. Rivalled(r)
      BY <2>2 DEF MfaInv, FactorUsedOnce, Rivalled
    <2>5. QED
      BY <2>2, <2>3, <2>4, BeginRivals
  <1>5. EnabledConfirmed'
    <2> SUFFICES ASSUME NEW e \in Requests, e = account.enabled
                 PROVE  account.secret = accepted[e].secret \/ Disturbed(e)'
      BY <1>1 DEF EnabledConfirmed, Disturbed
    <2>1. e # u
      BY <1>1, BeginRivals DEF AccountInv
    <2>2. account.secret = accepted[e].secret \/ Disturbed(e)
      BY DEF MfaInv, EnabledConfirmed, Disturbed
    <2>3. QED
      BY <2>1, <2>2, BeginRivals
  <1>6. QED
    BY <1>2, <1>3, <1>4, <1>5, BeginFactors DEF MfaInv

LEMMA MfaStepKeeps == MfaInv /\ [Next]_vars => MfaInv'
  <1> SUFFICES ASSUME MfaInv, [Next]_vars
               PROVE  MfaInv'
    OBVIOUS
  <1>1. ASSUME NEW r \in Requests, Handler(r)
        PROVE  MfaInv'
    BY <1>1, HandlerSteps, HandlerKeeps DEF MfaInv
  <1>2. CASE Tick \/ UNCHANGED vars
    <2>1. /\ now' \in Int
          /\ UNCHANGED <<account, codes, step, kind, saw, sawCode, doomed, emailed, removers, accepted, before>>
      BY <1>2 DEF Tick, vars, locals, histories, SignInTyped, MfaInv
    <2>2. SignInTyped' /\ BeforeIsOver' /\ AccountInv'
      BY <2>1 DEF MfaInv, SignInTyped, BeforeIsOver, AccountInv, Ended
    <2>3. \A r \in Requests : FactorInv(r)'
      BY <2>1 DEF MfaInv, FactorInv, AcceptedAtEnd, SeesFactors, SpentForGood, OriginsKnown, SecretMovesOn,
                  ExistsForGood, ConfirmsSecret, SeesEnabled, AtWork, Ended, Rivalled, Disturbed, Overlap
    <2>4. FactorUsedOnce' /\ EnabledConfirmed'
      BY <2>1 DEF MfaInv, FactorUsedOnce, EnabledConfirmed, Overlap
    <2>5. QED
      BY <2>2, <2>3, <2>4 DEF MfaInv
  <1>3. QED
    BY <1>1, <1>2, BeginKeeps DEF Next, Handler

LEMMA InitMfa == Init => MfaInv
  <1> SUFFICES ASSUME Init
               PROVE  MfaInv
    OBVIOUS
  <1>1. SignInTyped /\ BeforeIsOver
    BY InitSignIn
  <1>2. /\ step = [r \in Requests |-> "idle"] /\ kind = [r \in Requests |-> "none"]
        /\ saw = [r \in Requests |-> NoAccount] /\ accepted = [r \in Requests |-> NoFactor]
        /\ before = [r \in Requests |-> {}]
    BY DEF Init
  <1>3. /\ account.secret \in {Nobody, Earlier} /\ account.enabled \in {Nobody, Earlier}
        /\ account.backup \in {{}, BackupOf(Earlier)} /\ NoFactors(account)
    <2>1. /\ NoAccount.secret = Nobody /\ NoAccount.enabled = Nobody /\ NoAccount.backup = {} /\ NoFactors(NoAccount)
      BY DEF NoAccount, NoFactors
    <2>2. /\ Unconfirmed.secret = Nobody /\ Unconfirmed.enabled = Nobody /\ Unconfirmed.backup = {}
          /\ Unconfirmed.exists
      BY DEF NoAccount, Unconfirmed
    <2>3. /\ Confirmed.secret = Nobody /\ Confirmed.enabled = Nobody /\ Confirmed.backup = {}
          /\ Confirmed.exists
      BY DEF NoAccount, Unconfirmed, Confirmed
    <2>4. /\ TwoStep.secret = Earlier /\ TwoStep.enabled = Earlier /\ TwoStep.backup = BackupOf(Earlier)
          /\ TwoStep.exists
      BY DEF NoAccount, Unconfirmed, Confirmed, TwoStep
    <2>5. QED
      BY <2>1, <2>2, <2>3, <2>4 DEF Init, NoFactors
  <1>4. AccountInv
    BY <1>3, ConstantsAssumption DEF AccountInv, KnownFactors, Known, BackupOf
  <1>5. NoFactor.secret = Nobody /\ NoFactor.paper[1] = Nobody /\ NoFactors(NoAccount) /\ ~NoAccount.exists
    BY DEF NoFactor, NoPaper, NoAccount, NoFactors
  <1>6. \A r \in Requests : FactorInv(r)
    BY <1>2, <1>5 DEF FactorInv, AcceptedAtEnd, SeesFactors, SpentForGood, OriginsKnown, SecretMovesOn,
                ExistsForGood, ConfirmsSecret, SeesEnabled, AtWork, Known
  <1>7. FactorUsedOnce /\ EnabledConfirmed
    BY <1>2, <1>3, ConstantsAssumption DEF FactorUsedOnce, EnabledConfirmed
  <1>8. QED
    BY <1>1, <1>4, <1>6, <1>7 DEF MfaInv

-----------------------------------------------------------------------------
(* The browser session.                                                    *)

(* What a script may have left to do with its answer.                       *)
ToShow     == <<"show">>
ToCount    == <<"count", "show">>
ToLabel    == <<"metadata", "count", "show">>
ToFile     == <<"latest", "metadata", "count", "show">>
ToKeep     == <<"keep", "latest", "metadata", "count", "show">>
ToResearch == <<"research">>
ToTally    == <<"count", "research">>
ToList     == <<"show", "count", "research">>

LeftOf(a) == CASE a.kind = "proposal" -> {ToKeep, ToFile, ToLabel, ToCount, ToShow}
                    [] a.kind = "market"   -> IF a.rows THEN {ToList, ToTally, ToResearch} ELSE {}
                    [] a.kind = "search"   -> {ToShow}
                    [] OTHER                    -> {ToCount, ToShow}

Uncounted == {ToKeep, ToFile, ToLabel, ToCount, ToList, ToTally}

Counts(a) == StepsOf(a) \notin {<< >>, <<"show">>}

InScript == rest # << >> /\ ~InCall

Replies == [kind : {"proposal"}, client : Clients, failed : Outcomes]
           \cup [kind : {"revision"}, of : Nat, key : Keys, base : Nat]
           \cup RunMarketResearch \cup RunDocumentMatch \cup RetrievalSearch

SessionTyped == /\ page \in Pages
                /\ answers \in Seq(Replies) /\ Len(answers) <= MaxAnswers
                /\ runs \in Seq([call : Nat, client : Clients, sections : [Keys -> Nat]])
                /\ last \in [result : Nat, client : Clients \cup {""}, research : Nat]
                /\ counted \in [1..MaxAnswers -> Nat]
                /\ lost \subseteq 1..Len(answers)
                /\ screen.call \in 0..Len(answers)

(* What has been entered fits the page and the runs that are kept.          *)
Fits(where, form) ==
  /\ where = "proposal" => form.client \in Clients
  /\ where = "revision" => form.of \in DOMAIN runs /\ form.key \in Drafted(runs[form.of])

Entered == /\ waiting.do = "go" => waiting.to \in Pages
           /\ waiting.do = "submit" => Fits(page, waiting.form)
           /\ InCall => asking.kind \in Pages \ {"home"} /\ Fits(asking.kind, asking.form)

(* A run is kept as it was answered; a revision is of a run that is kept.    *)
Kept == /\ \A i \in DOMAIN runs :
             LET n == runs[i].call
             IN  /\ n \in DOMAIN answers /\ answers[n].kind = "proposal"
                 /\ runs[i].client = answers[n].client /\ runs[i].sections = Generated(n)
                 /\ \A j \in 1..(i - 1) : runs[j].call < n
        /\ \A n \in DOMAIN answers :
             answers[n].kind = "revision" =>
               /\ answers[n].base = answers[n].of
               /\ \E i \in DOMAIN runs : runs[i].call = answers[n].of /\ answers[n].key \in Drafted(runs[i])

(* Calls are counted once, the last one as far as its script has come.      *)
Counting ==
  /\ \A n \in 1..MaxAnswers :
       /\ counted[n] <= 1
       /\ n > Len(answers) => counted[n] = 0
       /\ n \in DOMAIN answers /\ (n < Len(answers) \/ ~InScript) /\ n \notin lost =>
            (counted[n] > 0 <=> Counts(answers[n]))
  /\ InScript => /\ answers # << >> /\ Call \notin lost /\ rest \in LeftOf(Answered)
                 /\ counted[Call] = IF rest \in Uncounted \/ Answered.kind = "search" THEN 0 ELSE 1

(* A run that is newer than the latest result was lost, or is being filed.   *)
Filing == /\ last.result = 0 \/ \E i \in DOMAIN runs : runs[i].call = last.result
          /\ \A i \in DOMAIN runs :
               runs[i].call > last.result => runs[i].call \in lost \/ (rest = ToFile /\ runs[i].call = Call)
          /\ rest = ToKeep => \A i \in DOMAIN runs : runs[i].call < Call
          /\ rest = ToFile => \E i \in DOMAIN runs : runs[i].call = Call

(* Nothing is on the screen that its script has not finished, but for the    *)
(* page for vendors, which shows them first.                               *)
Showing == /\ InCall => screen.call = 0
           /\ InScript => screen.call = 0 \/ (Answered.kind = "market" /\ screen.call = Call)
           /\ OffersItsOwn

SessionInv == SessionTyped /\ Entered /\ Kept /\ Counting /\ Filing /\ Showing

-----------------------------------------------------------------------------
LEMMA Scripts ==
  /\ Head(ToKeep) = "keep" /\ Tail(ToKeep) = ToFile
  /\ Head(ToFile) = "latest" /\ Tail(ToFile) = ToLabel
  /\ Head(ToLabel) = "metadata" /\ Tail(ToLabel) = ToCount
  /\ Head(ToCount) = "count" /\ Tail(ToCount) = ToShow
  /\ Head(ToShow) = "show" /\ Tail(ToShow) = << >>
  /\ Head(ToList) = "show" /\ Tail(ToList) = ToTally
  /\ Head(ToTally) = "count" /\ Tail(ToTally) = ToResearch
  /\ Head(ToResearch) = "research" /\ Tail(ToResearch) = << >>
  BY DEF ToShow, ToCount, ToLabel, ToFile, ToKeep, ToResearch, ToTally, ToList

LEMMA ScriptsDiffer ==
  /\ \A s \in {ToKeep, ToFile, ToLabel, ToCount, ToShow, ToList, ToTally, ToResearch} : s # << >> /\ s # <<"call">>
  /\ ToFile # ToKeep /\ ToLabel \notin {ToKeep, ToFile} /\ ToCount \notin {ToKeep, ToFile, ToLabel}
  /\ ToShow \notin {ToKeep, ToFile, ToLabel, ToCount}
  /\ ToList \notin {ToKeep, ToFile, ToLabel, ToCount, ToShow}
  /\ ToTally \notin {ToKeep, ToFile, ToLabel, ToCount, ToShow, ToList}
  /\ ToResearch \notin {ToKeep, ToFile, ToLabel, ToCount, ToShow, ToList, ToTally}
  BY DEF ToShow, ToCount, ToLabel, ToFile, ToKeep, ToResearch, ToTally, ToList

LEMMA StepsOfReply ==
  ASSUME NEW a \in Replies
  PROVE  /\ StepsOf(a) = << >> => ~Counts(a)
         /\ StepsOf(a) # << >> => /\ StepsOf(a) \in LeftOf(a)
                                  /\ StepsOf(a) \in {ToKeep, ToList, ToCount, ToShow}
                                  /\ (StepsOf(a) \in Uncounted \/ a.kind = "search")
         /\ a.kind = "search" <=> StepsOf(a) = ToShow
         /\ Counts(a) <=> StepsOf(a) # << >> /\ a.kind # "search"
         /\ a.kind \in {"proposal", "revision", "market", "match", "search"}
  <1>1. CASE a \in [kind : {"proposal"}, client : Clients, failed : Outcomes]
    <2>1. a.kind = "proposal"
      BY <1>1
    <2>2. StepsOf(a) = ToKeep
      BY <2>1 DEF StepsOf, ToKeep
    <2>3. QED
      BY <2>1, <2>2, ScriptsDiffer DEF Counts, LeftOf, Uncounted, ToShow
  <1>2. CASE a \in RunMarketResearch
    <2>1. a.kind = "market" /\ a.rows \in BOOLEAN
      BY <1>2 DEF RunMarketResearch
    <2>2. StepsOf(a) = IF a.rows THEN ToList ELSE << >>
      BY <2>1 DEF StepsOf, ToList
    <2>3. QED
      BY <2>1, <2>2, ScriptsDiffer DEF Counts, LeftOf, Uncounted, ToShow
  <1>3. CASE a \in RetrievalSearch
    <2>1. a.kind = "search"
      BY <1>3 DEF RetrievalSearch
    <2>2. StepsOf(a) = ToShow
      BY <2>1 DEF StepsOf, ToShow
    <2>3. QED
      BY <2>1, <2>2, ScriptsDiffer DEF Counts, LeftOf, Uncounted, ToShow
  <1>4. CASE a \in RunDocumentMatch \/ a \in [kind : {"revision"}, of : Nat, key : Keys, base : Nat]
    <2>1. a.kind \in {"match", "revision"}
      BY <1>4 DEF RunDocumentMatch
    <2>2. StepsOf(a) = ToCount
      BY <2>1 DEF StepsOf, ToCount
    <2>3. LeftOf(a) = {ToCount, ToShow}
      BY <2>1 DEF LeftOf
    <2>4. QED
      BY <2>1, <2>2, <2>3, ScriptsDiffer DEF Counts, Uncounted, ToShow
  <1>5. QED
    BY <1>1, <1>2, <1>3, <1>4 DEF Replies

LEMMA SessionLen ==
  ASSUME SessionInv
  PROVE  /\ DOMAIN answers = 1..Len(answers) /\ Len(answers) \in Nat
         /\ DOMAIN runs = 1..Len(runs) /\ Len(runs) \in Nat
  <1>1. answers \in Seq(Replies) /\ runs \in Seq([call : Nat, client : Clients, sections : [Keys -> Nat]])
    BY DEF SessionInv, SessionTyped
  <1>2. QED
    BY <1>1

(* What a click brings along.                                              *)
Sensible(click) == /\ click.do = "go" => click.to \in Pages
                   /\ click.do = "submit" => Fits(page, click.form)

LEMMA ClicksSensible ==
  ASSUME page \in Pages, NEW click \in Clicks
  PROVE  Sensible(click)
  <1>1. ASSUME click \in [do : {"submit"}, form : Forms]
        PROVE  Sensible(click)
    <2>1. click.do = "submit" /\ click.form \in Forms
      BY <1>1
    <2>2. page = "proposal" => click.form \in ProposalForm
      BY <2>1 DEF Forms
    <2>3. page = "revision" => click.form \in RevisionForm
      BY <2>1 DEF Forms
    <2>4. page = "proposal" => click.form.client \in Clients
      BY <2>2 DEF ProposalForm
    <2>5. page = "revision" => click.form.of \in DOMAIN runs /\ click.form.key \in Drafted(runs[click.form.of])
      <3> SUFFICES ASSUME page = "revision"
                   PROVE  click.form.of \in DOMAIN runs /\ click.form.key \in Drafted(runs[click.form.of])
        OBVIOUS
      <3>1. PICK i \in Selectable : click.form \in [of : {i}, key : Drafted(runs[i]), filled : BOOLEAN]
        BY <2>3 DEF RevisionForm
      <3>2. i \in DOMAIN runs /\ click.form.of = i /\ click.form.key \in Drafted(runs[i])
        BY <3>1 DEF Selectable
      <3>3. QED
        BY <3>2
    <2>6. QED
      BY <2>1, <2>4, <2>5 DEF Sensible, Fits
  <1>2. ASSUME click \in [do : {"go"}, to : Pages]
        PROVE  Sensible(click)
    BY <1>2 DEF Sensible
  <1>3. ASSUME click \in {LogOut, Other}
        PROVE  Sensible(click)
    <2>1. LogOut.do = "log out" /\ Other.do = "other"
      BY DEF LogOut, Other
    <2>2. click.do \notin {"go", "submit"}
      BY <1>3, <2>1
    <2>3. QED
      BY <2>2 DEF Sensible
  <1>4. QED
    BY <1>1, <1>2, <1>3 DEF Clicks

LEMMA PageIsRun ==
  ASSUME page \in Pages, NEW click, Sensible(click), RunPage(click), runs' = runs
  PROVE  /\ page' \in Pages /\ screen' = Nothing /\ rest' \in {<< >>, <<"call">>}
         /\ rest' = <<"call">> => asking'.kind \in Pages \ {"home"} /\ Fits(asking'.kind, asking'.form)
  <1>1. page' \in Pages /\ screen' = Nothing
    BY DEF RunPage, Sensible
  <1>2. CASE click.do = "submit"
    <2>1. /\ asking' = IF click.form.filled /\ page # "home" THEN [kind |-> page, form |-> click.form] ELSE NoQuestion
          /\ rest' = IF click.form.filled /\ page # "home" THEN <<"call">> ELSE << >>
      BY <1>2 DEF RunPage, Submit
    <2>2. rest' \in {<< >>, <<"call">>}
      BY <2>1
    <2>3. rest' = <<"call">> => page # "home" /\ asking'.kind = page /\ asking'.form = click.form
      BY <2>1
    <2>4. QED
      BY <1>1, <1>2, <2>2, <2>3 DEF Sensible
  <1>3. CASE click.do # "submit"
    BY <1>1, <1>3 DEF RunPage
  <1>4. QED
    BY <1>2, <1>3

(* The page is run: nothing is shown, and what was cut is lost.             *)
PageRun == /\ UNCHANGED <<runs, last, counted, answers>>
           /\ lost \subseteq lost' /\ lost' \subseteq 1..Len(answers) /\ (InScript => Call \in lost')
           /\ page' \in Pages /\ screen' = Nothing /\ rest' \in {<< >>, <<"call">>}
           /\ rest' = <<"call">> => asking'.kind \in Pages \ {"home"} /\ Fits(asking'.kind, asking'.form)
           /\ waiting' = NoClick

LEMMA PageRunKeeps ==
  ASSUME SessionInv, PageRun
  PROVE  SessionInv'
  <1>0. NoClick.do = "nothing" /\ Nothing.call = 0
    BY DEF NoClick, Nothing
  <1>1. UNCHANGED <<runs, last, counted, answers>> /\ SessionTyped
    BY DEF PageRun, SessionInv
  <1>a. DOMAIN answers = 1..Len(answers) /\ Len(answers) \in Nat
    BY SessionLen
  <1>2. SessionTyped'
    <2>1. screen'.call \in 0..Len(answers) /\ lost' \subseteq 1..Len(answers) /\ page' \in Pages
      BY <1>0, <1>a DEF PageRun
    <2>2. QED
      BY <1>1, <2>1 DEF SessionTyped
  <1>3. ~InScript' /\ (InCall' <=> rest' = <<"call">>) /\ rest' \notin {ToKeep, ToFile}
    BY ScriptsDiffer DEF PageRun, InScript, InCall
  <1>4. Entered'
    BY <1>0, <1>1, <1>3 DEF Entered, PageRun, Fits
  <1>5. Kept'
    BY <1>1 DEF SessionInv, Kept, Generated
  <1>6. Counting'
    <2>1. Counting /\ lost \subseteq lost' /\ (InScript => Call \in lost')
      BY DEF SessionInv, PageRun
    <2>2. \A n \in DOMAIN answers : InScript /\ n \notin lost' => n < Len(answers)
      BY <1>a, <2>1 DEF Call
    <2>3. QED
      BY <1>1, <1>3, <2>1, <2>2 DEF Counting
  <1>7. Filing'
    <2>1. Filing /\ lost \subseteq lost' /\ (InScript => Call \in lost')
      BY DEF SessionInv, PageRun
    <2>2. rest = ToFile => InScript
      BY ScriptsDiffer DEF InScript, InCall
    <2>3. QED
      BY <1>1, <1>3, <2>1, <2>2 DEF Filing, Call
  <1>8. Showing'
    BY <1>0, <1>1, <1>3 DEF Showing, PageRun, OffersItsOwn
  <1>9. QED
    BY <1>2, <1>4, <1>5, <1>6, <1>7, <1>8 DEF SessionInv

LEMMA ClickKeeps ==
  ASSUME SessionInv, Click
  PROVE  SessionInv'
  <1>1. PICK click \in Clicks :
          IF rest = << >>
          THEN RunPage(click) /\ UNCHANGED waiting
          ELSE waiting' = click /\ UNCHANGED <<page, signedOn, asking, rest, screen>>
    BY DEF Click
  <1>2. waiting = NoClick /\ UNCHANGED <<runs, last, counted, answers, lost>> /\ page \in Pages /\ Sensible(click)
    BY ClicksSensible DEF Click, SessionInv, SessionTyped
  <1>3. CASE rest = << >>
    <2>1. lost \subseteq 1..Len(answers) /\ ~InScript
      BY <1>3 DEF SessionInv, SessionTyped, InScript
    <2>2. PageRun
      BY <1>1, <1>2, <1>3, <2>1, PageIsRun DEF PageRun
    <2>3. QED
      BY <2>2, PageRunKeeps
  <1>4. CASE rest # << >>
    <2>1. waiting' = click /\ UNCHANGED <<page, asking, rest, screen, runs, last, counted, answers, lost>>
      BY <1>1, <1>2, <1>4
    <2>2. Entered'
      BY <1>2, <2>1 DEF SessionInv, Entered, Fits, Sensible, InCall
    <2>3. Kept'
      BY <2>1 DEF SessionInv, Kept, Generated
    <2>7. SessionTyped'
      BY <2>1 DEF SessionInv, SessionTyped
    <2>6. Filing'
      BY <2>1 DEF SessionInv, Filing, Call
    <2>4. Counting' /\ Showing'
      BY <2>1 DEF SessionInv, Counting, Showing, OffersItsOwn, InScript, InCall, Call, Answered
    <2>5. QED
      BY <2>2, <2>3, <2>4, <2>6, <2>7 DEF SessionInv
  <1>5. QED
    BY <1>3, <1>4

LEMMA CutKeeps ==
  ASSUME SessionInv, Cut
  PROVE  SessionInv'
  <1>1. Sensible(waiting) /\ page \in Pages
    BY DEF SessionInv, Entered, SessionTyped, Sensible
  <1>2. /\ lost' = IF rest = << >> THEN lost ELSE lost \cup {Len(answers)}
        /\ RunPage(waiting) /\ waiting' = NoClick /\ UNCHANGED <<runs, last, counted, answers>> /\ ~InCall
    BY DEF Cut
  <1>3. lost \subseteq lost' /\ lost' \subseteq 1..Len(answers) /\ (InScript => Call \in lost')
    <2>1. lost \subseteq 1..Len(answers) /\ answers \in Seq(Replies)
      BY DEF SessionInv, SessionTyped
    <2>2. rest # << >> => Len(answers) \in 1..Len(answers)
      BY <1>2, <2>1 DEF SessionInv, Counting, InScript
    <2>3. QED
      BY <1>2, <2>1, <2>2 DEF InScript, Call
  <1>4. PageRun
    BY <1>1, <1>2, <1>3, PageIsRun DEF PageRun
  <1>5. QED
    BY <1>4, PageRunKeeps

LEMMA RunTyped ==
  ASSUME SessionInv, NEW i \in DOMAIN runs
  PROVE  runs[i].call \in Nat /\ runs[i].client \in Clients /\ runs[i].sections \in [Keys -> Nat]
  <1> DEFINE R == [call : Nat, client : Clients, sections : [Keys -> Nat]]
  <1>1. runs \in Seq(R)
    BY DEF SessionInv, SessionTyped
  <1>2. runs[i] \in R
    <2> HIDE DEF R
    <2>1. QED
      BY <1>1
  <1>3. PICK run \in R : run = runs[i]
    BY <1>2
  <1>4. run.call \in Nat /\ run.client \in Clients /\ run.sections \in [Keys -> Nat]
    OBVIOUS
  <1>5. QED
    BY <1>3, <1>4

(* What may be answered to a question.                                      *)
LEMMA AnswersFit ==
  ASSUME SessionInv, InCall, NEW a \in AnswersTo(asking)
  PROVE  /\ a \in Replies
         /\ a.kind = "revision" =>
              /\ a.base = a.of
              /\ \E i \in DOMAIN runs : runs[i].call = a.of /\ a.key \in Drafted(runs[i])
  <1>1. asking.kind \in {"proposal", "revision", "match", "market", "search"} /\ Fits(asking.kind, asking.form)
    BY DEF SessionInv, Entered, Pages
  <1>2. CASE asking.kind = "proposal"
    <2>1. a \in CreateWorkflowRun(asking.form)
      BY <1>2 DEF AnswersTo
    <2>2. asking.form.client \in Clients
      BY <1>1, <1>2 DEF Fits
    <2>3. a \in [kind : {"proposal"}, client : Clients, failed : Outcomes]
      BY <2>1, <2>2 DEF CreateWorkflowRun
    <2>4. QED
      BY <2>3 DEF Replies
  <1>3. CASE asking.kind = "revision"
    <2>1. a \in ReviseSection(asking.form)
      BY <1>3 DEF AnswersTo
    <2>2. PICK i, k : i = asking.form.of /\ k = asking.form.key
      OBVIOUS
    <2>3. i \in DOMAIN runs /\ k \in Drafted(runs[i])
      BY <1>1, <1>3, <2>2 DEF Fits
    <2>4. a = [kind |-> "revision", of |-> runs[i].call, key |-> k, base |-> runs[i].sections[k]]
      BY <2>1, <2>2 DEF ReviseSection
    <2>b. runs[i].call \in Nat /\ runs[i].sections \in [Keys -> Nat]
      BY <2>3, RunTyped
    <2>5. runs[i].call \in Nat /\ k \in Keys /\ runs[i].sections[k] # 0 /\ runs[i].sections[k] \in Nat
      BY <2>3, <2>b DEF Drafted
    <2>6. runs[i].sections = Generated(runs[i].call)
      BY <2>3 DEF SessionInv, Kept
    <2>7. runs[i].sections[k] = runs[i].call
      BY <2>5, <2>6 DEF Generated
    <2>8. a \in [kind : {"revision"}, of : Nat, key : Keys, base : Nat]
      BY <2>4, <2>5
    <2>9. QED
      BY <2>3, <2>4, <2>7, <2>8 DEF Replies
  <1>4. CASE asking.kind = "match"
    BY <1>4 DEF AnswersTo, RunDocumentMatch, Replies
  <1>5. CASE asking.kind = "market"
    BY <1>5 DEF AnswersTo, RunMarketResearch, Replies
  <1>6. CASE asking.kind = "search"
    BY <1>6 DEF AnswersTo, RetrievalSearch, Replies
  <1>7. QED
    BY <1>1, <1>2, <1>3, <1>4, <1>5, <1>6

LEMMA FailedKeeps ==
  ASSUME SessionInv, InCall, rest' = << >>, UNCHANGED <<page, waiting, runs, last, counted, screen, answers, lost>>
  PROVE  SessionInv'
  <1>1. SessionTyped' /\ ~InCall' /\ ~InScript' /\ ~InScript
    BY DEF SessionInv, SessionTyped, InCall, InScript
  <1>2. Kept' /\ Entered'
    BY <1>1 DEF SessionInv, Kept, Entered, Fits, Generated
  <1>3. Counting'
    BY <1>1 DEF SessionInv, Counting
  <1>4. rest \notin {ToKeep, ToFile} /\ rest' \notin {ToKeep, ToFile}
    BY ScriptsDiffer DEF InCall
  <1>5. Filing'
    BY <1>4 DEF SessionInv, Filing
  <1>6. Showing'
    BY <1>1 DEF SessionInv, Showing, OffersItsOwn
  <1>7. QED
    BY <1>1, <1>2, <1>3, <1>5, <1>6 DEF SessionInv

LEMMA AnsweredKeeps ==
  ASSUME SessionInv, InCall, Len(answers) < MaxAnswers, NEW a \in AnswersTo(asking),
         answers' = Append(answers, a), rest' = StepsOf(a),
         UNCHANGED <<page, waiting, runs, last, counted, screen, lost>>
  PROVE  SessionInv'
  <1>1. /\ a \in Replies
        /\ a.kind = "revision" =>
             /\ a.base = a.of
             /\ \E i \in DOMAIN runs : runs[i].call = a.of /\ a.key \in Drafted(runs[i])
    BY AnswersFit
  <1>2. PICK len \in Nat : len = Len(answers)
    BY SessionLen
  <1>a. MaxAnswers \in Nat /\ len < MaxAnswers
    BY <1>2, ClientsAssumption
  <1>b. len + 1 \in 1..MaxAnswers /\ 0 \in 0..(len + 1) /\ 1..len \subseteq 1..(len + 1)
    BY <1>a
  <1>3. answers \in Seq(Replies) /\ DOMAIN answers = 1..len /\ lost \subseteq 1..len /\ screen.call = 0
    BY <1>2, SessionLen DEF SessionInv, SessionTyped, Showing
  <1>4. /\ answers' \in Seq(Replies) /\ Len(answers') = len + 1 /\ DOMAIN answers' = 1..(len + 1)
        /\ answers'[len + 1] = a /\ \A n \in 1..len : answers'[n] = answers[n]
    BY <1>1, <1>2, <1>3
  <1>5. Call' = len + 1 /\ Answered' = a /\ answers' # << >>
    BY <1>4 DEF Call, Answered, Last
  <1>6. SessionTyped'
    <2>1. len + 1 <= MaxAnswers /\ lost \subseteq 1..(len + 1) /\ 0 \in 0..(len + 1)
      BY <1>3, <1>b
    <2>2. QED
      BY <1>3, <1>4, <2>1 DEF SessionInv, SessionTyped
  <1>7. \A n \in 1..len : Generated(n)' = Generated(n)
    BY <1>4 DEF Generated
  <1>8. /\ ~InCall' /\ ~InScript /\ (InScript' <=> rest' # << >>) /\ rest' # ToFile
        /\ rest \notin {ToKeep, ToFile}
    <2>1. rest' = << >> \/ rest' \in {ToKeep, ToList, ToCount, ToShow}
      BY <1>1, StepsOfReply
    <2>2. QED
      BY <2>1, ScriptsDiffer DEF InCall, InScript
  <1>9. Entered'
    BY <1>8 DEF SessionInv, Entered, Fits
  <1>10. Kept'
    <2>1. Kept
      BY DEF SessionInv
    <2>2. \A i \in DOMAIN runs : runs[i].call \in 1..len
      BY <1>3, <2>1 DEF Kept
    <2>3. \A i \in DOMAIN runs :
            /\ runs[i].call \in DOMAIN answers' /\ answers'[runs[i].call].kind = "proposal"
            /\ runs[i].client = answers'[runs[i].call].client /\ runs[i].sections = Generated(runs[i].call)'
            /\ \A j \in 1..(i - 1) : runs[j].call < runs[i].call
      <3> SUFFICES ASSUME NEW i \in DOMAIN runs
                   PROVE  /\ runs[i].call \in DOMAIN answers' /\ answers'[runs[i].call].kind = "proposal"
                          /\ runs[i].client = answers'[runs[i].call].client
                          /\ runs[i].sections = Generated(runs[i].call)'
                          /\ \A j \in 1..(i - 1) : runs[j].call < runs[i].call
        OBVIOUS
      <3>1. PICK n \in 1..len : n = runs[i].call
        BY <2>2
      <3>2. /\ answers[n].kind = "proposal" /\ runs[i].client = answers[n].client
            /\ runs[i].sections = Generated(n) /\ \A j \in 1..(i - 1) : runs[j].call < n
        BY <2>1, <3>1 DEF Kept
      <3>3. Generated(n)' = Generated(n) /\ n \in DOMAIN answers' /\ answers'[n] = answers[n]
        BY <1>4, <1>7
      <3>4. QED
        BY <3>1, <3>2, <3>3 DEF Generated
    <2>4. \A n \in DOMAIN answers' : answers'[n].kind = "revision" =>
            /\ answers'[n].base = answers'[n].of
            /\ \E i \in DOMAIN runs : runs[i].call = answers'[n].of /\ answers'[n].key \in Drafted(runs[i])
      <3>1. \A n \in 1..(len + 1) : n \in 1..len \/ n = len + 1
        OBVIOUS
      <3>2. QED
        BY <1>1, <1>3, <1>4, <2>1, <3>1 DEF Kept
    <2>5. QED
      BY <2>3, <2>4 DEF Kept, Drafted, Generated
  <1>11. Counting'
    <2>1. Counting
      BY DEF SessionInv
    <2>2. ASSUME NEW n \in 1..MaxAnswers
          PROVE  /\ counted[n] <= 1
                 /\ n > len + 1 => counted[n] = 0
                 /\ n \in 1..(len + 1) /\ (n < len + 1 \/ ~InScript') /\ n \notin lost =>
                      (counted[n] > 0 <=> Counts(answers'[n]))
      <3>1. counted[n] <= 1 /\ (n > len => counted[n] = 0)
        BY <1>2, <2>1 DEF Counting
      <3>2. n \in 1..len /\ n \notin lost => (counted[n] > 0 <=> Counts(answers[n]))
        BY <1>2, <1>3, <1>8, <2>1 DEF Counting
      <3>3. n = len + 1 /\ ~InScript' => ~Counts(answers'[n])
        BY <1>1, <1>4, <1>8, StepsOfReply
      <3>4. QED
        BY <1>4, <3>1, <3>2, <3>3
    <2>3. InScript' => /\ len + 1 \notin lost /\ rest' \in LeftOf(a) /\ counted[len + 1] = 0
                       /\ (rest' \in Uncounted \/ a.kind = "search")
      <3>1. len + 1 > Len(answers)
        BY <1>2
      <3>2. counted[len + 1] = 0
        BY <1>b, <2>1, <3>1 DEF Counting
      <3>3. QED
        BY <1>1, <1>3, <1>8, <3>2, StepsOfReply
    <2>4. QED
      BY <1>4, <1>5, <2>2, <2>3 DEF Counting
  <1>12. Filing'
    <2>1. Filing /\ \A i \in DOMAIN runs : runs[i].call \in 1..len
      BY <1>3 DEF SessionInv, Kept
    <2>2. \A i \in DOMAIN runs : runs[i].call < len + 1
      BY <2>1
    <2>3. QED
      BY <1>5, <1>8, <2>1, <2>2 DEF Filing
  <1>13. Showing'
    BY <1>3 DEF Showing, OffersItsOwn
  <1>14. QED
    BY <1>6, <1>9, <1>10, <1>11, <1>12, <1>13 DEF SessionInv

LEMMA ReturnKeeps ==
  ASSUME SessionInv, Return
  PROVE  SessionInv'
  BY FailedKeeps, AnsweredKeeps DEF Return

(* How a script goes on.                                                   *)
LEMMA ScriptGoesOn ==
  ASSUME NEW a \in Replies, NEW s \in LeftOf(a)
  PROVE  /\ s # << >> /\ s # <<"call">>
         /\ Tail(s) = << >> \/ Tail(s) \in LeftOf(a)
         /\ Tail(s) = << >> => s \notin Uncounted
         /\ Head(s) = "count" => s \in Uncounted /\ Tail(s) \notin Uncounted /\ a.kind # "search" /\ Tail(s) # << >>
         /\ Head(s) # "count" => (s \in Uncounted <=> Tail(s) \in Uncounted)
         /\ Head(s) = "keep" <=> s = ToKeep
         /\ Head(s) = "latest" <=> s = ToFile
         /\ s = ToKeep => Tail(s) = ToFile
         /\ s = ToFile => Tail(s) = ToLabel
         /\ s \in {ToKeep, ToFile} \/ Head(s) = "metadata" => a.kind = "proposal"
         /\ Tail(s) # ToKeep /\ (Tail(s) = ToFile => s = ToKeep)
         /\ Head(s) = "show" => \/ s = ToShow /\ Tail(s) = << >> /\ a.kind # "market"
                                \/ s = ToList /\ a.kind = "market"
  <1>1. a.kind \in {"proposal", "revision", "market", "match", "search"}
    BY StepsOfReply
  <1>2. /\ {ToKeep, ToFile, ToLabel, ToCount, ToList, ToTally} \subseteq Uncounted
        /\ ToShow \notin Uncounted /\ ToResearch \notin Uncounted /\ << >> \notin Uncounted
    BY ScriptsDiffer DEF Uncounted
  <1>3. s # << >> /\ s # <<"call">> /\ s \in {ToKeep, ToFile, ToLabel, ToCount, ToShow, ToList, ToTally, ToResearch}
    BY <1>1, ScriptsDiffer DEF LeftOf
  <1>4. << >> \notin {ToKeep, ToFile}
    BY ScriptsDiffer
  <1>5. CASE s = ToKeep
    <2>1. a.kind = "proposal" /\ ToFile \in LeftOf(a)
      BY <1>1, <1>5, ScriptsDiffer DEF LeftOf
    <2>2. QED
      BY <1>2, <1>3, <1>4, <1>5, <2>1, Scripts, ScriptsDiffer
  <1>6. CASE s = ToFile
    <2>1. a.kind = "proposal" /\ ToLabel \in LeftOf(a)
      BY <1>1, <1>6, ScriptsDiffer DEF LeftOf
    <2>2. QED
      BY <1>2, <1>3, <1>4, <1>6, <2>1, Scripts, ScriptsDiffer
  <1>7. CASE s = ToLabel
    <2>1. a.kind = "proposal" /\ ToCount \in LeftOf(a)
      BY <1>1, <1>7, ScriptsDiffer DEF LeftOf
    <2>2. QED
      BY <1>2, <1>3, <1>4, <1>7, <2>1, Scripts, ScriptsDiffer
  <1>8. CASE s = ToCount
    <2>1. a.kind \notin {"search", "market"} /\ ToShow \in LeftOf(a)
      BY <1>1, <1>8, ScriptsDiffer DEF LeftOf
    <2>2. QED
      BY <1>2, <1>3, <1>4, <1>8, <2>1, Scripts, ScriptsDiffer
  <1>9. CASE s = ToShow
    <2>1. a.kind # "market"
      BY <1>1, <1>9, ScriptsDiffer DEF LeftOf
    <2>2. QED
      BY <1>2, <1>3, <1>4, <1>9, <2>1, Scripts, ScriptsDiffer
  <1>10. CASE s = ToList
    <2>1. a.kind = "market" /\ ToTally \in LeftOf(a)
      BY <1>1, <1>10, ScriptsDiffer DEF LeftOf
    <2>2. QED
      BY <1>2, <1>3, <1>4, <1>10, <2>1, Scripts, ScriptsDiffer
  <1>11. CASE s = ToTally
    <2>1. a.kind = "market" /\ ToResearch \in LeftOf(a)
      BY <1>1, <1>11, ScriptsDiffer DEF LeftOf
    <2>2. QED
      BY <1>2, <1>3, <1>4, <1>11, <2>1, Scripts, ScriptsDiffer
  <1>12. CASE s = ToResearch
    <2>1. a.kind = "market"
      BY <1>1, <1>12, ScriptsDiffer DEF LeftOf
    <2>2. QED
      BY <1>2, <1>3, <1>4, <1>12, <2>1, Scripts, ScriptsDiffer
  <1>13. QED
    BY <1>3, <1>5, <1>6, <1>7, <1>8, <1>9, <1>10, <1>11, <1>12

(* Where a step of a script finds the session.                              *)
LEMMA Stepping ==
  ASSUME SessionInv, Step
  PROVE  /\ Call \in 1..Len(answers) /\ Call = Len(answers) /\ Answered = answers[Call] /\ Answered \in Replies
         /\ Call \in 1..MaxAnswers /\ Call \notin lost
         /\ rest \in LeftOf(Answered) /\ rest' = Tail(rest) /\ InScript
         /\ UNCHANGED <<page, asking, waiting, answers, lost>> /\ waiting = NoClick
         /\ runs' = IF Head(rest) = "keep"
                    THEN Append(runs, [call |-> Call, client |-> Answered.client, sections |-> Generated(Call)])
                    ELSE runs
         /\ counted' = IF Head(rest) = "count" THEN [counted EXCEPT ![Call] = @ + 1] ELSE counted
         /\ screen' = IF Head(rest) = "show" THEN ShowAnswer ELSE screen
         /\ ~InCall' /\ (InScript' <=> rest' # << >>)
  <1>1. InScript
    BY DEF Step, InScript
  <1>2. answers # << >> /\ rest \in LeftOf(Answered) /\ Call \notin lost
    BY <1>1 DEF SessionInv, Counting
  <1>3. answers \in Seq(Replies) /\ Len(answers) <= MaxAnswers /\ MaxAnswers \in Nat
    BY ClientsAssumption DEF SessionInv, SessionTyped
  <1>4. /\ Len(answers) \in 1..Len(answers) /\ Len(answers) \in 1..MaxAnswers
        /\ answers[Len(answers)] \in Replies
    BY <1>2, <1>3
  <1>5. Call = Len(answers) /\ Answered = answers[Call]
    BY DEF Call, Answered, Last
  <1>6. rest' = Tail(rest) /\ (rest' = << >> \/ rest' \in LeftOf(Answered))
    BY <1>2, <1>4, <1>5, ScriptGoesOn DEF Step
  <1>7. ~InCall' /\ (InScript' <=> rest' # << >>)
    <2>1. rest' \in LeftOf(Answered) => rest' # <<"call">>
      BY <1>4, <1>5, ScriptGoesOn
    <2>2. << >> # <<"call">>
      OBVIOUS
    <2>3. rest' # <<"call">>
      BY <1>6, <2>1, <2>2
    <2>4. QED
      BY <2>3 DEF InCall, InScript
  <1>8. QED
    BY <1>1, <1>2, <1>4, <1>5, <1>6, <1>7 DEF Step, AccumulateSessionUsage

(* What is shown belongs to the call.                                       *)
LEMMA ShownCall ==
  ASSUME Answered \in Replies
  PROVE  ShowAnswer.call = Call
  <1>1. Answered.kind \in {"proposal", "revision", "market", "match", "search"}
    BY StepsOfReply
  <1>2. ShowProposal.call = Call
    BY DEF ShowProposal
  <1>3. ShowRevision.call = Call
    BY DEF ShowRevision
  <1>4. ShowMatch.call = Call /\ ShowMarket.call = Call /\ ShowSearch.call = Call
    BY DEF ShowMatch, ShowMarket, ShowSearch
  <1>5. QED
    BY <1>1, <1>2, <1>3, <1>4 DEF ShowAnswer

LEMMA RepliesTyped ==
  ASSUME NEW a \in Replies
  PROVE  a.kind = "proposal" => a.client \in Clients
  BY DEF Replies, RunMarketResearch, RunDocumentMatch, RetrievalSearch

LEMMA GeneratedTyped == \A n \in Nat : Generated(n) \in [Keys -> Nat]
  BY DEF Generated

LEMMA StepTyped ==
  ASSUME SessionInv, Step
  PROVE  SessionTyped' /\ Entered'
  <1>1. SessionTyped /\ UNCHANGED <<page, answers, lost>>
    BY Stepping DEF SessionInv
  <1>2. Len(answers) \in Nat /\ Call \in Nat /\ Call \in 0..Len(answers)
    BY Stepping, SessionLen
  <1>3. Head(rest) \in {"keep", "metadata"} => Answered.client \in Clients
    BY Stepping, ScriptGoesOn, RepliesTyped
  <1>4. runs' \in Seq([call : Nat, client : Clients, sections : [Keys -> Nat]])
    <2> DEFINE R == [call : Nat, client : Clients, sections : [Keys -> Nat]]
               run == [call |-> Call, client |-> Answered.client, sections |-> Generated(Call)]
    <2>1. runs \in Seq(R)
      BY <1>1 DEF SessionTyped
    <2>2. Head(rest) = "keep" => run \in R
      BY <1>2, <1>3, GeneratedTyped
    <2>3. runs' = IF Head(rest) = "keep" THEN Append(runs, run) ELSE runs
      BY Stepping
    <2> HIDE DEF R, run
    <2>4. runs' \in Seq(R)
      BY <2>1, <2>2, <2>3
    <2>5. QED
      BY <2>4 DEF R
  <1>5. last' \in [result : Nat, client : Clients \cup {""}, research : Nat]
    <2>1. last' = CASE Head(rest) = "latest"   -> [last EXCEPT !.result = Call]
                    [] Head(rest) = "metadata" -> [last EXCEPT !.client = Answered.client]
                    [] Head(rest) = "research" -> [last EXCEPT !.research = Call]
                    [] OTHER -> last
      BY DEF Step
    <2>2. last \in [result : Nat, client : Clients \cup {""}, research : Nat]
      BY <1>1 DEF SessionTyped
    <2>3. CASE Head(rest) = "latest"
      BY <1>2, <2>1, <2>2, <2>3
    <2>4. CASE Head(rest) = "metadata"
      BY <1>3, <2>1, <2>2, <2>4
    <2>5. CASE Head(rest) = "research"
      BY <1>2, <2>1, <2>2, <2>5
    <2>6. CASE Head(rest) \notin {"latest", "metadata", "research"}
      BY <2>1, <2>2, <2>6
    <2>7. QED
      BY <2>3, <2>4, <2>5, <2>6
  <1>6. counted' \in [1..MaxAnswers -> Nat]
    <2>1. counted \in [1..MaxAnswers -> Nat] /\ Call \in 1..MaxAnswers
      BY <1>1, Stepping DEF SessionTyped
    <2>2. counted[Call] + 1 \in Nat
      BY <2>1
    <2>3. counted' = IF Head(rest) = "count" THEN [counted EXCEPT ![Call] = counted[Call] + 1] ELSE counted
      BY Stepping
    <2>4. QED
      BY <2>1, <2>2, <2>3
  <1>7. screen'.call \in 0..Len(answers)
    <2>1. ShowAnswer.call = Call
      BY Stepping, ShownCall
    <2>2. screen.call \in 0..Len(answers)
      BY <1>1 DEF SessionTyped
    <2>3. QED
      BY <1>2, <2>1, <2>2, Stepping
  <1>8. SessionTyped'
    BY <1>1, <1>4, <1>5, <1>6, <1>7 DEF SessionTyped
  <1>9. Entered'
    <2>1. NoClick.do = "nothing"
      BY DEF NoClick
    <2>2. QED
      BY <2>1, Stepping DEF Entered
  <1>10. QED
    BY <1>8, <1>9

LEMMA StepKept ==
  ASSUME SessionInv, Step
  PROVE  Kept'
  <1>1. Kept /\ answers' = answers /\ \A n : Generated(n)' = Generated(n)
    BY Stepping DEF SessionInv, Generated
  <1>2. CASE Head(rest) # "keep"
    <2>1. runs' = runs
      BY <1>2, Stepping
    <2>2. QED
      BY <1>1, <2>1 DEF Kept, Generated, Drafted
  <1>3. CASE Head(rest) = "keep"
    <2>1. PICK len \in Nat : len = Len(runs)
      BY SessionLen
    <2>2. PICK run : run = [call |-> Call, client |-> Answered.client, sections |-> Generated(Call)]
      OBVIOUS
    <2>3. /\ run.call = Call /\ run.client = answers[Call].client /\ run.sections = Generated(Call)
          /\ answers[Call].kind = "proposal" /\ Call \in DOMAIN answers
      BY <1>3, <2>2, Stepping, ScriptGoesOn, SessionLen
    <2>4. rest = ToKeep
      BY <1>3, Stepping, ScriptGoesOn
    <2>5. runs \in Seq([call : Nat, client : Clients, sections : [Keys -> Nat]]) /\ DOMAIN runs = 1..len
          /\ \A i \in DOMAIN runs : runs[i].call < Call
      BY <2>1, <2>4, SessionLen DEF SessionInv, SessionTyped, Filing
    <2>6. runs' = Append(runs, run)
      BY <1>3, <2>2, Stepping
    <2>7. DOMAIN runs' = 1..(len + 1) /\ runs'[len + 1] = run /\ \A i \in 1..len : runs'[i] = runs[i]
      <3> DEFINE R == [call : Nat, client : Clients, sections : [Keys -> Nat]]
      <3>1. runs \in Seq(R)
        BY <2>5
      <3> HIDE DEF R
      <3>2. QED
        BY <2>1, <2>6, <3>1
    <2>8. \A i \in 1..(len + 1) : i \in 1..len \/ i = len + 1
      OBVIOUS
    <2>9. ASSUME NEW i \in DOMAIN runs'
          PROVE  /\ runs'[i].call \in DOMAIN answers /\ answers[runs'[i].call].kind = "proposal"
                 /\ runs'[i].client = answers[runs'[i].call].client
                 /\ runs'[i].sections = Generated(runs'[i].call)
                 /\ \A j \in 1..(i - 1) : runs'[j].call < runs'[i].call
      <3>1. CASE i = len + 1
        <4>1. \A j \in 1..(i - 1) : j \in 1..len
          BY <3>1
        <4>2. QED
          BY <2>3, <2>5, <2>7, <3>1, <4>1
      <3>2. CASE i \in 1..len
        <4>1. \A j \in 1..(i - 1) : j \in 1..len
          BY <3>2
        <4>2. QED
          BY <1>1, <2>5, <2>7, <3>2, <4>1 DEF Kept
      <3>3. QED
        BY <2>7, <2>8, <3>1, <3>2
    <2>10. \A i \in DOMAIN runs : i \in DOMAIN runs' /\ runs'[i] = runs[i]
      BY <2>5, <2>7
    <2>11. \A n \in DOMAIN answers : answers[n].kind = "revision" =>
             /\ answers[n].base = answers[n].of
             /\ \E i \in DOMAIN runs' : runs'[i].call = answers[n].of /\ answers[n].key \in Drafted(runs'[i])
      BY <1>1, <2>10 DEF Kept
    <2>12. QED
      BY <1>1, <2>9, <2>11 DEF Kept, Generated, Drafted
  <1>4. QED
    BY <1>2, <1>3

LEMMA StepCounting ==
  ASSUME SessionInv, Step
  PROVE  Counting'
  <1>1. Counting /\ counted \in [1..MaxAnswers -> Nat]
    BY DEF SessionInv, SessionTyped
  <1>2. PICK len \in Nat : len = Len(answers)
    BY SessionLen
  <1>3. /\ Call = len /\ len \in 1..MaxAnswers /\ len \notin lost /\ Answered = answers[len] /\ Answered \in Replies
        /\ rest \in LeftOf(Answered) /\ rest' = Tail(rest) /\ InScript /\ DOMAIN answers = 1..len
        /\ answers' = answers /\ lost' = lost /\ (InScript' <=> rest' # << >>)
    BY <1>2, Stepping, SessionLen
  <1>4. counted[len] = IF rest \in Uncounted \/ Answered.kind = "search" THEN 0 ELSE 1
    BY <1>1, <1>3 DEF Counting
  <1>5. counted' = IF Head(rest) = "count" THEN [counted EXCEPT ![len] = @ + 1] ELSE counted
    BY <1>3, Stepping
  <1>6. /\ \A n \in 1..MaxAnswers : n # len => counted'[n] = counted[n]
        /\ counted'[len] = IF Head(rest) = "count" THEN counted[len] + 1 ELSE counted[len]
    BY <1>1, <1>3, <1>5
  <1>7. counted'[len] = IF rest' \in Uncounted \/ Answered.kind = "search" THEN 0 ELSE 1
    BY <1>3, <1>4, <1>6, ScriptGoesOn
  <1>8. rest' = << >> => (counted'[len] > 0 <=> Counts(Answered))
    <2>1. << >> \notin Uncounted
      BY ScriptsDiffer DEF Uncounted
    <2>2. StepsOf(Answered) # << >>
      <3>1. Answered.kind \in {"proposal", "match", "revision", "search"} => StepsOf(Answered) # << >>
        BY DEF StepsOf
      <3>2. Answered.kind = "market" => StepsOf(Answered) # << >>
        BY <1>3 DEF LeftOf, StepsOf
      <3>3. QED
        BY <1>3, <3>1, <3>2, StepsOfReply
    <2>3. Counts(Answered) <=> Answered.kind # "search"
      BY <1>3, <2>2, StepsOfReply
    <2>4. rest' = << >> => counted'[len] = IF Answered.kind = "search" THEN 0 ELSE 1
      BY <1>7, <2>1
    <2>5. QED
      BY <2>3, <2>4
  <1>9. rest' # << >> => rest' \in LeftOf(Answered)
    BY <1>3, ScriptGoesOn
  <1>10. ASSUME NEW n \in 1..MaxAnswers
         PROVE  /\ counted'[n] <= 1
                /\ n > len => counted'[n] = 0
                /\ n \in 1..len /\ (n < len \/ ~InScript') /\ n \notin lost =>
                     (counted'[n] > 0 <=> Counts(answers[n]))
    <2>1. CASE n = len
      BY <1>3, <1>7, <1>8, <2>1
    <2>2. CASE n # len
      <3>1. /\ counted[n] <= 1 /\ (n > len => counted[n] = 0)
            /\ n \in 1..len /\ n < len /\ n \notin lost => (counted[n] > 0 <=> Counts(answers[n]))
        BY <1>1, <1>2, <1>3 DEF Counting
      <3>2. QED
        BY <1>6, <2>2, <3>1
    <2>3. QED
      BY <2>1, <2>2
  <1>11. Call' = len /\ Answered' = Answered /\ answers # << >>
    BY <1>1, <1>2, <1>3 DEF Call, Answered, Counting
  <1>12. QED
    BY <1>2, <1>3, <1>7, <1>9, <1>10, <1>11 DEF Counting

LEMMA StepFiling ==
  ASSUME SessionInv, Step
  PROVE  Filing'
  <1>1. Filing /\ last \in [result : Nat, client : Clients \cup {""}, research : Nat]
    BY DEF SessionInv, SessionTyped
  <1>2. /\ Answered \in Replies /\ rest \in LeftOf(Answered) /\ rest' = Tail(rest) /\ lost' = lost
        /\ Call' = Call /\ Call = Len(answers) /\ Call \in Nat
    BY Stepping, SessionLen DEF Call
  <1>3. rest' # ToKeep /\ (rest' = ToFile => rest = ToKeep) /\ (rest = ToKeep => rest' = ToFile)
        /\ (Head(rest) = "keep" <=> rest = ToKeep) /\ (Head(rest) = "latest" <=> rest = ToFile)
    BY <1>2, ScriptGoesOn
  <1>4. \A i \in DOMAIN runs : runs[i].call \in Nat /\ runs[i].call <= Call
    BY <1>2, SessionLen DEF SessionInv, Kept
  <1>5. CASE rest = ToKeep
    <2>1. PICK run : run = [call |-> Call, client |-> Answered.client, sections |-> Generated(Call)]
      OBVIOUS
    <2>2. runs' = Append(runs, run) /\ run.call = Call
      BY <1>3, <1>5, <2>1, Stepping
    <2>3. PICK len \in Nat : len = Len(runs) /\ DOMAIN runs = 1..len
      BY SessionLen
    <2>4. DOMAIN runs' = 1..(len + 1) /\ runs'[len + 1] = run /\ \A i \in 1..len : runs'[i] = runs[i]
      <3> DEFINE R == [call : Nat, client : Clients, sections : [Keys -> Nat]]
      <3>1. runs \in Seq(R)
        BY DEF SessionInv, SessionTyped
      <3> HIDE DEF R
      <3>2. QED
        BY <2>2, <2>3, <3>1
    <2>5. \A i \in 1..(len + 1) : i \in 1..len \/ i = len + 1
      OBVIOUS
    <2>6. last' = last /\ rest' = ToFile /\ rest # ToFile
      <3>1. Head(rest) = "keep"
        BY <1>3, <1>5
      <3>2. QED
        BY <1>3, <1>5, <3>1, ScriptsDiffer DEF Step
    <2>7. last.result = 0 \/ \E i \in DOMAIN runs' : runs'[i].call = last.result
      <3>1. \A i \in DOMAIN runs : i \in DOMAIN runs' /\ runs'[i] = runs[i]
        BY <2>3, <2>4
      <3>2. QED
        BY <1>1, <3>1 DEF Filing
    <2>8. \A i \in DOMAIN runs' : runs'[i].call > last.result => runs'[i].call \in lost \/ runs'[i].call = Call
      BY <1>1, <2>2, <2>3, <2>4, <2>5, <2>6 DEF Filing
    <2>9. \E i \in DOMAIN runs' : runs'[i].call = Call
      BY <2>2, <2>4
    <2>10. QED
      BY <1>2, <1>3, <2>6, <2>7, <2>8, <2>9 DEF Filing
  <1>6. CASE rest = ToFile
    <2>1. Head(rest) = "latest" /\ rest' # ToFile
      BY <1>3, <1>6, ScriptsDiffer
    <2>2. runs' = runs /\ last'.result = Call
      BY <1>1, <2>1, Stepping DEF Step
    <2>3. \E i \in DOMAIN runs : runs[i].call = Call
      BY <1>1, <1>6 DEF Filing
    <2>4. QED
      BY <1>2, <1>3, <1>4, <2>1, <2>2, <2>3 DEF Filing
  <1>7. CASE rest \notin {ToKeep, ToFile}
    <2>1. Head(rest) \notin {"keep", "latest"} /\ rest' # ToFile
      BY <1>3, <1>7
    <2>2. runs' = runs
      BY <2>1, Stepping
    <2>3. last'.result = last.result
      <3>1. CASE Head(rest) = "metadata"
        BY <1>1, <3>1 DEF Step
      <3>2. CASE Head(rest) = "research"
        BY <1>1, <3>2 DEF Step
      <3>3. CASE Head(rest) \notin {"metadata", "research"}
        BY <2>1, <3>3 DEF Step
      <3>4. QED
        BY <3>1, <3>2, <3>3
    <2>4. QED
      BY <1>1, <1>2, <1>3, <1>7, <2>1, <2>2, <2>3 DEF Filing
  <1>8. QED
    BY <1>5, <1>6, <1>7

(* The texts of a PDF are those of the sections that did not fail.          *)
LEMMA PdfOfRun ==
  ASSUME NEW n \in Nat \ {0}, NEW client
  PROVE  Pdf(client, Generated(n)) = [client |-> client, sections |-> {<<k, n>> : k \in Keys \ answers[n].failed}]
  <1>1. \A k \in Keys : Generated(n)[k] = IF k \in answers[n].failed THEN 0 ELSE n
    BY DEF Generated
  <1>2. {<<k, Generated(n)[k]>> : k \in {j \in Keys : Generated(n)[j] # 0}} = {<<k, n>> : k \in Keys \ answers[n].failed}
    BY <1>1
  <1>3. QED
    BY <1>2 DEF Pdf

LEMMA PdfOfRevision ==
  ASSUME NEW n \in Nat \ {0}, NEW m \in Nat \ {0}, NEW key \in Keys, key \notin answers[n].failed, NEW client
  PROVE  Pdf(client, [Generated(n) EXCEPT ![key] = m]) =
           [client |-> client,
            sections |-> ({<<k, n>> : k \in Keys \ answers[n].failed} \ {<<key, n>>}) \cup {<<key, m>>}]
  <1> DEFINE texts == [Generated(n) EXCEPT ![key] = m]
  <1>1. \A k \in Keys : texts[k] = IF k = key THEN m ELSE IF k \in answers[n].failed THEN 0 ELSE n
    BY DEF Generated
  <1> HIDE DEF texts
  <1>2. {<<k, texts[k]>> : k \in {j \in Keys : texts[j] # 0}} =
          ({<<k, n>> : k \in Keys \ answers[n].failed} \ {<<key, n>>}) \cup {<<key, m>>}
    BY <1>1
  <1>3. Pdf(client, texts) = [client |-> client, sections |-> {<<k, texts[k]>> : k \in {j \in Keys : texts[j] # 0}}]
    BY DEF Pdf
  <1>4. QED
    BY <1>2, <1>3 DEF texts

(* What is shown of a revision.                                            *)
LEMMA RevisionShown ==
  ASSUME SessionInv, Step, Answered.kind = "revision"
  PROVE  \E n \in 1..Len(answers) :
           /\ n = Answered.of /\ ShowRevision.compared = <<n, Call>>
           /\ ShowRevision.pdf.client = answers[n].client
           /\ ShowRevision.pdf.sections =
                ({<<k, n>> : k \in Keys \ answers[n].failed} \ {<<Answered.key, n>>}) \cup {<<Answered.key, Call>>}
  <1>1. Kept /\ Answered = answers[Call] /\ Call \in DOMAIN answers /\ Call \in Nat \ {0}
    BY Stepping, SessionLen DEF SessionInv
  <1>2. PICK n, key : n = Answered.of /\ key = Answered.key
    OBVIOUS
  <1>3. PICK i \in DOMAIN runs : runs[i].call = n /\ key \in Drafted(runs[i])
    BY <1>1, <1>2 DEF Kept
  <1>4. \E run \in ToSet(runs) : run.call = n
    BY <1>3 DEF ToSet
  <1>5. PICK run : run = RunOf(n)
    OBVIOUS
  <1>6. run \in ToSet(runs) /\ run.call = n
    BY <1>4, <1>5 DEF RunOf
  <1>7. PICK j \in DOMAIN runs : run = runs[j]
    BY <1>6 DEF ToSet
  <1>8. run.client = answers[n].client /\ run.sections = Generated(n) /\ n \in 1..Len(answers)
    BY <1>1, <1>6, <1>7, SessionLen DEF Kept
  <1>9. key \in Keys /\ Generated(n)[key] # 0 /\ key \notin answers[n].failed
    <2>1. runs[i].sections = Generated(n)
      BY <1>1, <1>3 DEF Kept
    <2>2. QED
      BY <1>3, <2>1 DEF Drafted, Generated
  <1>10. run.client \in Clients /\ run.client # ""
    BY <1>7, RunTyped, ClientsAssumption
  <1>11. PdfMetadata(run) = answers[n].client
    BY <1>8, <1>10 DEF PdfMetadata
  <1>12. n \in Nat \ {0}
    BY <1>8, SessionLen
  <1>13. Generated(n)[key] = n
    BY <1>9 DEF Generated
  <1>14. ShowRevision = [call |-> Call, compared |-> <<Generated(n)[key], Call>>,
                         pdf |-> Pdf(answers[n].client, [Generated(n) EXCEPT ![key] = Call])]
    BY <1>2, <1>5, <1>8, <1>11 DEF ShowRevision
  <1>15. PICK pdf : pdf = Pdf(answers[n].client, [Generated(n) EXCEPT ![key] = Call])
    OBVIOUS
  <1>16. pdf = [client |-> answers[n].client,
                sections |-> ({<<k, n>> : k \in Keys \ answers[n].failed} \ {<<key, n>>}) \cup {<<key, Call>>}]
    BY <1>1, <1>9, <1>12, <1>15, PdfOfRevision
  <1>17. ShowRevision = [call |-> Call, compared |-> <<n, Call>>, pdf |-> pdf]
    BY <1>13, <1>14, <1>15
  <1>18. QED
    BY <1>2, <1>8, <1>16, <1>17

LEMMA StepShowing ==
  ASSUME SessionInv, Step
  PROVE  Showing'
  <1>1. /\ Showing /\ Call \in 1..Len(answers) /\ Answered = answers[Call] /\ Answered \in Replies
        /\ rest \in LeftOf(Answered) /\ rest' = Tail(rest) /\ InScript /\ answers' = answers
        /\ Call \in 1..MaxAnswers /\ Call = Len(answers) /\ counted \in [1..MaxAnswers -> Nat]
    BY Stepping DEF SessionInv, SessionTyped
  <1>2. ~InCall' /\ (InScript' <=> rest' # << >>) /\ Answered' = Answered /\ Call' = Call
    BY <1>1, Stepping DEF Answered, Call
  <1>3. screen.call = 0 \/ (Answered.kind = "market" /\ screen.call = Call)
    BY <1>1 DEF Showing
  <1>4. ShowAnswer.call = Call
    BY <1>1, ShownCall
  <1>5. \A n \in Nat : Generated(n)' = Generated(n)
    BY <1>1 DEF Generated
  <1>6. CASE Head(rest) # "show"
    <2>1. screen' = screen
      BY <1>6, Stepping
    <2>2. OffersItsOwn'
      BY <1>1, <1>3, <2>1 DEF OffersItsOwn
    <2>3. QED
      BY <1>1, <1>2, <1>3, <2>1, <2>2 DEF Showing
  <1>7. CASE Head(rest) = "show"
    <2>1. /\ screen' = ShowAnswer /\ counted' = counted
          /\ \/ rest = ToShow /\ rest' = << >> /\ Answered.kind # "market"
             \/ rest = ToList /\ Answered.kind = "market"
      BY <1>1, <1>7, Stepping, ScriptGoesOn
    <2>2. InScript' => Answered.kind = "market"
      BY <1>2, <2>1
    <2>3. Answered.kind \in {"proposal", "revision"} => counted[Call] = 1
      <3>1. rest = ToShow => rest \notin Uncounted
        BY ScriptsDiffer DEF Uncounted
      <3>2. counted[Call] = IF rest \in Uncounted \/ Answered.kind = "search" THEN 0 ELSE 1
        BY <1>1 DEF SessionInv, Counting
      <3>3. QED
        BY <2>1, <3>1, <3>2
    <2>4. CASE Answered.kind = "proposal"
      <3>1. screen' = ShowProposal
        BY <2>1, <2>4 DEF ShowAnswer
      <3>2. PICK pdf : pdf = Pdf(Answered.client, Generated(Call))
        OBVIOUS
      <3>a. PICK n \in Nat \ {0} : n = Call
        BY <1>1, SessionLen
      <3>b. PICK client : client = Answered.client
        OBVIOUS
      <3>3. pdf = [client |-> Answered.client, sections |-> {<<k, Call>> : k \in Keys \ answers[Call].failed}]
        BY <3>2, <3>a, <3>b, PdfOfRun
      <3>4. screen'.call = Call /\ screen'.pdf = pdf
        BY <3>1, <3>2 DEF ShowProposal
      <3>5. OffersItsOwn'
        BY <1>1, <2>1, <2>3, <2>4, <3>3, <3>4 DEF OffersItsOwn
      <3>6. QED
        BY <1>2, <2>2, <2>4, <3>5 DEF Showing
    <2>5. CASE Answered.kind = "revision"
      <3>1. screen' = ShowRevision
        BY <2>1, <2>5 DEF ShowAnswer
      <3>2. screen'.call = Call
        BY <1>4, <2>1
      <3>a. PICK n \in 1..Len(answers) :
              /\ n = Answered.of /\ ShowRevision.compared = <<n, Call>>
              /\ ShowRevision.pdf.client = answers[n].client
              /\ ShowRevision.pdf.sections =
                   ({<<k, n>> : k \in Keys \ answers[n].failed} \ {<<Answered.key, n>>}) \cup {<<Answered.key, Call>>}
        BY <2>5, RevisionShown
      <3>b. counted'[Call] = 1 /\ answers'[Call].of = n /\ answers'[Call].kind = "revision"
            /\ answers'[Call].key = Answered.key
        BY <1>1, <2>1, <2>3, <2>5, <3>a
      <3>3. OffersItsOwn'
        BY <1>1, <3>1, <3>2, <3>a, <3>b DEF OffersItsOwn
      <3>4. QED
        BY <1>2, <2>2, <2>5, <3>3 DEF Showing
    <2>6. CASE Answered.kind \notin {"proposal", "revision"}
      <3>1. OffersItsOwn'
        BY <1>1, <1>4, <2>1, <2>6 DEF OffersItsOwn
      <3>2. QED
        BY <1>2, <1>4, <2>1, <2>2, <3>1 DEF Showing
    <2>7. QED
      BY <2>4, <2>5, <2>6
  <1>8. QED
    BY <1>6, <1>7

LEMMA SessionStepKeeps == SessionInv /\ [SessionNext]_sessionVars => SessionInv'
  <1> SUFFICES ASSUME SessionInv, [SessionNext]_sessionVars
               PROVE  SessionInv'
    OBVIOUS
  <1>1. CASE Step
    BY <1>1, StepTyped, StepKept, StepCounting, StepFiling, StepShowing DEF SessionInv
  <1>2. CASE UNCHANGED sessionVars
    <2>1. UNCHANGED <<page, asking, rest, waiting, runs, last, counted, screen, answers, lost>>
      BY <1>2 DEF sessionVars
    <2>2. SessionTyped' /\ Entered'
      BY <2>1 DEF SessionInv, SessionTyped, Entered, Fits, Drafted, InCall
    <2>3. Kept' /\ Filing'
      BY <2>1 DEF SessionInv, Kept, Filing, Generated, Drafted, Call
    <2>4. Counting' /\ Showing'
      BY <2>1 DEF SessionInv, Counting, Showing, OffersItsOwn, InScript, InCall, Call, Answered
    <2>5. QED
      BY <2>2, <2>3, <2>4 DEF SessionInv
  <1>3. QED
    BY <1>1, <1>2, ClickKeeps, CutKeeps, ReturnKeeps DEF SessionNext

LEMMA InitSession == SessionInit => SessionInv
  <1> SUFFICES ASSUME SessionInit
               PROVE  SessionInv
    OBVIOUS
  <1>1. /\ page = "home" /\ rest = << >> /\ waiting = NoClick /\ runs = << >>
        /\ last = [result |-> 0, client |-> "", research |-> 0]
        /\ counted = [n \in 1..MaxAnswers |-> 0] /\ screen = Nothing /\ answers = << >> /\ lost = {}
    BY DEF SessionInit
  <1>2. NoClick.do = "nothing" /\ Nothing.call = 0
    BY DEF NoClick, Nothing
  <1>3. answers \in Seq(Replies) /\ Len(answers) = 0 /\ DOMAIN answers = {} /\ DOMAIN runs = {}
        /\ runs \in Seq([call : Nat, client : Clients, sections : [Keys -> Nat]])
    <2> DEFINE R == [call : Nat, client : Clients, sections : [Keys -> Nat]]
    <2> HIDE DEF R
    <2>1. << >> \in Seq(Replies) /\ << >> \in Seq(R) /\ Len(<< >>) = 0 /\ DOMAIN << >> = {}
      OBVIOUS
    <2>2. QED
      BY <1>1, <2>1 DEF R
  <1>4. SessionTyped
    <2>a. Len(answers) = 0 /\ screen.call = 0 /\ lost = {} /\ page \in Pages
      BY <1>1, <1>2, <1>3 DEF Pages
    <2>b. MaxAnswers \in Nat /\ counted = [n \in 1..MaxAnswers |-> 0]
      BY <1>1, ClientsAssumption
    <2>1. screen.call \in 0..Len(answers) /\ lost \subseteq 1..Len(answers) /\ page \in Pages
      BY <2>a
    <2>2. Len(answers) <= MaxAnswers /\ counted \in [1..MaxAnswers -> Nat]
      BY <2>a, <2>b
    <2>3. last \in [result : Nat, client : Clients \cup {""}, research : Nat]
      BY <1>1
    <2>4. QED
      BY <1>3, <2>1, <2>2, <2>3 DEF SessionTyped
  <1>5. ~InCall /\ ~InScript
    BY <1>1 DEF InCall, InScript
  <1>6. Entered /\ Kept /\ Showing
    BY <1>1, <1>2, <1>3, <1>5 DEF Entered, Kept, Showing, OffersItsOwn
  <1>7. Counting
    <2>1. \A n \in 1..MaxAnswers : counted[n] = 0 /\ n \notin DOMAIN answers
      BY <1>1, <1>3
    <2>2. QED
      BY <1>5, <2>1 DEF Counting
  <1>8. Filing
    BY <1>1, <1>3, ScriptsDiffer DEF Filing
  <1>9. QED
    BY <1>4, <1>6, <1>7, <1>8 DEF SessionInv

(* What the dashboard lists has been kept.                                  *)
LEMMA RecentKept ==
  ASSUME SessionInv
  PROVE  ToSet(Recent) \subseteq ToSet(runs)
  <1>1. PICK len \in Nat : len = Len(runs) /\ DOMAIN runs = 1..len
    BY SessionLen
  <1>2. PICK from \in 1..(len + 1) : from = IF len > 5 THEN len - 4 ELSE 1
    OBVIOUS
  <1>3. PICK size \in Nat : size = len - from + 1
    BY <1>2
  <1>4. PICK part : part = SubSeq(runs, from, len)
    OBVIOUS
  <1>5. Len(part) = size /\ \A i \in 1..size : part[i] = runs[from + i - 1]
    <2> DEFINE R == [call : Nat, client : Clients, sections : [Keys -> Nat]]
    <2>1. runs \in Seq(R)
      BY DEF SessionInv, SessionTyped
    <2> HIDE DEF R
    <2>2. from \in 1..(Len(runs) + 1) /\ len \in (from - 1)..Len(runs)
      BY <1>1, <1>2
    <2>3. /\ Len(SubSeq(runs, from, len)) = IF from <= len THEN len - from + 1 ELSE 0
          /\ \A i \in 1..(len - from + 1) : SubSeq(runs, from, len)[i] = runs[from + i - 1]
      BY <2>1, <2>2, SubSeqProperties
    <2>4. Len(part) = size
      BY <1>2, <1>3, <1>4, <2>3
    <2>5. QED
      BY <1>3, <1>4, <2>3, <2>4
  <1>6. Recent = [i \in 1..size |-> part[size - i + 1]]
    BY <1>1, <1>2, <1>4, <1>5 DEF Recent, Reverse
  <1>7. \A i \in 1..size : size - i + 1 \in 1..size /\ from + (size - i + 1) - 1 \in 1..len
    BY <1>2, <1>3
  <1>8. \A i \in 1..size : Recent[i] = runs[from + (size - i + 1) - 1]
    BY <1>5, <1>6, <1>7
  <1>9. DOMAIN Recent = 1..size
    BY <1>6
  <1>10. QED
    BY <1>1, <1>7, <1>8, <1>9 DEF ToSet

LEMMA SessionInvSound == SessionInv => SessionSound
  <1> SUFFICES ASSUME SessionInv
               PROVE  SessionSound
    OBVIOUS
  <1>1. RunsAsAnswered
    BY DEF SessionInv, Kept, RunsAsAnswered
  <1>2. LatestExplained
    <2> SUFFICES ASSUME rest = << >>
                 PROVE  /\ last.result = 0 \/ \E run \in ToSet(runs) : run.call = last.result
                        /\ \A run \in ToSet(Recent) : run.call > last.result => run.call \in lost
      BY DEF LatestExplained, Dashboard
    <2>1. Filing /\ rest # ToFile
      BY ScriptsDiffer DEF SessionInv
    <2>2. last.result = 0 \/ \E run \in ToSet(runs) : run.call = last.result
      BY <2>1 DEF Filing, ToSet
    <2>3. \A run \in ToSet(runs) : run.call > last.result => run.call \in lost
      BY <2>1 DEF Filing, ToSet
    <2>4. QED
      BY <2>2, <2>3, RecentKept
  <1>3. CountedOnce
    <2>1. Counting /\ counted \in [1..MaxAnswers -> Nat] /\ Len(answers) <= MaxAnswers /\ MaxAnswers \in Nat
      BY ClientsAssumption DEF SessionInv, SessionTyped
    <2>2. \A n \in DOMAIN answers : n \in 1..MaxAnswers
      BY <2>1, SessionLen
    <2>3. \A n \in DOMAIN answers : n \in Dashboard.tokens <=> counted[n] > 0
      BY <2>1, <2>2 DEF Dashboard
    <2>4. QED
      BY <2>1, <2>2, <2>3 DEF CountedOnce, Counting, Counts, InScript
  <1>4. OffersItsOwn
    BY DEF SessionInv, Showing
  <1>5. QED
    BY <1>1, <1>2, <1>3, <1>4 DEF SessionSound

-----------------------------------------------------------------------------
(* A step of the whole is a step of each part, or leaves it alone.          *)
LEMMA StepsOfParts ==
  [AccountsNext]_<<vars, solutionVars, sessionVars, formVars>> =>
    [Next]_vars /\ [SolutionsNext]_solutionVars /\ [SessionNext]_sessionVars /\ [FormNext]_formVars
  BY DEF AccountsNext, SignInStep, LibraryStep, SessionStep, FormStep

(* An emailed code stays usable, however sign-up, sign-in and reset          *)
(* requests for the address interleave, unless another request that ran at *)
(* the same time has replaced it (_send_new_code, verify, reset_password).  *)
THEOREM CodesStayUsable == AccountsSpec => []CodeStaysUsable
  <1>1. AccountsInit => CodesInv
    BY InitCodes DEF AccountsInit
  <1>2. CodesInv /\ [AccountsNext]_<<vars, solutionVars, sessionVars, formVars>> => CodesInv'
    BY StepsOfParts, CodesStepKeeps
  <1>3. CodesInv => CodeStaysUsable
    BY CodesInvUsable
  <1>4. QED
    BY <1>1, <1>2, <1>3, PTL DEF AccountsSpec

(* A code of the app or on paper is accepted once, and what two-step        *)
(* sign-in asks for is the secret that was confirmed, but for requests that *)
(* ran at the same time (mfa_verify, mfa_setup, mfa_enable, mfa_disable).   *)
THEOREM SecondFactorsSound == AccountsSpec => []SecondFactorSound
  <1>1. AccountsInit => MfaInv
    BY InitMfa DEF AccountsInit
  <1>2. MfaInv /\ [AccountsNext]_<<vars, solutionVars, sessionVars, formVars>> => MfaInv'
    BY StepsOfParts, MfaStepKeeps
  <1>3. MfaInv => SecondFactorSound
    BY DEF MfaInv, SecondFactorSound
  <1>4. QED
    BY <1>1, <1>2, <1>3, PTL DEF AccountsSpec

(* What somebody wrote is never in another's solution, and the answer to a  *)
(* create or an update says what was asked, but for fields that another     *)
(* request wrote while it was handled, whatever happens to roles and rows  *)
(* meanwhile (services/solution_store.py:3-4, api/routers/solutions.py).   *)
THEOREM LibraryOfSolutionsSound == AccountsSpec => []SolutionsSound
  <1>1. AccountsInit => SolutionsInv
    BY InitSolutions DEF AccountsInit
  <1>2. SolutionsInv /\ [AccountsNext]_<<vars, solutionVars, sessionVars, formVars>> => SolutionsInv'
    BY StepsOfParts, SolutionsStepKeeps
  <1>3. SolutionsInv => SolutionsSound
    BY SolutionsInvSound
  <1>4. QED
    BY <1>1, <1>2, <1>3, PTL DEF AccountsSpec

(* Whatever scripts a click cuts: the runs of a session are as they were    *)
(* answered, each call is counted once, the dashboard shows the latest, and *)
(* a page offers the document of its own run (ui/app.py, ui/pages).         *)
THEOREM SessionsSound == AccountsSpec => []SessionSound
  <1>1. AccountsInit => SessionInv
    BY InitSession DEF AccountsInit
  <1>2. SessionInv /\ [AccountsNext]_<<vars, solutionVars, sessionVars, formVars>> => SessionInv'
    BY StepsOfParts, SessionStepKeeps
  <1>3. SessionInv => SessionSound
    BY SessionInvSound
  <1>4. QED
    BY <1>1, <1>2, <1>3, PTL DEF AccountsSpec

(* Of the edits of a field at most one in a row is lost, a text that was     *)
(* shown stays filled in until a person blanks it, and between runs the    *)
(* page shows what is kept and a stage is one of the profile, whichever    *)
(* runs of the page a click cuts (ui/pages/4_intent_detection.py).         *)
THEOREM FormsSound == AccountsSpec => []FormSound
  <1>1. AccountsInit => FormInv
    BY InitForm DEF AccountsInit
  <1>2. FormInv /\ [AccountsNext]_<<vars, solutionVars, sessionVars, formVars>> => FormInv'
    BY StepsOfParts, FormStepKeeps
  <1>3. FormInv => FormSound
    BY FormInvSound
  <1>4. QED
    BY <1>1, <1>2, <1>3, PTL DEF AccountsSpec
=============================================================================
