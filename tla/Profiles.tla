------------------------------ MODULE Profiles ------------------------------
(***************************************************************************)
(* Domain profiles (domain/profile.py): what a file and the files it       *)
(* extends define, and the lookups the agents make in it.                  *)
(*                                                                         *)
(* A file is [parent, own]: "own" has the fields it sets, of sections,     *)
(* default_sections, offerings, stages, categories and weights.            *)
(***************************************************************************)
EXTENDS Integers, Sequences, SequencesExt, FiniteSetsExt

CONSTANTS NoParent,  \* a file without "extends"
          SlugOf     \* the slug of each spelling of a section name

NotFound == [error |-> "ProfileNotFoundError"]

Unset == [sections |-> << >>, default_sections |-> << >>, offerings |-> << >>,
          stages |-> << >>, categories |-> << >>, weights |-> << >>]

Merge(base, own) ==
  [f \in DOMAIN base \cup DOMAIN own |->
     CASE f \notin DOMAIN own -> base[f]
       [] f = "weights" /\ f \in DOMAIN base ->
            [w \in DOMAIN base[f] \cup DOMAIN own[f] |->
               IF w \in DOMAIN own[f] THEN own[f][w] ELSE base[f][w]]
       [] OTHER -> own[f]]

LoadRaw(files, name) ==
  LET names == DOMAIN files \cup {files[f].parent : f \in DOMAIN files} \cup {name}
      raw[f \in names, seen \in SUBSET DOMAIN files] ==
        IF f \in seen \/ f \notin DOMAIN files THEN NotFound
        ELSE IF files[f].parent = NoParent THEN files[f].own
        ELSE LET base == raw[files[f].parent, seen \cup {f}]
             IN  IF base = NotFound THEN NotFound ELSE Merge(base, files[f].own)
  IN  raw[name, {}]

(* Read again by every agent; the cache is keyed by the files' hash, so it  *)
(* shows an edit at once.                                                  *)
Load(files, name) == LET raw == LoadRaw(files, name)
                     IN  IF raw = NotFound THEN NotFound ELSE Merge(Unset, raw)

(* A key wins over an alias, and an earlier section over a later one; a     *)
(* name the profile does not know is a section of its own.                 *)
Section(p, name) ==
  LET keyed   == {i \in DOMAIN p.sections : p.sections[i].key = SlugOf[name]}
      aliased == {i \in DOMAIN p.sections :
                    SlugOf[name] \in {SlugOf[a] : a \in ToSet(p.sections[i].aliases)}}
      named   == IF keyed # {} THEN keyed ELSE aliased
  IN  IF named = {} THEN [key |-> SlugOf[name], aliases |-> << >>, low |-> 200, high |-> 300]
      ELSE p.sections[Min(named)]

CanonicalKey(p, name) == Section(p, name).key

DefaultSections(p) ==
  IF p.default_sections # << >>
  THEN [i \in DOMAIN p.default_sections |-> CanonicalKey(p, p.default_sections[i])]
  ELSE IF p.sections = << >> THEN <<"executive_summary">>
  ELSE [i \in DOMAIN p.sections \cap (1..4) |-> p.sections[i].key]

(* The lowest stage whose limit the score does not exceed, or the highest   *)
(* one; stages with the same limit keep the order of the file.             *)
StageFor(stages, score) ==
  LET fitting == {i \in DOMAIN stages : score <= stages[i].max}
      least   == Min({stages[i].max : i \in fitting})
      most    == Max({stages[i].max : i \in DOMAIN stages})
  IN  IF stages = << >> THEN ""
      ELSE IF fitting = {} THEN stages[Max({i \in DOMAIN stages : stages[i].max = most})].name
      ELSE stages[Min({i \in fitting : stages[i].max = least})].name
=============================================================================
