---------------------------- MODULE MCRunStream ----------------------------
(* Instances of RunStream for TLC.                                         *)
EXTENDS RunStream

FourSections == <<"summary", "approach", "timeline", "pricing">>
=============================================================================
