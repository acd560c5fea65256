--------------------------- MODULE MCTemplateCache ---------------------------
(* Small instances of TemplateCache for TLC.                                *)
EXTENDS TemplateCache, TLC

Symmetry == Permutations(Readers) \cup Permutations(Editors) \cup Permutations(Templates)
=============================================================================
