--------------------------- MODULE MCDocumentPair ---------------------------
(* Model-checking instance of DocumentPair: contents are interchangeable. *)
EXTENDS DocumentPair, TLC

AnyText == Permutations(Texts)
=============================================================================
