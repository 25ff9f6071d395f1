--------------------------- MODULE MCReviewCycle ---------------------------
(* One iteration, resumed twice, with an edit or two of each document.      *)
EXTENDS ReviewCycle
=============================================================================
