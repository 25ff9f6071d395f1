------------------------------ MODULE RawData ------------------------------
(* JSON data as far as the checks of the code tell it apart: Absent is a    *)
(* missing or null value, Junk one of the wrong type (a number where a list *)
(* is expected), Blank a value that is not a non-empty string.              *)
EXTENDS Sequences

CONSTANTS Absent, Junk, Blank

IsList(v) == v \notin {Absent, Junk}
Items(v) == IF IsList(v) THEN v ELSE << >>

=============================================================================
