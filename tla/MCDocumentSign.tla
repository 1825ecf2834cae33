--------------------------- MODULE MCDocumentSign ---------------------------
(***************************************************************************)
(* Three tabs on one record, with two files to attach and two places for the *)
(* box.                                                                    *)
(***************************************************************************)
EXTENDS DocumentSign, TLC

Names == Permutations(Requests) \cup Permutations(Tabs) \cup Permutations(Pdfs) \cup Permutations(Boxes)
=============================================================================
