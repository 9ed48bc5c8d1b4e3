----------------------------- MODULE MCApiCall -----------------------------
(***************************************************************************)
(* Small instances of ApiCall for TLC: three attempts for eleven, which    *)
(* are enough for a request to be answered, lost and overtaken by two      *)
(* later ones, and lists of at most two error details.                     *)
(***************************************************************************)
EXTENDS ApiCall
=============================================================================
