--------------------------- MODULE MCKeywordFilter ---------------------------
(* Instances of KeywordFilter for TLC.                                     *)
EXTENDS KeywordFilter

CONSTANTS a, b

(* Keywords that overlap themselves and each other.                        *)
MCKeywords == {<<a>>, <<a, a>>, <<a, b, a>>}
==============================================================================
