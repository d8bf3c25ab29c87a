------------------------------ MODULE MCCasePage ------------------------------
(* CasePage for TLC: the names of its cases and of its searches.            *)
EXTENDS CasePage

CONSTANTS a, b, naive, expanded
===============================================================================
