------------------------------- MODULE MCEvidence -------------------------------
(* Evidence for TLC: the constants are given in the configuration.          *)
EXTENDS Evidence
===============================================================================
