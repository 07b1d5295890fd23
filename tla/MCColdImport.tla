---------------------------- MODULE MCColdImport ----------------------------
(* Instances of ColdImport for TLC.                                        *)
EXTENDS ColdImport
=============================================================================
