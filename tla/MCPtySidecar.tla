---------------------------- MODULE MCPtySidecar ----------------------------
(* Instances of PtySidecar for TLC.                                        *)
EXTENDS PtySidecar, TLC
=============================================================================
