------------------------------- MODULE MCScript -------------------------------
(***************************************************************************)
(* Two requests for scripts and an upload.                                 *)
(***************************************************************************)
EXTENDS Script

CONSTANTS s1, s2, u1
===============================================================================
