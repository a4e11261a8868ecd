---------------------------- MODULE MCBuffReport ----------------------------
(* BuffReport for TLC.                                                     *)
EXTENDS BuffReport

MCAction == {{DROP}, {FORW}, {BUFF, NOCP}}
=============================================================================
