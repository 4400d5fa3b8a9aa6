----------------------------- MODULE MCWebSync -----------------------------
(***************************************************************************)
(* An instance of WebSync for TLC: a list of two, a second room beside the *)
(* one its events come from.                                               *)
(***************************************************************************)
EXTENDS WebSync, TLC

CONSTANTS x, y, v, w
=============================================================================
