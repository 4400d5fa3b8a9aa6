----------------------------- MODULE MCRealtime -----------------------------
(***************************************************************************)
(* An instance of Realtime for TLC: queues of two entries, so that both    *)
(* overflow, and a message to two rooms beside one to a single room.       *)
(***************************************************************************)
EXTENDS Realtime, TLC

CONSTANTS c1, r1, r2

TwoRooms == {<< r1 >>, << r2, r1 >>}
=============================================================================
