---------------------------- MODULE MCEngagement ----------------------------
(* An instance of Engagement for TLC. *)
EXTENDS Engagement

CONSTANTS w1, w2, m1, e1
=============================================================================
