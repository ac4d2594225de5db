---------------------------- MODULE MCBroadcast ----------------------------
(* Small instances of Broadcast for TLC: two chats, and a budget that a few *)
(* slow answers, or one long pause, use up.                                *)
EXTENDS Broadcast
=============================================================================
