----------------------------- MODULE MCChatRunner -----------------------------
(* Four messages: a planner without and a reviewer with access to            *)
(* restricted packages, a group message the bot is not named in, a stranger. *)
EXTENDS ChatRunner

CONSTANTS open, secret, planner, reviewer

MCSenderOf ==
  [u \in Update |-> CASE u = 1 -> planner [] u = 4 -> reviewer [] OTHER -> NoPerson]
=============================================================================
