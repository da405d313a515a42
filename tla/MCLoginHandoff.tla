----------------------------- MODULE MCLoginHandoff -----------------------------
(***************************************************************************)
(* LoginHandoff for TLC.  The sets of a run are of model values that       *)
(* nothing tells apart, except that a run may give the login server fewer  *)
(* descriptors than the game server.                                       *)
(***************************************************************************)
EXTENDS LoginHandoff, TLC

DataSymmetry == Permutations(Accounts) \cup Permutations(Hosts) \cup Permutations(Keys)

\* For LoginSockets = GameSockets.
SocketSymmetry == DataSymmetry \cup Permutations(GameSockets)
=============================================================================
