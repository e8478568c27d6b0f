--------------------------- MODULE MCDSCEngineSteps ---------------------------
(* DSCEngineSteps for TLC: one token, interchangeable users. *)
EXTENDS DSCEngineSteps, TLC

CONSTANTS weth, ethFeed

OneToken == <<weth>>
OneFeed  == <<ethFeed>>

Interchangeable == Permutations(Users)
=============================================================================
