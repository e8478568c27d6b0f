---------------------------- MODULE MCDSCEngine ----------------------------
(* DSCEngine for TLC: one or two tokens, and interchangeable users. *)
EXTENDS DSCEngine, TLC

CONSTANTS weth, wbtc, ethFeed, btcFeed

OneToken == <<weth>>
OneFeed  == <<ethFeed>>

TwoTokens == <<weth, wbtc>>
TwoFeeds  == <<ethFeed, btcFeed>>

(* Answers a sane feed does not give; OracleLib lets them through. *)
OddAnswers == {-1, 0, 1, 2}

Interchangeable == Permutations(Users)
=============================================================================
