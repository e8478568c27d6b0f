------------------------------ MODULE MCHandler ------------------------------
(* Handler for TLC: two tokens, two interchangeable senders. *)
EXTENDS Handler, TLC

CONSTANTS weth, wbtc, ethFeed, btcFeed

TwoTokens == <<weth, wbtc>>
TwoFeeds  == <<ethFeed, btcFeed>>

Interchangeable == Permutations(Senders)
=============================================================================
