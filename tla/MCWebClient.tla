----------------------------- MODULE MCWebClient ----------------------------
(* WebClient for TLC: a result without a count, of no rows and of one.      *)
EXTENDS WebClient

Counts == {NoCount, 0, 1}
=============================================================================
