-------------------------- MODULE MCRefreshTokens --------------------------
(* Two browsers of one user, two requests at a time, three tokens.           *)
EXTENDS RefreshTokens, TLC

CONSTANTS u1, b1, b2, r1, r2, t1, t2, t3

OneUser == {u1}
TwoBrowsers == {b1, b2}
BothOfOneUser == [b \in TwoBrowsers |-> u1]
TwoRequests == {r1, r2}
ThreeTokens == {t1, t2, t3}
============================================================================
