---------------------------- MODULE MCAuthManager ----------------------------
(* AuthManager for TLC: two credentials, of one provider or of one each. *)
EXTENDS AuthManager

CONSTANTS p1, p2

OneProvider == [a \in Auths |-> p1]
TwoProviders == [a \in Auths |-> IF a = 1 THEN p1 ELSE p2]
OneList == {<<p1>>}
TwoLists == {<<p1, p2>>}
NoRA == {NoRetryAfter}
SomeRA == {NoRetryAfter, 2}

Symmetry == Permutations(Reqs)
=============================================================================
