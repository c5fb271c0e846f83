------------------------------- MODULE MCWsRelay -------------------------------
EXTENDS WsRelay
CONSTANT n1

\* Both connections have the same name.
OneName == [c \in 1..NumConns |-> n1]
===============================================================================
