----------------------------- MODULE MCRecords -----------------------------
EXTENDS Records, TLC

CONSTANTS server, terminal, t1, t2, u

\* Two threads of the server share a connection; a terminal has its own.
SharedConn == [t \in {t1, t2, u} |-> IF t = u THEN terminal ELSE server]

\* The threads of the server are interchangeable.
ServerThreads == Permutations({t1, t2})
=============================================================================
