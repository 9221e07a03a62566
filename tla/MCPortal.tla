------------------------------ MODULE MCPortal ------------------------------
\* Instances of Portal for TLC.
EXTENDS Portal

CONSTANTS a, b, c, legacy, r1, r2, r3, t1, t2, t3

\* Access management: a was deactivated with a retired permission, b is not
\* there yet; both are configured as managers.
AccessUsers == (a :> [exists |-> TRUE, active |-> FALSE, perms |-> {legacy}]) @@ (b :> Absent)
AccessFold == [n \in Names |-> a]

RequestSymmetry == Permutations(Requests) \cup Permutations(Tokens)

\* Login: two spellings of one Fincloud account and another account.
LoginUsers == [n \in Names |-> Absent]
LoginFold == [n \in Names |-> IF n = b THEN a ELSE n]
=============================================================================
