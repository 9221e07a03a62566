-------------------------------- MODULE Sums --------------------------------
\* What a sequence of amounts adds up to.
EXTENDS Integers, Sequences

Total(amounts) ==
    LET sum[n \in 0..Len(amounts)] == IF n = 0 THEN 0 ELSE sum[n - 1] + amounts[n]
    IN  sum[Len(amounts)]
=============================================================================
