----------------------------- MODULE MCInquiry ------------------------------
\* An instance of LoanInquiry for TLC.
EXTENDS LoanInquiry, TLC

CONSTANTS mig, nat, ann, bare, alt, shared, unknown

\* mig is migrated, flat and has a tenor of 1; nat began in Fincloud; ann is
\* migrated and annuity.  nat and ann share an alternate account, bare has none.
Row(number, date) == [number |-> number, date |-> date]
MCBank ==
    (mig :> [alternate |-> alt, start |-> 1, flat |-> TRUE, tenor |-> 1,
           schedule |-> <<Row(0, 1), Row(1, 3)>>])
    @@ (nat :> [alternate |-> shared, start |-> 3, flat |-> TRUE, tenor |-> 1,
              schedule |-> << >>])
    @@ (ann :> [alternate |-> shared, start |-> 2, flat |-> FALSE, tenor |-> 1,
              schedule |-> << >>])
    @@ (bare :> [alternate |-> Blank, start |-> 1, flat |-> TRUE, tenor |-> 1,
              schedule |-> << >>])
MCQuality == [l \in Loans |-> [d \in Days |-> IF d % 2 = 0 THEN 1 ELSE 2]]
=============================================================================
