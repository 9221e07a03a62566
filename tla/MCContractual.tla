---------------------------- MODULE MCContractual ----------------------------
(***************************************************************************)
(* Calculation inputs for TLC: the cutoff is day 1.  One slice varies the  *)
(* repayments, one the balances and contracts, one what is rejected.       *)
(***************************************************************************)
EXTENDS Contractual

Opening(p, due, i, k) == [principal |-> p, principalDue |-> due, interestDue |-> i, kolek |-> k]
Pay(d, o, p, i, x, t) ==
    [date |-> d, order |-> o, principal |-> p, interest |-> i, other |-> x, total |-> t]
Due(n, d)   == [number |-> n, dueDate |-> d]
Point(d, v) == [date |-> d, value |-> v]

Call(asOf, opening, contract, due, payments, timeline) ==
    [asOf |-> asOf, cutoff |-> 1, opening |-> opening,
     contractualPrincipal |-> contract[1], tenorMonths |-> contract[2],
     flatRatePercent |-> contract[4], principalPerPeriod |-> contract[3], interestPerPeriod |-> contract[4],
     contractSchedule |-> due, repayments |-> payments, timeline |-> timeline]

Monthly   == <<Due(2, 3), Due(1, 2)>>
PastDue   == <<Due(1, 1), Due(2, 3)>>
Late      == <<Due(1, 3), Due(2, 4)>>
Exact     == <<4, 2, 2, 1>>
Falling   == <<Point(3, 2), Point(2, 3)>>

\* Good rows, a reversal, and rows without an amount to allocate.
GoodRows ==
    {Pay(d, o, 1, 0, 0, 1) : d \in 2..4, o \in 1..2} \cup {Pay(d, 1, 2, 1, 0, 3) : d \in 2..3}
    \cup {Pay(d, o, -1, 0, 0, -1) : d \in 2..3, o \in 1..2} \cup {Pay(d, 1, -2, -1, 0, -3) : d \in 2..3}
    \cup {Pay(2, 1, 0, 0, 1, 1), Pay(2, 2, 0, 0, 0, 0), Pay(3, 1, 5, 0, 1, 6)}
BadRows ==
    {Pay(2, 1, 1, -1, 0, 0), Pay(2, 1, 1, 0, 0, 2), Pay(2, 1, -1, 0, 2, 1), Pay(2, 1, 0, 1, 0, 1),
     Pay(2, 2, -1, 0, 0, -1), Pay(2, 1, -1, 0, 0, -1), Pay(2, 1, 1, 0, 0, 1)}

UpTo2(S) == {<<>>} \cup {<<a>> : a \in S} \cup {<<a, b>> : a, b \in S}
Triples  == {<<a, b, c>> : a \in {Pay(3, 1, 1, 0, 0, 1), Pay(2, 1, 2, 1, 0, 3)},
                           b, c \in {Pay(3, 2, -1, 0, 0, -1), Pay(3, 2, 1, 0, 0, 1), Pay(3, 3, 2, 1, 0, 3)}}

MCInputs ==
    {Call(asOf, o, Exact, Monthly, pay, Falling) :
        asOf \in 3..4, o \in {Opening(3, 1, 2, 1), Opening(4, 0, 0, 3)}, pay \in UpTo2(GoodRows) \cup Triples}
    \cup
    {Call(4, o, contract, due, pay, t) :
        o \in {Opening(3, 1, 2, 2), Opening(2, 2, 1, 3), Opening(1, 0, 0, 1), Opening(0, 0, 1, 5)},
        contract \in {Exact, <<5, 2, 2, 0>>, <<5, 2, 3, 1>>, <<3, 2, 0, 2>>}, due \in {Monthly, PastDue, Late},
        pay \in UpTo2({Pay(2, 1, 1, 1, 0, 2), Pay(3, 1, 2, 0, 0, 2), Pay(4, 2, 4, 0, 0, 4)}),
        t \in {<<>>, Falling, <<Point(4, 4)>>}}
    \cup
    {Call(asOf, o, contract, due, pay, t) :
        asOf \in {0, 1, 4}, o \in {Opening(3, 1, 2, 1), Opening(1, 2, 0, 1)},
        contract \in {Exact, <<0, 2, 0, 0>>, <<1, 3, 1, 0>>, <<4, 2, -1, 1>>},
        due \in {Monthly, <<Due(1, 3), Due(2, 2)>>, <<Due(1, 2)>>, <<Due(1, 2), Due(2, 3), Due(3, 4)>>},
        pay \in UpTo2(BadRows), t \in {<<>>, <<Point(2, 7)>>, <<Point(2, 1), Point(2, 2)>>}}
=============================================================================
