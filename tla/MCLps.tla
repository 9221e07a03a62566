------------------------------- MODULE MCLps --------------------------------
\* Instances of LpsReport for TLC.
EXTENDS LpsReport

CONSTANTS c1, c2, c3, c4, c5, l1, l2, l3

Person(c)  == [cif |-> c, individual |-> TRUE, debtor |-> Blank]
Company(c) == [cif |-> c, individual |-> FALSE, debtor |-> "0002"]
Row(c, a)  == [cif |-> c, acc |-> a]

LoanArrears == [l \in {l1, l2, l3} |-> IF l = l3 THEN 0 ELSE IF l = l2 THEN 7 ELSE 5]
InOrder == <<"no_rekening", "tunggakan_bunga", "cabang">>
Swapped == <<"no_rekening", "cabang", "tunggakan_bunga">>
Cells(header, l) == [i \in DOMAIN header |-> CASE header[i] = "no_rekening" -> l
                                               [] header[i] = "tunggakan_bunga" -> LoanArrears[l]
                                               [] header[i] = "cabang" -> 1]
File(header, loans, ended) ==
    [header |-> header, rows |-> [i \in DOMAIN loans |-> Cells(header, loans[i])], ended |-> ended]

\* Customers with and without report rows, repeated and unnamed rows, accounts
\* without number; three missing holders for the pool, or none.
Holding(savings, deposits, loans) ==
    [customers |-> <<Person(c1), Company(c2), Person(c1), Person(Blank)>>,
     savings |-> savings, deposits |-> deposits, loans |-> loans]
Holdings ==
    {Holding(<<Row(c1, l1), Row(c3, Blank)>>, <<Row(c4, l2), Row(Blank, l1)>>,
             <<Row(c2, l1), Row(c5, l2)>>),
     Holding(<<Row(c1, l1)>>, << >>, <<Row(c2, l1), Row(c2, l2), Row(c1, l3)>>)}
Detail(header, ended) ==
    <<File(InOrder, <<l1>>, ended), File(header, <<l2, l1>>, ended)>>
Files == {[whole |-> File(InOrder, <<l1, l2>>, ended), parts |-> Detail(InOrder, TRUE)] : ended \in BOOLEAN}
         \cup {[whole |-> None, parts |-> Detail(h, ended)] : h \in {InOrder, Swapped}, ended \in BOOLEAN}
         \cup {[whole |-> None, parts |-> <<File(InOrder, <<l1>>, TRUE)>>]}

MCBooks ==
    {[customers |-> h.customers, savings |-> h.savings, deposits |-> h.deposits, loans |-> h.loans,
      whole |-> f.whole, parts |-> f.parts, arrears |-> LoanArrears,
      live |-> [c \in {c3, c4, c5} |-> IF c = c4 THEN Company(c) ELSE Person(c)],
      mso |-> [c \in {c1, c2, c3, c4, c5} |-> IF c = c4 THEN "0002" ELSE "2090"]]
     : h \in Holdings, f \in Files}
=============================================================================
