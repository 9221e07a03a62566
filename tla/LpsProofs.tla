------------------------------ MODULE LpsProofs ------------------------------
(***************************************************************************)
(* Proofs about LpsReport, for every content of the sources, every number  *)
(* of parts and every number of workers.                                   *)
(***************************************************************************)
EXTENDS LpsReport, Induction, FiniteSetTheorems, TLAPS

-----------------------------------------------------------------------------
(* The customers of the report.                                            *)

\* The rows kept so far: the CIFs of the rows read, each once.
KeptWell(kept, cifs, S) ==
    /\ kept \in Seq(S) /\ CIFs(kept) = cifs
    /\ \A i \in DOMAIN kept : kept[i].cif \in cifs
    /\ \A i, j \in DOMAIN kept : kept[i].cif = kept[j].cif => i = j

\* One row more (parseCustomers).
LEMMA KeepOne ==
    ASSUME NEW S, NEW kept, NEW cifs, NEW row \in S, KeptWell(kept, cifs, S), Blank \notin cifs
    PROVE  KeptWell(Keep(kept, row), cifs \cup ({row.cif} \ {Blank}), S)
<1> USE DEF KeptWell, CIFs
<1>1. CASE row.cif = Blank \/ row.cif \in CIFs(kept)
  <2>1. Keep(kept, row) = kept /\ cifs \cup ({row.cif} \ {Blank}) = cifs
    BY <1>1 DEF Keep
  <2>2. QED
    BY <2>1
<1>2. CASE ~(row.cif = Blank \/ row.cif \in CIFs(kept))
  <2> DEFINE more1 == Append(kept, row)
  <2>1. Keep(kept, row) = more1
    BY <1>2 DEF Keep
  <2>2. /\ more1 \in Seq(S) /\ DOMAIN more1 = 1..(Len(kept) + 1) /\ more1[Len(kept) + 1] = row
        /\ \A i \in 1..Len(kept) : more1[i] = kept[i] /\ i # Len(kept) + 1
        /\ DOMAIN kept = 1..Len(kept) /\ Len(kept) \in Nat
    OBVIOUS
  <2>3. \A i \in DOMAIN more1 : i \in DOMAIN kept \/ i = Len(kept) + 1
    BY <2>2
  <2>a. Len(kept) + 1 \in DOMAIN more1 /\ DOMAIN kept \subseteq DOMAIN more1
    BY <2>2
  <2> HIDE DEF more1
  <2>4. \A i \in DOMAIN kept : kept[i].cif # row.cif
    BY <1>2
  <2>5. CIFs(more1) = cifs \cup {row.cif}
    BY <1>2, <2>2, <2>3, <2>a
  <2>6. \A i, j \in DOMAIN more1 : more1[i].cif = more1[j].cif => i = j
    BY <2>2, <2>3, <2>4
  <2>7. \A i \in DOMAIN more1 : more1[i].cif \in cifs \cup {row.cif}
    BY <2>2, <2>3
  <2>8. cifs \cup ({row.cif} \ {Blank}) = cifs \cup {row.cif}
    BY <1>2
  <2>9. QED
    BY <2>1, <2>2, <2>5, <2>6, <2>7, <2>8
<1>3. QED
  BY <1>1, <1>2

\* The rows kept after each row of the report exist, and the last of them are
\* what parseCustomers returns.
LEMMA ParseSteps ==
    ASSUME NEW rows, IsTable(rows)
    PROVE  \E g \in [0..Len(rows) -> Seq(Range(rows))] :
              /\ g[0] = << >> /\ parseCustomers(rows) = g[Len(rows)]
              /\ \A n \in 1..Len(rows) : g[n] = Keep(g[n - 1], rows[n])
<1> DEFINE N == Len(rows)
           S == Seq(Range(rows))
           step == [n \in 1..N |-> [k \in S |-> Keep(k, rows[n])]]
           F(f) == [n \in 0..N |-> IF n = 0 THEN << >> ELSE Keep(f[n - 1], rows[n])]
           h == CHOOSE f : f = F(f)
<1>1. N \in Nat /\ \A n \in 1..N : rows[n] \in Range(rows)
  BY DEF IsTable
<1>2. step \in [1..N -> [S -> S]]
  <2>1. ASSUME NEW n \in 1..N, NEW k \in S PROVE Keep(k, rows[n]) \in S
    <3> DEFINE R == Range(rows)
    <3>1. rows[n] \in R
      BY <1>1
    <3> HIDE DEF R
    <3>2. QED
      BY <3>1 DEF Keep, R
  <2>2. QED
    BY <2>1
<1>3. \A n \in 1..N, k \in S : step[n][k] = Keep(k, rows[n])
  OBVIOUS
<1> HIDE DEF step
<1>4. PICK g \in [0..N -> S] : g[0] = << >> /\ \A n \in 1..N : g[n] = step[n][g[n - 1]]
  <2> HIDE DEF S, N
  <2>1. StepsOn(step, N, S) /\ << >> \in S
    BY <1>2 DEF StepsOn, S
  <2>2. \E g \in [0..N -> S] : g[0] = << >> /\ Follows(g, step, N)
    BY <1>1, <2>1, StepsExist
  <2>3. QED
    BY <2>2 DEF Follows
<1>5. \A n \in 1..N : g[n] = Keep(g[n - 1], rows[n]) /\ g[n - 1] \in S
  <2> HIDE DEF N, S
  <2>1. \A n \in 1..N : n - 1 \in 0..N
    BY <1>1
  <2>2. QED
    BY <1>3, <1>4, <2>1
<1>6. g = F(g)
  BY <1>1, <1>4, <1>5
<1>7. h = F(h)
  <2> HIDE DEF F
  <2>1. QED
    BY <1>6
<1>8. parseCustomers(rows) = h[N]
  BY DEF parseCustomers
<1> HIDE DEF h
<1>9. \A n \in 0..N : g[n] = h[n]
  <2> DEFINE both == [n \in 1..N |-> [k \in S \cup {h[m] : m \in 0..N} |-> Keep(k, rows[n])]]
  <2>1. ASSUME NEW n \in 1..N PROVE g[n] = both[n][g[n - 1]] /\ h[n] = both[n][h[n - 1]]
    <3>1. n \in 0..N /\ n # 0 /\ n - 1 \in 0..N
      BY <1>1
    <3>2. h[n] = Keep(h[n - 1], rows[n])
      BY <1>7, <3>1
    <3>3. h[n - 1] \in {h[m] : m \in 0..N}
      BY <3>1
    <3>4. QED
      BY <1>5, <3>2, <3>3
  <2> HIDE DEF both
  <2>2. Follows(g, both, N) /\ Follows(h, both, N)
    BY <2>1 DEF Follows
  <2>3. g[0] = h[0]
    BY <1>1, <1>4, <1>7
  <2> HIDE DEF N, S, F
  <2>4. QED
    BY <1>1, <2>2, <2>3, StepsAgree
<1>10. QED
  BY <1>1, <1>4, <1>5, <1>8, <1>9

\* parseCustomers keeps each customer of the report once.
LEMMA ParsedWell ==
    ASSUME NEW rows, IsTable(rows)
    PROVE  KeptWell(parseCustomers(rows), CIFs(rows), Range(rows))
<1> DEFINE N == Len(rows)
           S == Range(rows)
           Upto(n) == {rows[i].cif : i \in 1..n} \ {Blank}
<1>1. PICK g \in [0..N -> Seq(S)] : /\ g[0] = << >> /\ parseCustomers(rows) = g[N]
                                    /\ \A n \in 1..N : g[n] = Keep(g[n - 1], rows[n])
  BY ParseSteps
<1>2. N \in Nat /\ DOMAIN rows = 1..N /\ \A n \in 1..N : rows[n] \in S
  BY DEF IsTable
<1> DEFINE Good == {n \in Nat : n <= N => KeptWell(g[n], Upto(n), S)}
<1>3. 0 \in Good
  <2>1. << >> \in Seq(S) /\ DOMAIN << >> = {} /\ 1..0 = {}
    OBVIOUS
  <2>2. KeptWell(<< >>, {}, S)
    BY <2>1 DEF KeptWell, CIFs
  <2>3. Upto(0) = {}
    BY <2>1
  <2>4. QED
    BY <1>1, <2>2, <2>3
<1>4. ASSUME NEW n \in Good PROVE n + 1 \in Good
  <2>1. SUFFICES ASSUME n + 1 <= N PROVE KeptWell(g[n + 1], Upto(n + 1), S)
    OBVIOUS
  <2>2. n \in Nat /\ n <= N /\ n + 1 \in 1..N /\ (n + 1) - 1 = n
    BY <1>2, <2>1
  <2>3. KeptWell(g[n], Upto(n), S) /\ g[n + 1] = Keep(g[n], rows[n + 1])
    BY <1>1, <2>2
  <2>4. 1..(n + 1) = (1..n) \cup {n + 1}
    BY <2>2
  <2>5. Upto(n + 1) = Upto(n) \cup ({rows[n + 1].cif} \ {Blank})
    BY <2>4
  <2>6. Blank \notin Upto(n) /\ rows[n + 1] \in S
    BY <1>2, <2>2
  <2> HIDE DEF Upto, S
  <2>7. QED
    BY <2>3, <2>5, <2>6, KeepOne
<1> HIDE DEF Good
<1>5. Good = Nat
  <2>1. Good \in SUBSET Nat
    BY DEF Good
  <2>2. QED
    BY <1>3, <1>4, <2>1, NatInduct
<1>6. KeptWell(g[N], Upto(N), S)
  BY <1>2, <1>5 DEF Good
<1>7. CIFs(rows) = Upto(N)
  BY <1>2 DEF CIFs
<1>8. QED
  BY <1>1, <1>6, <1>7

\* What the generator knows of the customer report (parseCustomers).
LEMMA CustomersWell ==
    ASSUME book \in Books
    PROVE  KeptWell(Customers, CIFs(book.customers), Range(book.customers))
  BY BooksAssumption, ParsedWell DEF Tables, Customers

\* The CIFs of a table's rows are finitely many.
LEMMA TableFinite ==
    ASSUME NEW rows, IsTable(rows)
    PROVE  IsFiniteSet(CIFs(rows))
<1> DEFINE T == {rows[i].cif : i \in DOMAIN rows}
           f == [i \in DOMAIN rows |-> rows[i].cif]
<1>1. Len(rows) \in Nat /\ DOMAIN rows = 1..Len(rows)
  BY DEF IsTable
<1>2. IsFiniteSet(DOMAIN rows)
  BY <1>1, FS_Interval
<1>3. f \in Surjection(DOMAIN rows, T)
  BY DEF Surjection
<1>4. IsFiniteSet(T)
  BY <1>2, <1>3, FS_Surjection
<1>5. QED
  BY <1>4, FS_Subset DEF CIFs

\* Lines with different CIFs are as many as their CIFs.
LEMMA LinesCounted ==
    ASSUME NEW S, NEW lines \in Seq(S), \A i, j \in DOMAIN lines : lines[i].cif = lines[j].cif => i = j
    PROVE  LET T == {lines[i].cif : i \in DOMAIN lines}
           IN  IsFiniteSet(T) /\ Cardinality(T) = Len(lines)
<1> DEFINE T == {lines[i].cif : i \in DOMAIN lines}
           f == [i \in DOMAIN lines |-> lines[i].cif]
<1>1. Len(lines) \in Nat /\ DOMAIN lines = 1..Len(lines)
  OBVIOUS
<1>2. IsFiniteSet(1..Len(lines)) /\ Cardinality(1..Len(lines)) = Len(lines)
  BY <1>1, FS_Interval
<1>3. f \in Bijection(DOMAIN lines, T)
  BY DEF Bijection, Injection, Surjection, IsInjective
<1>4. ExistsBijection(1..Len(lines), T)
  BY <1>1, <1>3 DEF ExistsBijection
<1>5. QED
  BY <1>2, <1>4, FS_Bijection

\* Two tables, one after the other.
LEMMA TablesJoin ==
    ASSUME NEW a, NEW b, IsTable(a), IsTable(b)
    PROVE  IsTable(a \o b) /\ Range(a \o b) = Range(a) \cup Range(b)
<1> DEFINE all == a \o b
           S == Range(a) \cup Range(b)
<1>1. a \in Seq(Range(a)) /\ b \in Seq(Range(b))
  BY DEF IsTable
<1>2. a \in Seq(S) /\ b \in Seq(S)
  BY <1>1
<1> HIDE DEF S
<1>3. /\ Len(a) \in Nat /\ DOMAIN a = 1..Len(a) /\ Len(b) \in Nat /\ DOMAIN b = 1..Len(b)
      /\ all \in Seq(S) /\ Len(all) = Len(a) + Len(b) /\ DOMAIN all = 1..(Len(a) + Len(b))
      /\ \A i \in 1..Len(a) : all[i] = a[i]
      /\ \A i \in 1..Len(all) : i > Len(a) => all[i] = b[i - Len(a)]
  BY <1>2
<1> HIDE DEF all
<1>4. \A i \in DOMAIN a : i \in DOMAIN all /\ all[i] = a[i]
  BY <1>3
<1>5. ASSUME NEW i \in DOMAIN b PROVE i + Len(a) \in DOMAIN all /\ all[i + Len(a)] = b[i]
  <2>1. i + Len(a) \in 1..Len(all) /\ i + Len(a) > Len(a) /\ (i + Len(a)) - Len(a) = i
    BY <1>3
  <2>2. QED
    BY <1>3, <2>1
<1>6. ASSUME NEW i \in DOMAIN all PROVE all[i] \in Range(a) \cup Range(b)
  <2>1. CASE i \in 1..Len(a)
    BY <1>3, <2>1 DEF Range
  <2>2. CASE i > Len(a)
    <3>1. i - Len(a) \in DOMAIN b /\ all[i] = b[i - Len(a)]
      BY <1>3, <2>2
    <3>2. QED
      BY <3>1 DEF Range
  <2>3. QED
    BY <1>3, <2>1, <2>2
<1>7. Range(all) = Range(a) \cup Range(b)
  BY <1>4, <1>5, <1>6 DEF Range
<1>8. all \in Seq(Range(all))
  BY <1>3, <1>7 DEF S
<1>9. QED
  BY <1>7, <1>8 DEF IsTable, all

\* The customers to ask Fincloud for are finitely many, hold an account or a
\* loan, are not in the report, and are no worker's state.
LEMMA MissingWell ==
    ASSUME book \in Books
    PROVE  /\ IsFiniteSet(Missing) /\ Missing = Holders \ CIFs(book.customers)
           /\ Missing \cap {"ready", "gone"} = {} /\ Blank \notin Missing
           /\ \A c \in Missing : book.live[c].cif = c
<1>1. Tables(book) /\ Answering(book)
  BY BooksAssumption
<1>2. Missing = Holders \ CIFs(book.customers)
  BY CustomersWell DEF Missing, KeptWell
<1>3. IsTable(book.savings \o book.deposits)
  BY <1>1, TablesJoin DEF Tables
<1>4. IsFiniteSet(CIFs(book.savings \o book.deposits)) /\ IsFiniteSet(CIFs(book.loans))
  BY <1>1, <1>3, TableFinite DEF Tables
<1>5. IsFiniteSet(Holders)
  BY <1>4, FS_Union DEF Holders, HoldersOf
<1>6. IsFiniteSet(Missing)
  BY <1>2, <1>5, FS_Subset
<1>7. Blank \notin Holders
  BY DEF Holders, HoldersOf, CIFs
<1>8. QED
  BY <1>1, <1>2, <1>6, <1>7 DEF Tables, Answering, Holders

\* A DN line carries the customer's CIF and one of the known debtor types
\* (buildDN, buildLiveDN).
LEMMA DNRowType ==
    ASSUME NEW c, NEW C, c.cif \in C, C \subseteq CIFs(book.customers) \cup Holders, NEW answer \in Answers(c)
    PROVE  DNRow(c, answer) \in Lines(C) /\ DNRow(c, answer).cif = c.cif
<1>1. answer \in {Blank} \/ answer = book.mso[c.cif]
  BY DEF Answers
<1>2. LooksUp(c) => Fallback(answer) \in Debtors
  BY <1>1 DEF Fallback, Debtors
<1>3. ~c.individual /\ ~LooksUp(c) => c.debtor \in Debtors
  BY DEF LooksUp, Debtors
<1>4. DNRow(c, answer).debtor \in Debtors
  BY <1>2, <1>3 DEF DNRow, Debtors
<1>5. QED
  BY <1>4 DEF DNRow, Lines

-----------------------------------------------------------------------------
(* The steps.                                                              *)

\* No step changes what the sources would answer, or what is read from them.
LEMMA BookKept ==
    ASSUME [Next]_vars
    PROVE  /\ book' = book /\ Customers' = Customers /\ Holders' = Holders /\ Missing' = Missing
           /\ CIFs(book.customers)' = CIFs(book.customers) /\ Debtors' = Debtors
           /\ Lines(Missing)' = Lines(Missing) /\ Results' = Results
           /\ Lines(CIFs(book.customers))' = Lines(CIFs(book.customers))
           /\ UniformParts' = UniformParts /\ WithAccount(Accounts)' = WithAccount(Accounts)
           /\ WithAccount(book.loans)' = WithAccount(book.loans)
<1>1. book' = book
  BY DEF Next, Request, Fail, Validate, DownloadRates, Download, DownloadWhole, DownloadPart,
         ParseCustomers, BuildDN, StartPool, Collect, Collected, Archive, Answer, Hand,
         ProducerReturns, Inquire, WorkerReturns, Cancel, vars
<1>2. Customers' = Customers /\ Holders' = Holders /\ CIFs(book.customers)' = CIFs(book.customers)
  BY <1>1 DEF Customers, Holders
<1>3. Missing' = Missing
  BY <1>2 DEF Missing
<1>4. Debtors' = Debtors
  BY <1>1, <1>2 DEF Debtors
<1>5. Lines(Missing)' = Lines(Missing) /\ Lines(CIFs(book.customers))' = Lines(CIFs(book.customers))
  BY <1>2, <1>3, <1>4 DEF Lines
<1>6. Results' = Results
  BY <1>5 DEF Results
<1>7. UniformParts' = UniformParts /\ WithAccount(Accounts)' = WithAccount(Accounts)
      /\ WithAccount(book.loans)' = WithAccount(book.loans)
  BY <1>1 DEF UniformParts, Accounts
<1>8. QED
  BY <1>1, <1>2, <1>3, <1>4, <1>5, <1>6, <1>7

\* The pool has at least one worker and at most PoolSize, and one for each
\* customer at most (completeMissingDN).
LEMMA PoolStarts ==
    ASSUME book \in Books, Missing # {}
    PROVE  LET n == IF Cardinality(Missing) < PoolSize THEN Cardinality(Missing) ELSE PoolSize
           IN  n \in Nat /\ 1 \in 1..n
<1>1. Cardinality(Missing) \in Nat /\ Cardinality(Missing) # 0
  BY MissingWell, FS_CardinalityType, FS_EmptySet
<1>2. QED
  BY <1>1, LpsAssumption

\* The loop over the customers is inside the list (buildDN).
LEMMA NextCustomer ==
    ASSUME TypeOK, BuildInv, pc = "dn", done # Len(Customers)
    PROVE  /\ Len(Customers) \in Nat /\ DOMAIN Customers = 1..Len(Customers)
           /\ done = Len(dn) /\ done + 1 \in DOMAIN Customers
<1> DEFINE LC == Lines(CIFs(book.customers))
<1>1. Len(dn) = done /\ \A i \in DOMAIN dn : i \in DOMAIN Customers
  BY DEF BuildInv
<1>2. KeptWell(Customers, CIFs(book.customers), Range(book.customers))
  BY CustomersWell DEF TypeOK
<1>3. dn \in Seq(LC)
  BY DEF TypeOK
<1> HIDE DEF LC
<1>4. Len(dn) \in Nat /\ DOMAIN dn = 1..Len(dn)
  BY <1>3
<1>5. Len(Customers) \in Nat /\ DOMAIN Customers = 1..Len(Customers)
  BY <1>2 DEF KeptWell
<1>6. CASE done = 0
  BY <1>1, <1>5, <1>6
<1>7. CASE done # 0
  <2>1. done \in 1..Len(Customers)
    BY <1>1, <1>4, <1>5, <1>7
  <2>2. ASSUME NEW n \in Nat, done \in 1..n, done # n PROVE done + 1 \in 1..n
    BY <2>2
  <2>3. done + 1 \in 1..Len(Customers)
    BY <1>5, <2>1, <2>2
  <2>4. QED
    BY <1>1, <1>5, <2>3
<1>8. QED
  BY <1>6, <1>7

\* Every step keeps the types.
LEMMA TypeStep ==
    ASSUME TypeOK, BuildInv, [Next]_vars PROVE TypeOK'
<1> USE DEF TypeOK
<1> DEFINE C == CIFs(book.customers)
           M == Missing
           R == Results
           LC == Lines(CIFs(book.customers))
           LM == Lines(Missing)
<1>1. /\ book' = book /\ Missing' = M /\ Results' = R
      /\ Lines(Missing)' = LM /\ Lines(CIFs(book.customers))' = LC
  BY BookKept
<1>2. /\ dn \in Seq(LC) /\ more \in Seq(LM) /\ results \in Seq(R) /\ unsent \in SUBSET M
      /\ worker \in [DOMAIN worker -> M \cup {"ready", "gone"}]
  OBVIOUS
<1>3. \A row \in LM : [ok |-> TRUE, row |-> row] \in R
  BY DEF Results
<1>4. [ok |-> FALSE] \in R
  BY DEF Results
<1>5. \A r \in R : r.ok => r.row \in LM
  BY DEF Results
<1>p. pc \in Points /\ {"validate", "rates", "download", "details", "parts", "parse", "dn", "accounts",
         "collect", "archive", "seek", "answered", "failed"} = Points
  BY DEF Points, Before, Fetching, Written
<1>h. M \cap {"ready", "gone"} = {} /\ \A c \in M : book.live[c].cif = c
  BY MissingWell
<1>6. SUFFICES /\ canceled' \in BOOLEAN /\ pc' \in Points /\ done' \in Nat
               /\ dn' \in Seq(LC) /\ more' \in Seq(LM)
               /\ unsent' \in SUBSET M /\ producer' \in {"off", "sending", "closed"}
               /\ worker' \in [DOMAIN worker' -> M \cup {"ready", "gone"}]
               /\ results' \in Seq(R) /\ firstError' \in BOOLEAN
  BY <1>1
<1>7. CASE Request
  <2>1. CASE Validate \/ DownloadRates \/ Download \/ DownloadWhole \/ DownloadPart
             \/ ParseCustomers \/ Collected \/ Archive \/ Answer
    <3> HIDE DEF M, R, LC, LM, C
    <3>1. /\ pc' \in Points /\ done' \in Nat
          /\ UNCHANGED <<canceled, dn, more, unsent, producer, worker, results, firstError>>
      BY <1>p, <2>1 DEF Validate, DownloadRates, Download, DownloadWhole, DownloadPart, ParseCustomers,
                        Collected, Archive, Answer, Goto, pool
    <3>2. QED
      BY <1>2, <3>1
  <2>2. CASE BuildDN
    <3>1. UNCHANGED <<canceled, more, unsent, producer, worker, results, firstError>>
      BY <2>2 DEF BuildDN, pool
    <3>2. dn' \in Seq(LC)
      <4>1. CASE done = Len(Customers)
        BY <1>2, <2>2, <4>1 DEF BuildDN
      <4>2. CASE done # Len(Customers)
        <5>1. PICK answer \in Answers(Customers[done + 1]) :
                  dn' = Append(dn, DNRow(Customers[done + 1], answer))
          BY <2>2, <4>2 DEF BuildDN
        <5>2. Customers[done + 1].cif \in C
          <6>1. done + 1 \in DOMAIN Customers
            BY <2>2, <4>2, NextCustomer DEF BuildDN
          <6>2. QED
            BY <6>1, CustomersWell DEF KeptWell
        <5>3. DNRow(Customers[done + 1], answer) \in LC
          BY <5>2, DNRowType
        <5> HIDE DEF LC
        <5>4. QED
          BY <1>2, <5>1, <5>3
      <4>3. QED
        BY <4>1, <4>2
    <3>3. pc' \in Points /\ done' \in Nat
      BY <1>p, <2>2 DEF BuildDN, Goto
    <3>4. QED
      BY <1>2, <3>1, <3>2, <3>3
  <2>3. CASE StartPool
    <3>1. CASE Missing = {}
      BY <1>2, <1>p, <2>3, <3>1 DEF StartPool, Goto, pool
    <3>2. CASE Missing # {}
      <4>1. /\ pc' = "collect" /\ done' = 0 /\ unsent' = Missing /\ producer' = "sending"
            /\ worker' = [w \in DOMAIN worker' |-> "ready"]
            /\ UNCHANGED <<canceled, dn, more, results, firstError>>
        BY <2>3, <3>2 DEF StartPool, Goto
      <4> HIDE DEF M, R, LC, LM, C
      <4>2. QED
        BY <1>2, <1>p, <4>1 DEF M
    <3>3. QED
      BY <3>1, <3>2
  <2>4. CASE Collect
    <3> HIDE DEF M, R, LC, LM, C
    <3>1. Head(results) \in R /\ Tail(results) \in Seq(R)
      BY <1>2, <2>4 DEF Collect
    <3>2. more' \in Seq(LM) /\ firstError' \in BOOLEAN
      <4>1. CASE Head(results).ok
        <5>1. more' = Append(more, Head(results).row) /\ firstError' = firstError
          BY <2>4, <4>1 DEF Collect
        <5>2. Head(results).row \in LM
          BY <1>5, <3>1, <4>1
        <5>3. QED
          BY <1>2, <5>1, <5>2
      <4>2. CASE ~Head(results).ok
        <5>1. more' = more /\ firstError' = TRUE
          BY <2>4, <4>2 DEF Collect
        <5>2. QED
          BY <1>2, <5>1
      <4>3. QED
        BY <4>1, <4>2
    <3>3. QED
      BY <1>2, <2>4, <3>1, <3>2 DEF Collect
  <2>5. QED
    BY <1>7, <2>1, <2>2, <2>3, <2>4 DEF Request
<1>8. CASE Fail \/ ProducerReturns \/ Cancel
  <2> HIDE DEF M, R, LC, LM, C
  <2>1. /\ pc' \in Points /\ done' \in Nat /\ producer' \in {"off", "sending", "closed"}
        /\ UNCHANGED <<dn, more, unsent, worker, results, firstError>>
    BY <1>8, <1>p DEF Fail, ProducerReturns, Cancel, Goto, pool
  <2>2. canceled' = canceled \/ canceled' = TRUE
    BY <1>8 DEF Fail, ProducerReturns, Cancel
  <2>3. QED
    BY <1>2, <2>1, <2>2
<1>9. ASSUME NEW w \in DOMAIN worker, Hand(w) \/ Inquire(w) \/ WorkerReturns(w)
      PROVE  /\ canceled' \in BOOLEAN /\ pc' \in Points /\ done' \in Nat
             /\ dn' \in Seq(LC) /\ more' \in Seq(LM)
             /\ unsent' \in SUBSET M /\ producer' \in {"off", "sending", "closed"}
             /\ worker' \in [DOMAIN worker' -> M \cup {"ready", "gone"}]
             /\ results' \in Seq(R) /\ firstError' \in BOOLEAN
  <2>1. /\ UNCHANGED <<canceled, pc, done, dn, more, producer, firstError>>
    BY <1>9 DEF Hand, Inquire, WorkerReturns
  <2>2. unsent' \in SUBSET M /\ \E v \in M \cup {"ready", "gone"} : worker' = [worker EXCEPT ![w] = v]
    <3> HIDE DEF M
    <3>1. QED
      BY <1>2, <1>9 DEF Hand, Inquire, WorkerReturns
  <2>3. worker' \in [DOMAIN worker' -> M \cup {"ready", "gone"}]
    <3> HIDE DEF M
    <3>1. QED
      BY <1>2, <2>2
  <2>4. results' \in Seq(R)
    <3>1. CASE Inquire(w)
      <4>1. worker[w] \in M
        BY <1>2, <3>1 DEF Inquire
      <4>2. GetCIF(worker[w]).cif \in M
        BY <1>h, <4>1 DEF GetCIF
      <4>3. M \subseteq CIFs(book.customers) \cup Holders
        BY DEF Missing
      <4>4. \A answer \in Answers(GetCIF(worker[w])) : DNRow(GetCIF(worker[w]), answer) \in LM
        BY <4>2, <4>3, DNRowType
      <4>5. \E r \in R : results' = Append(results, r)
        BY <1>3, <1>4, <3>1, <4>4 DEF Inquire
      <4> HIDE DEF R
      <4>6. QED
        BY <1>2, <4>5
    <3>2. CASE ~Inquire(w)
      BY <1>2, <1>9, <3>2 DEF Hand, WorkerReturns
    <3>3. QED
      BY <3>1, <3>2
  <2>5. QED
    BY <1>2, <2>1, <2>2, <2>3, <2>4
<1>10. CASE UNCHANGED vars
  <2> HIDE DEF M, R, LC, LM, C
  <2>1. QED
    BY <1>2, <1>10 DEF vars
<1>11. QED
  BY <1>7, <1>8, <1>9, <1>10 DEF Next

\* Every step keeps the DN lines those of the customers read so far.
LEMMA BuildStep ==
    ASSUME TypeOK, BuildInv, [Next]_vars PROVE BuildInv'
<1> DEFINE LC == Lines(CIFs(book.customers))
<1>1. Customers' = Customers
  BY BookKept
<1>2. dn \in Seq(LC) /\ done \in Nat
  BY DEF TypeOK
<1> HIDE DEF LC
<1>3. Len(dn) \in Nat /\ DOMAIN dn = 1..Len(dn)
  BY <1>2
<1>4. CASE BuildDN
  <2>1. CASE done = Len(Customers)
    <3>1. pc = "dn" /\ pc' = "accounts" /\ dn' = dn
      BY <1>4, <2>1 DEF BuildDN, Goto
    <3>2. QED
      BY <1>1, <2>1, <3>1 DEF BuildInv, Fetching, Written
  <2>2. CASE done # Len(Customers)
    <3>1. PICK answer \in Answers(Customers[done + 1]) :
              dn' = Append(dn, DNRow(Customers[done + 1], answer))
      BY <1>4, <2>2 DEF BuildDN
    <3>2. done + 1 \in DOMAIN Customers /\ done = Len(dn)
      BY <1>4, <2>2, NextCustomer DEF BuildDN
    <3>3. DNRow(Customers[done + 1], answer).cif = Customers[done + 1].cif
      BY DEF DNRow
    <3>4. pc = "dn" /\ pc' = "dn" /\ done' = done + 1
      BY <1>4, <2>2 DEF BuildDN
    <3> DEFINE row == DNRow(Customers[done + 1], answer)
    <3> HIDE DEF row
    <3>5. /\ Len(dn') = Len(dn) + 1 /\ DOMAIN dn' = 1..(Len(dn) + 1) /\ dn'[Len(dn) + 1] = row
          /\ \A i \in 1..Len(dn) : dn'[i] = dn[i]
      BY <1>2, <1>3, <3>1 DEF row
    <3>6. \A i \in DOMAIN dn' : i \in DOMAIN Customers /\ dn'[i].cif = Customers[i].cif
      <4> SUFFICES ASSUME NEW i \in DOMAIN dn'
                   PROVE  i \in DOMAIN Customers /\ dn'[i].cif = Customers[i].cif
        OBVIOUS
      <4>1. CASE i = done + 1
        BY <3>2, <3>3, <3>5, <4>1 DEF row
      <4>2. CASE i # done + 1
        <5>1. i \in DOMAIN dn /\ dn'[i] = dn[i]
          BY <1>3, <3>2, <3>5, <4>2
        <5>2. QED
          BY <5>1 DEF BuildInv
      <4>3. QED
        BY <4>1, <4>2
    <3>7. QED
      BY <1>1, <3>2, <3>4, <3>5, <3>6 DEF BuildInv, Fetching, Written
  <2>3. QED
    BY <2>1, <2>2
<1>5. CASE ~BuildDN
  <2>1. dn' = dn
    BY <1>5 DEF Next, Request, Fail, Validate, DownloadRates, Download, DownloadWhole, DownloadPart,
                ParseCustomers, StartPool, Collect, Collected, Archive, Answer, Hand,
                ProducerReturns, Inquire, WorkerReturns, Cancel, vars, pool
  <2>2. \/ pc' \in Fetching \cup {"parse"} /\ pc \in Fetching
        \/ pc = "parse" /\ pc' = "dn" /\ done' = 0
        \/ pc' = pc /\ done' = done
        \/ /\ pc \in {"accounts", "collect", "archive"} \cup Written
           /\ pc' \in {"accounts", "collect", "archive"} \cup Written
        \/ pc' = "failed"
    BY <1>5 DEF Next, Request, Fail, Validate, DownloadRates, Download, DownloadWhole, DownloadPart,
                ParseCustomers, StartPool, Collect, Collected, Archive, Answer, Hand, Fetching, Written,
                ProducerReturns, Inquire, WorkerReturns, Cancel, vars, pool, Goto
  <2>3. QED
    BY <1>1, <2>1, <2>2 DEF BuildInv, Fetching, Written
<1>6. QED
  BY <1>4, <1>5

\* Every step keeps the archive what was built.
LEMMA FileStep ==
    ASSUME FileInv, [Next]_vars PROVE FileInv'
<1>1. /\ WithAccount(Accounts)' = WithAccount(Accounts)
      /\ WithAccount(book.loans)' = WithAccount(book.loans)
  BY BookKept
<1>2. CASE Archive
  <2>1. pc' = "seek" /\ UNCHANGED <<detail, dn, more>>
    BY <1>2 DEF Archive, Goto
  <2>2. DKLines' = DKLines /\ FileContent(dn \o more)' = FileContent(dn \o more)
        /\ FileContent(WithAccount(Accounts))' = FileContent(WithAccount(Accounts))
    BY <1>1, <2>1 DEF DKLines, FileContent
  <2>3. FileContent(DKLines)' = FileContent(DKLines)
    BY <2>2 DEF FileContent
  <2>4. QED
    BY <1>2, <2>1, <2>2, <2>3 DEF FileInv, Archive, Written
<1>3. CASE Fail
  BY <1>3 DEF Fail, FileInv
<1>4. CASE ~Archive /\ ~Fail
  <2>1. file' = file /\ (pc \in Written => pc' \in Written /\ UNCHANGED <<detail, dn, more>>)
    BY <1>4 DEF Next, Request, Validate, DownloadRates, Download, DownloadWhole, DownloadPart,
                ParseCustomers, BuildDN, StartPool, Collect, Collected, Answer, Hand, Written,
                ProducerReturns, Inquire, WorkerReturns, Cancel, vars, pool, Goto
  <2>2. SUFFICES ASSUME file # None
                 PROVE  FileInv'
    BY <2>1 DEF FileInv
  <2>3. UNCHANGED <<detail, dn, more>>
    BY <2>1, <2>2 DEF FileInv
  <2>4. DKLines' = DKLines /\ FileContent(dn \o more)' = FileContent(dn \o more)
        /\ FileContent(WithAccount(Accounts))' = FileContent(WithAccount(Accounts))
    BY <1>1, <2>3 DEF DKLines, FileContent
  <2>5. FileContent(DKLines)' = FileContent(DKLines)
    BY <2>4 DEF FileContent
  <2>6. QED
    BY <2>1, <2>2, <2>4, <2>5 DEF FileInv
<1>5. QED
  BY <1>2, <1>3, <1>4

-----------------------------------------------------------------------------
(* The pool: where a missing customer is before and after each step.       *)

\* The parts of the types that the pool's steps use.
LEMMA PoolTypes ==
    ASSUME TypeOK
    PROVE  /\ more \in Seq(Lines(Missing)) /\ results \in Seq(Results) /\ unsent \subseteq Missing
           /\ Len(more) \in Nat /\ DOMAIN more = 1..Len(more)
           /\ Len(results) \in Nat /\ DOMAIN results = 1..Len(results)
           /\ worker \in [DOMAIN worker -> Missing \cup {"ready", "gone"}]
           /\ "ready" \notin Missing /\ "gone" \notin Missing
           /\ \A i \in DOMAIN more : more[i].cif \in Missing
           /\ \A i \in DOMAIN results : results[i] \in Results
           /\ \A r \in Results : r.ok => r.row \in Lines(Missing) /\ r.row.cif \in Missing
<1> DEFINE LM == Lines(Missing)
<1>1. more \in Seq(LM) /\ results \in Seq(Results) /\ unsent \subseteq Missing
      /\ worker \in [DOMAIN worker -> Missing \cup {"ready", "gone"}]
  BY DEF TypeOK
<1>2. "ready" \notin Missing /\ "gone" \notin Missing
  BY MissingWell DEF TypeOK
<1>3. \A l \in LM : l.cif \in Missing
  BY DEF Lines
<1>4. \A r \in Results : r.ok => r.row \in LM
  BY DEF Results
<1> HIDE DEF LM
<1>5. /\ Len(more) \in Nat /\ DOMAIN more = 1..Len(more)
      /\ Len(results) \in Nat /\ DOMAIN results = 1..Len(results)
      /\ \A i \in DOMAIN more : more[i] \in LM
      /\ \A i \in DOMAIN results : results[i] \in Results
  BY <1>1
<1>6. QED
  BY <1>1, <1>2, <1>3, <1>4, <1>5 DEF LM

\* A customer goes from the producer to a worker.
LEMMA HandMoves ==
    ASSUME TypeOK, NEW w \in DOMAIN worker, Hand(w)
    PROVE  \E cif \in unsent :
              /\ unsent' = unsent \ {cif} /\ worker' = [worker EXCEPT ![w] = cif]
              /\ \A c \in Missing : Held(c)' <=> Held(c) \/ c = cif
<1>1. PICK cif \in unsent : unsent' = unsent \ {cif} /\ worker' = [worker EXCEPT ![w] = cif]
  BY DEF Hand
<1>2. worker[w] = "ready" /\ "ready" \notin Missing /\ worker \in [DOMAIN worker -> Missing \cup {"ready", "gone"}]
  BY PoolTypes DEF Hand
<1>3. DOMAIN worker' = DOMAIN worker /\ worker'[w] = cif
      /\ \A v \in DOMAIN worker : v # w => worker'[v] = worker[v]
  BY <1>1, <1>2
<1>4. ASSUME NEW c \in Missing PROVE Held(c)' <=> Held(c) \/ c = cif
  BY <1>2, <1>3 DEF Held
<1>5. QED
  BY <1>1, <1>4

\* A worker has no customer any more.
LEMMA Released ==
    ASSUME TypeOK, OnceInv, NEW w \in DOMAIN worker, NEW v \in {"ready", "gone"},
           worker' = [worker EXCEPT ![w] = v]
    PROVE  \A c \in Missing : Held(c)' <=> Held(c) /\ c # worker[w]
<1>1. /\ v \notin Missing /\ worker \in [DOMAIN worker -> Missing \cup {"ready", "gone"}]
  BY PoolTypes
<1>2. DOMAIN worker' = DOMAIN worker /\ worker'[w] = v
      /\ \A u \in DOMAIN worker : u # w => worker'[u] = worker[u]
  BY <1>1
<1>3. \A u \in DOMAIN worker : worker[u] = worker[w] /\ worker[u] \in Missing => u = w
  BY DEF OnceInv
<1>4. ASSUME NEW c \in Missing PROVE Held(c)' <=> Held(c) /\ c # worker[w]
  <2>1. ASSUME Held(c)' PROVE Held(c) /\ c # worker[w]
    <3>1. PICK u \in DOMAIN worker' : worker'[u] = c
      BY <2>1 DEF Held
    <3>2. u # w /\ worker[u] = c
      BY <1>1, <1>2, <3>1
    <3>3. QED
      BY <1>2, <1>3, <3>1, <3>2 DEF Held
  <2>2. ASSUME Held(c), c # worker[w] PROVE Held(c)'
    <3>1. PICK u \in DOMAIN worker : worker[u] = c
      BY <2>2 DEF Held
    <3>2. QED
      BY <1>2, <2>2, <3>1 DEF Held
  <2>3. QED
    BY <2>1, <2>2
<1>5. QED
  BY <1>4

\* A customer goes from a worker to the channel, or an error does.
LEMMA InquireMoves ==
    ASSUME TypeOK, OnceInv, NEW w \in DOMAIN worker, Inquire(w)
    PROVE  /\ worker[w] \in Missing /\ Held(worker[w])
           /\ \A c \in Missing : Held(c)' <=> Held(c) /\ c # worker[w]
           /\ \/ results' = Append(results, [ok |-> FALSE])
              \/ \E row \in Lines(Missing) :
                    row.cif = worker[w] /\ results' = Append(results, [ok |-> TRUE, row |-> row])
<1>1. worker[w] \in Missing /\ Held(worker[w])
  BY PoolTypes DEF Inquire, Held
<1>2. \A c \in Missing : Held(c)' <=> Held(c) /\ c # worker[w]
  BY Released DEF Inquire
<1>3. GetCIF(worker[w]).cif = worker[w]
  BY <1>1, MissingWell DEF GetCIF, TypeOK
<1>4. Missing \subseteq CIFs(book.customers) \cup Holders
  BY DEF Missing
<1>5. \A answer \in Answers(GetCIF(worker[w])) :
         /\ DNRow(GetCIF(worker[w]), answer) \in Lines(Missing)
         /\ DNRow(GetCIF(worker[w]), answer).cif = worker[w]
  BY <1>1, <1>3, <1>4, DNRowType
<1>6. QED
  BY <1>1, <1>2, <1>5 DEF Inquire

\* What a result more does to the channel.
LEMMA SentMoves ==
    ASSUME TypeOK, NEW r \in Results, results' = Append(results, r)
    PROVE  /\ DOMAIN results' = 1..(Len(results) + 1) /\ results'[Len(results) + 1] = r
           /\ \A i \in DOMAIN results : i # Len(results) + 1 /\ i \in DOMAIN results' /\ results'[i] = results[i]
           /\ \A i \in DOMAIN results' : i \in DOMAIN results \/ i = Len(results) + 1
           /\ \A c \in Missing : InChannel(c)' <=> InChannel(c) \/ (r.ok /\ r.row.cif = c)
<1>1. results \in Seq(Results) /\ Len(results) \in Nat /\ DOMAIN results = 1..Len(results)
  BY PoolTypes
<1>2. /\ DOMAIN results' = 1..(Len(results) + 1) /\ results'[Len(results) + 1] = r
      /\ \A i \in DOMAIN results : i # Len(results) + 1 /\ i \in DOMAIN results' /\ results'[i] = results[i]
      /\ \A i \in DOMAIN results' : i \in DOMAIN results \/ i = Len(results) + 1
  BY <1>1
<1>3. Len(results) + 1 \in DOMAIN results'
  BY <1>1, <1>2
<1>4. ASSUME NEW c \in Missing PROVE InChannel(c)' <=> InChannel(c) \/ (r.ok /\ r.row.cif = c)
  BY <1>2, <1>3 DEF InChannel
<1>5. QED
  BY <1>2, <1>4

\* A customer goes from the channel to the lines, or an error is noted.
LEMMA CollectMoves ==
    ASSUME TypeOK, OnceInv, Collect
    PROVE  LET r == results[1]
           IN  /\ r \in Results /\ 1 \in DOMAIN results
               /\ \A i \in DOMAIN results' : i + 1 \in DOMAIN results /\ results'[i] = results[i + 1]
               /\ \A i \in DOMAIN results : i # 1 => i - 1 \in DOMAIN results' /\ results'[i - 1] = results[i]
               /\ r.ok => /\ r.row \in Lines(Missing) /\ r.row.cif \in Missing /\ InChannel(r.row.cif)
                          /\ more' = Append(more, r.row) /\ firstError' = firstError
               /\ ~r.ok => more' = more /\ firstError' = TRUE
               /\ \A c \in Missing : InChannel(c)' <=> InChannel(c) /\ ~(r.ok /\ r.row.cif = c)
<1> DEFINE r == results[1]
<1>1. results \in Seq(Results) /\ Len(results) \in Nat /\ DOMAIN results = 1..Len(results)
  BY PoolTypes
<1>2. results # << >> /\ results' = Tail(results)
  BY DEF Collect
<1>3. Head(results) = r /\ r \in Results /\ 1 \in DOMAIN results /\ Len(results) >= 1
  BY <1>1, <1>2
<1>4. Len(results') = Len(results) - 1 /\ DOMAIN results' = 1..(Len(results) - 1)
      /\ \A i \in DOMAIN results' : results'[i] = results[i + 1]
  BY <1>1, <1>2, <1>3
<1>5. /\ \A i \in DOMAIN results' : i + 1 \in DOMAIN results /\ results'[i] = results[i + 1] /\ i + 1 # 1
      /\ \A i \in DOMAIN results : i # 1 => i - 1 \in DOMAIN results' /\ results'[i - 1] = results[i]
  <2>1. ASSUME NEW i \in DOMAIN results, i # 1 PROVE i - 1 \in DOMAIN results' /\ results'[i - 1] = results[i]
    <3>1. i - 1 \in DOMAIN results' /\ (i - 1) + 1 = i
      BY <1>1, <1>3, <1>4, <2>1
    <3>2. QED
      BY <1>4, <3>1
  <2>2. QED
    BY <1>1, <1>3, <1>4, <2>1
<1>6. r.ok => r.row \in Lines(Missing) /\ r.row.cif \in Missing /\ InChannel(r.row.cif)
  BY <1>3, PoolTypes DEF InChannel
<1>7. /\ r.ok => more' = Append(more, r.row) /\ firstError' = firstError
      /\ ~r.ok => more' = more /\ firstError' = TRUE
  BY <1>3 DEF Collect
<1>8. \A i, j \in DOMAIN results :
         results[i].ok /\ results[j].ok /\ results[i].row.cif = results[j].row.cif => i = j
  BY DEF OnceInv
<1>9. ASSUME NEW c \in Missing PROVE InChannel(c)' <=> InChannel(c) /\ ~(r.ok /\ r.row.cif = c)
  <2>1. ASSUME InChannel(c)' PROVE InChannel(c) /\ ~(r.ok /\ r.row.cif = c)
    <3>1. PICK i \in DOMAIN results' : results'[i].ok /\ results'[i].row.cif = c
      BY <2>1 DEF InChannel
    <3>2. i + 1 \in DOMAIN results /\ results[i + 1].ok /\ results[i + 1].row.cif = c /\ i + 1 # 1
      BY <1>5, <3>1
    <3>3. QED
      BY <1>3, <1>8, <3>2 DEF InChannel
  <2>2. ASSUME InChannel(c), ~(r.ok /\ r.row.cif = c) PROVE InChannel(c)'
    <3>1. PICK i \in DOMAIN results : results[i].ok /\ results[i].row.cif = c
      BY <2>2 DEF InChannel
    <3>2. i - 1 \in DOMAIN results' /\ results'[i - 1] = results[i]
      BY <1>5, <2>2, <3>1
    <3>3. QED
      BY <3>1, <3>2 DEF InChannel
  <2>3. QED
    BY <2>1, <2>2
<1> HIDE DEF r
<1>10. QED
  BY <1>3, <1>5, <1>6, <1>7, <1>9 DEF r

\* What a line more does to the lines collected.
LEMMA TakenMoves ==
    ASSUME TypeOK, NEW row \in Lines(Missing), more' = Append(more, row)
    PROVE  /\ DOMAIN more' = 1..(Len(more) + 1) /\ more'[Len(more) + 1] = row
           /\ \A i \in DOMAIN more : i # Len(more) + 1 /\ i \in DOMAIN more' /\ more'[i] = more[i]
           /\ \A i \in DOMAIN more' : i \in DOMAIN more \/ i = Len(more) + 1
           /\ \A c \in Missing : Taken(c)' <=> Taken(c) \/ row.cif = c
<1> DEFINE LM == Lines(Missing)
<1>1. more \in Seq(LM) /\ row \in LM /\ Len(more) \in Nat /\ DOMAIN more = 1..Len(more)
  BY PoolTypes
<1> HIDE DEF LM
<1>2. /\ DOMAIN more' = 1..(Len(more) + 1) /\ more'[Len(more) + 1] = row
      /\ \A i \in DOMAIN more : i # Len(more) + 1 /\ i \in DOMAIN more' /\ more'[i] = more[i]
      /\ \A i \in DOMAIN more' : i \in DOMAIN more \/ i = Len(more) + 1
  BY <1>1
<1>3. Len(more) + 1 \in DOMAIN more'
  BY <1>1, <1>2
<1>4. ASSUME NEW c \in Missing PROVE Taken(c)' <=> Taken(c) \/ row.cif = c
  BY <1>2, <1>3 DEF Taken
<1>5. QED
  BY <1>2, <1>4

\* Nothing happens in the pool before it is started.
LEMMA PoolRuns ==
    ASSUME OnceInv, DOMAIN worker # {} \/ results # << >>
    PROVE  pc \notin Before
  BY DEF OnceInv

\* Every step keeps a customer from being handled twice.
LEMMA OnceStep ==
    ASSUME TypeOK, OnceInv, [Next]_vars PROVE OnceInv'
<1>1. Missing' = Missing
  BY BookKept
<1>2. CASE StartPool /\ Missing # {}
  <2>1. more = << >> /\ results = << >>
    BY <1>2 DEF StartPool, OnceInv, Before
  <2>2. /\ pc' = "collect" /\ unsent' = Missing /\ more' = << >> /\ results' = << >>
        /\ worker' = [w \in DOMAIN worker' |-> "ready"]
    BY <1>2, <2>1 DEF StartPool, Goto
  <2>3. "ready" \notin Missing
    BY PoolTypes
  <2>4. \A c \in Missing : ~Held(c)' /\ ~InChannel(c)' /\ ~Taken(c)'
    BY <2>2, <2>3 DEF Held, InChannel, Taken
  <2>5. pc' \notin Before
    BY <2>2 DEF Before, Fetching
  <2>6. QED
    BY <1>1, <2>2, <2>3, <2>4, <2>5 DEF OnceInv
<1>3. CASE Collect
  <2>1. /\ pc' \notin Before /\ UNCHANGED <<unsent, worker>>
    BY <1>3, PoolRuns DEF Collect
  <2>2. \A c \in Missing : Held(c)' <=> Held(c)
    BY <2>1 DEF Held
  <2> DEFINE r == results[1]
  <2>3. /\ r \in Results /\ 1 \in DOMAIN results
        /\ \A i \in DOMAIN results' : i + 1 \in DOMAIN results /\ results'[i] = results[i + 1]
        /\ r.ok => /\ r.row \in Lines(Missing) /\ r.row.cif \in Missing /\ InChannel(r.row.cif)
                   /\ more' = Append(more, r.row)
        /\ ~r.ok => more' = more
        /\ \A c \in Missing : InChannel(c)' <=> InChannel(c) /\ ~(r.ok /\ r.row.cif = c)
    BY <1>3, CollectMoves
  <2>4. \A i, j \in DOMAIN results' :
           results'[i].ok /\ results'[j].ok /\ results'[i].row.cif = results'[j].row.cif => i = j
    <3> SUFFICES ASSUME NEW i \in DOMAIN results', NEW j \in DOMAIN results', results'[i].ok, results'[j].ok,
                        results'[i].row.cif = results'[j].row.cif
                 PROVE  i = j
      OBVIOUS
    <3>1. i + 1 = j + 1
      BY <2>3 DEF OnceInv
    <3>2. i \in Nat /\ j \in Nat
      BY <1>3, PoolTypes DEF Collect
    <3>3. QED
      BY <3>1, <3>2
  <2>5. unsent \subseteq Missing
    BY PoolTypes
  <2> HIDE DEF r
  <2>6. CASE r.ok
    <3>1. /\ \A i \in DOMAIN more' : i \in DOMAIN more \/ i = Len(more) + 1
          /\ \A i \in DOMAIN more : more'[i] = more[i]
          /\ more'[Len(more) + 1] = r.row
          /\ \A c \in Missing : Taken(c)' <=> Taken(c) \/ r.row.cif = c
      BY <2>3, <2>6, TakenMoves
    <3>2. ~Taken(r.row.cif) /\ r.row.cif \notin unsent /\ ~Held(r.row.cif)
      BY <2>3, <2>6 DEF OnceInv
    <3>3. \A i \in DOMAIN more : more[i].cif # r.row.cif
      BY <3>2 DEF Taken
    <3>4. \A i, j \in DOMAIN more' : more'[i].cif = more'[j].cif => i = j
      BY <3>1, <3>3 DEF OnceInv
    <3>5. /\ \A c \in unsent' : ~Held(c)' /\ ~InChannel(c)' /\ ~Taken(c)'
          /\ \A c \in Missing : (Held(c)' => ~InChannel(c)' /\ ~Taken(c)') /\ (InChannel(c)' => ~Taken(c)')
      <4>1. \A c \in Missing : InChannel(c)' <=> InChannel(c) /\ r.row.cif # c
        BY <2>3, <2>6
      <4>2. \A c \in Missing : Taken(c)' <=> Taken(c) \/ r.row.cif = c
        BY <3>1
      <4>3. /\ \A c \in unsent : ~Held(c) /\ ~InChannel(c) /\ ~Taken(c)
            /\ \A c \in Missing : (Held(c) => ~InChannel(c) /\ ~Taken(c)) /\ (InChannel(c) => ~Taken(c))
        BY DEF OnceInv
      <4>4. unsent' = unsent
        BY <2>1
      <4>5. ASSUME NEW c \in unsent' PROVE ~Held(c)' /\ ~InChannel(c)' /\ ~Taken(c)'
        BY <2>2, <2>5, <3>2, <4>1, <4>2, <4>3, <4>4
      <4>6. ASSUME NEW c \in Missing
            PROVE  (Held(c)' => ~InChannel(c)' /\ ~Taken(c)') /\ (InChannel(c)' => ~Taken(c)')
        BY <2>2, <3>2, <4>1, <4>2, <4>3
      <4>7. QED
        BY <4>5, <4>6
    <3>6. QED
      BY <1>1, <2>1, <2>4, <3>4, <3>5 DEF OnceInv
  <2>7. CASE ~r.ok
    <3>1. more' = more /\ \A c \in Missing : Taken(c)' <=> Taken(c)
      BY <2>3, <2>7 DEF Taken
    <3>2. /\ \A c \in unsent' : ~Held(c)' /\ ~InChannel(c)' /\ ~Taken(c)'
          /\ \A c \in Missing : (Held(c)' => ~InChannel(c)' /\ ~Taken(c)') /\ (InChannel(c)' => ~Taken(c)')
      BY <2>1, <2>2, <2>3, <2>5, <3>1 DEF OnceInv
    <3>3. QED
      BY <1>1, <2>1, <2>4, <3>1, <3>2 DEF OnceInv
  <2>8. QED
    BY <2>6, <2>7
<1>4. ASSUME NEW w \in DOMAIN worker, Hand(w) PROVE OnceInv'
  <2>1. pc' \notin Before /\ UNCHANGED <<more, results>>
    BY <1>4, PoolRuns DEF Hand
  <2>2. PICK cif \in unsent : /\ unsent' = unsent \ {cif} /\ worker' = [worker EXCEPT ![w] = cif]
                              /\ \A c \in Missing : Held(c)' <=> Held(c) \/ c = cif
    BY <1>4, HandMoves
  <2>3. worker \in [DOMAIN worker -> Missing \cup {"ready", "gone"}] /\ unsent \subseteq Missing
    BY PoolTypes
  <2>4. \A c \in Missing : (InChannel(c)' <=> InChannel(c)) /\ (Taken(c)' <=> Taken(c))
    BY <2>1 DEF InChannel, Taken
  <2>5. ~Held(cif) /\ ~InChannel(cif) /\ ~Taken(cif)
    BY DEF OnceInv
  <2>6. \A v \in DOMAIN worker : worker[v] # cif
    BY <2>5 DEF Held
  <2>7. \A v, u \in DOMAIN worker' : worker'[v] = worker'[u] /\ worker'[v] \in Missing => v = u
    BY <2>2, <2>3, <2>6 DEF OnceInv
  <2>8. /\ \A c \in unsent' : ~Held(c)' /\ ~InChannel(c)' /\ ~Taken(c)'
        /\ \A c \in Missing : (Held(c)' => ~InChannel(c)' /\ ~Taken(c)') /\ (InChannel(c)' => ~Taken(c)')
    BY <2>2, <2>3, <2>4, <2>5 DEF OnceInv
  <2>9. QED
    BY <1>1, <2>1, <2>7, <2>8 DEF OnceInv
<1>5. ASSUME NEW w \in DOMAIN worker, Inquire(w) PROVE OnceInv'
  <2>1. pc' \notin Before /\ UNCHANGED <<more, unsent>> /\ worker' = [worker EXCEPT ![w] = "ready"]
    BY <1>5, PoolRuns DEF Inquire
  <2>2. /\ worker[w] \in Missing /\ Held(worker[w])
        /\ \A c \in Missing : Held(c)' <=> Held(c) /\ c # worker[w]
        /\ \/ results' = Append(results, [ok |-> FALSE])
           \/ \E row \in Lines(Missing) :
                 row.cif = worker[w] /\ results' = Append(results, [ok |-> TRUE, row |-> row])
    BY <1>5, InquireMoves
  <2>3. PICK r \in Results : results' = Append(results, r) /\ (r.ok => r.row.cif = worker[w])
    <3>1. CASE results' = Append(results, [ok |-> FALSE])
      <4>1. [ok |-> FALSE] \in Results /\ ~[ok |-> FALSE].ok
        BY DEF Results
      <4>2. QED
        BY <3>1, <4>1
    <3>2. CASE \E row \in Lines(Missing) :
                 row.cif = worker[w] /\ results' = Append(results, [ok |-> TRUE, row |-> row])
      <4>1. PICK row \in Lines(Missing) :
                 row.cif = worker[w] /\ results' = Append(results, [ok |-> TRUE, row |-> row])
        BY <3>2
      <4>2. [ok |-> TRUE, row |-> row] \in Results /\ [ok |-> TRUE, row |-> row].row = row
        BY DEF Results
      <4>3. QED
        BY <4>1, <4>2
    <3>3. QED
      BY <2>2, <3>1, <3>2
  <2>4. /\ results'[Len(results) + 1] = r
        /\ \A i \in DOMAIN results : results'[i] = results[i]
        /\ \A i \in DOMAIN results' : i \in DOMAIN results \/ i = Len(results) + 1
        /\ \A c \in Missing : InChannel(c)' <=> InChannel(c) \/ (r.ok /\ r.row.cif = c)
    BY <2>3, SentMoves
  <2>5. /\ worker \in [DOMAIN worker -> Missing \cup {"ready", "gone"}] /\ unsent \subseteq Missing
        /\ "ready" \notin Missing
    BY PoolTypes
  <2>6. \A c \in Missing : Taken(c)' <=> Taken(c)
    BY <2>1 DEF Taken
  <2>7. ~InChannel(worker[w]) /\ ~Taken(worker[w]) /\ worker[w] \notin unsent
    BY <2>2 DEF OnceInv
  <2>8. \A i \in DOMAIN results : results[i].ok => results[i].row.cif # worker[w]
    BY <2>7 DEF InChannel
  <2>9. \A i, j \in DOMAIN results' :
           results'[i].ok /\ results'[j].ok /\ results'[i].row.cif = results'[j].row.cif => i = j
    BY <2>3, <2>4, <2>8 DEF OnceInv
  <2>10. \A v, u \in DOMAIN worker' : worker'[v] = worker'[u] /\ worker'[v] \in Missing => v = u
    BY <2>1, <2>5 DEF OnceInv
  <2>11. /\ \A c \in unsent' : ~Held(c)' /\ ~InChannel(c)' /\ ~Taken(c)'
         /\ \A c \in Missing : (Held(c)' => ~InChannel(c)' /\ ~Taken(c)') /\ (InChannel(c)' => ~Taken(c)')
    BY <2>1, <2>2, <2>3, <2>4, <2>5, <2>6, <2>7 DEF OnceInv
  <2>12. QED
    BY <1>1, <2>1, <2>9, <2>10, <2>11 DEF OnceInv
<1>6. ASSUME NEW w \in DOMAIN worker, WorkerReturns(w) PROVE OnceInv'
  <2>1. /\ pc' \notin Before /\ UNCHANGED <<more, results, unsent>> /\ worker[w] = "ready"
        /\ worker' = [worker EXCEPT ![w] = "gone"]
    BY <1>6, PoolRuns DEF WorkerReturns
  <2>2. \A c \in Missing : Held(c)' <=> Held(c) /\ c # worker[w]
    BY <2>1, Released
  <2>3. \A c \in Missing : (InChannel(c)' <=> InChannel(c)) /\ (Taken(c)' <=> Taken(c))
    BY <2>1 DEF InChannel, Taken
  <2>4. /\ worker \in [DOMAIN worker -> Missing \cup {"ready", "gone"}] /\ unsent \subseteq Missing
        /\ "gone" \notin Missing
    BY PoolTypes
  <2>5. \A v, u \in DOMAIN worker' : worker'[v] = worker'[u] /\ worker'[v] \in Missing => v = u
    BY <2>1, <2>4 DEF OnceInv
  <2>6. /\ \A c \in unsent' : ~Held(c)' /\ ~InChannel(c)' /\ ~Taken(c)'
        /\ \A c \in Missing : (Held(c)' => ~InChannel(c)' /\ ~Taken(c)') /\ (InChannel(c)' => ~Taken(c)')
    BY <2>1, <2>2, <2>3, <2>4 DEF OnceInv
  <2>7. QED
    BY <1>1, <2>1, <2>5, <2>6 DEF OnceInv
<1>7. ASSUME UNCHANGED <<more, results, worker, unsent>>, pc' \in Before => pc \in Before
      PROVE  OnceInv'
  <2>1. \A c \in Missing : (Held(c)' <=> Held(c)) /\ (InChannel(c)' <=> InChannel(c)) /\ (Taken(c)' <=> Taken(c))
    BY <1>7 DEF Held, InChannel, Taken
  <2>2. unsent \subseteq Missing
    BY PoolTypes
  <2>3. /\ \A c \in unsent' : ~Held(c)' /\ ~InChannel(c)' /\ ~Taken(c)'
        /\ \A c \in Missing : (Held(c)' => ~InChannel(c)' /\ ~Taken(c)') /\ (InChannel(c)' => ~Taken(c)')
    BY <1>7, <2>1, <2>2 DEF OnceInv
  <2>4. QED
    BY <1>1, <1>7, <2>3 DEF OnceInv
<1>8. CASE \/ Validate \/ DownloadRates \/ Download \/ DownloadWhole \/ DownloadPart \/ ParseCustomers
           \/ BuildDN \/ Collected \/ Archive \/ Answer \/ Fail \/ ProducerReturns \/ Cancel
           \/ (StartPool /\ Missing = {}) \/ UNCHANGED vars
  <2>1. UNCHANGED <<more, results, worker, unsent>> /\ (pc' \in Before => pc \in Before)
    BY <1>8 DEF Validate, DownloadRates, Download, DownloadWhole, DownloadPart, ParseCustomers, BuildDN,
                Collected, Archive, Answer, Fail, ProducerReturns, Cancel, StartPool, vars, pool, Goto,
                Before, Fetching
  <2>2. QED
    BY <1>7, <2>1
<1>9. QED
  BY <1>2, <1>3, <1>4, <1>5, <1>6, <1>8 DEF Next, Request

\* Every step keeps each customer on its way until an error or a cancellation.
LEMMA NoneLostStep ==
    ASSUME TypeOK, OnceInv, NoneLostInv, [Next]_vars PROVE NoneLostInv'
<1>1. Missing' = Missing
  BY BookKept
<1>2. CASE StartPool /\ Missing # {}
  <2>1. /\ pc' = "collect" /\ unsent' = Missing /\ producer' = "sending"
        /\ worker' = [w \in DOMAIN worker' |-> "ready"]
    BY <1>2 DEF StartPool, Goto
  <2>2. DOMAIN worker' # {}
    <3> DEFINE n == IF Cardinality(Missing) < PoolSize THEN Cardinality(Missing) ELSE PoolSize
    <3>1. 1 \in 1..n
      BY <1>2, PoolStarts DEF TypeOK
    <3>2. DOMAIN worker' = 1..n
      BY <1>2 DEF StartPool
    <3> HIDE DEF n
    <3>3. QED
      BY <3>1, <3>2
  <2>3. QED
    BY <1>1, <2>1, <2>2 DEF NoneLostInv, Before, Fetching, Written
<1>3. CASE Collect
  <2>1. /\ pc' = pc /\ pc = "collect" /\ UNCHANGED <<canceled, unsent, producer, worker>>
    BY <1>3 DEF Collect
  <2>2. \A c \in Missing : Held(c)' <=> Held(c)
    BY <2>1 DEF Held
  <2> DEFINE r == results[1]
  <2>3. /\ r \in Results /\ 1 \in DOMAIN results
        /\ \A i \in DOMAIN results : i # 1 => i - 1 \in DOMAIN results' /\ results'[i - 1] = results[i]
        /\ r.ok => /\ r.row \in Lines(Missing) /\ r.row.cif \in Missing
                   /\ more' = Append(more, r.row) /\ firstError' = firstError
        /\ ~r.ok => firstError' = TRUE
        /\ \A c \in Missing : InChannel(c)' <=> InChannel(c) /\ ~(r.ok /\ r.row.cif = c)
    BY <1>3, CollectMoves
  <2>4. ASSUME ~firstError', \A i \in DOMAIN results' : results'[i].ok, NEW c \in Missing
        PROVE  c \in unsent' \/ Held(c)' \/ InChannel(c)' \/ Taken(c)'
    <3>1. r.ok
      BY <2>3, <2>4
    <3>2. \A i \in DOMAIN results : results[i].ok
      BY <2>3, <2>4, <3>1
    <3>3. c \in unsent \/ Held(c) \/ InChannel(c) \/ Taken(c)
      BY <2>1, <2>3, <2>4, <3>1, <3>2 DEF NoneLostInv
    <3> HIDE DEF r
    <3>4. Taken(c)' <=> Taken(c) \/ r.row.cif = c
      BY <2>3, <3>1, TakenMoves
    <3>5. InChannel(c)' <=> InChannel(c) /\ r.row.cif # c
      BY <2>3, <3>1
    <3>6. QED
      BY <2>1, <2>2, <3>3, <3>4, <3>5
  <2>5. QED
    BY <1>1, <2>1, <2>4 DEF NoneLostInv, Before, Fetching, Written
<1>4. CASE Collected
  <2>1. /\ pc = "collect" /\ results = << >> /\ \A w \in DOMAIN worker : worker[w] = "gone"
        /\ UNCHANGED <<canceled, unsent, producer, worker, results, firstError, more>>
        /\ pc' = IF firstError \/ canceled THEN "failed" ELSE "archive"
    BY <1>4 DEF Collected, Goto, pool
  <2>2. \A c \in Missing : Taken(c)' <=> Taken(c)
    BY <2>1 DEF Taken
  <2>3. ASSUME ~firstError, ~canceled, NEW c \in Missing PROVE Taken(c)
    <3>1. producer = "closed"
      BY <2>1 DEF NoneLostInv
    <3>2. c \notin unsent
      BY <2>3, <3>1 DEF NoneLostInv
    <3>3. ~Held(c) /\ ~InChannel(c)
      BY <2>1, PoolTypes DEF Held, InChannel
    <3>4. QED
      BY <2>1, <2>3, <3>2, <3>3 DEF NoneLostInv
  <2>4. QED
    BY <1>1, <2>1, <2>2, <2>3 DEF NoneLostInv, Before, Fetching, Written
<1>5. ASSUME NEW w \in DOMAIN worker, Hand(w) PROVE NoneLostInv'
  <2>1. /\ UNCHANGED <<canceled, pc, more, producer, results, firstError>> /\ producer = "sending"
    BY <1>5 DEF Hand
  <2>2. PICK cif \in unsent : /\ unsent' = unsent \ {cif} /\ worker' = [worker EXCEPT ![w] = cif]
                              /\ \A c \in Missing : Held(c)' <=> Held(c) \/ c = cif
    BY <1>5, HandMoves
  <2>3. /\ worker \in [DOMAIN worker -> Missing \cup {"ready", "gone"}] /\ unsent \subseteq Missing
        /\ "gone" \notin Missing
    BY PoolTypes
  <2>4. \A c \in Missing : (InChannel(c)' <=> InChannel(c)) /\ (Taken(c)' <=> Taken(c))
    BY <2>1 DEF InChannel, Taken
  <2>5. DOMAIN worker' = DOMAIN worker /\ \A v \in DOMAIN worker : worker'[v] = "gone" => worker[v] = "gone"
    BY <2>2, <2>3
  <2>6. QED
    BY <1>1, <2>1, <2>2, <2>4, <2>5 DEF NoneLostInv
<1>6. ASSUME NEW w \in DOMAIN worker, Inquire(w) PROVE NoneLostInv'
  <2>1. /\ UNCHANGED <<canceled, pc, more, unsent, producer, firstError>>
        /\ worker' = [worker EXCEPT ![w] = "ready"]
    BY <1>6 DEF Inquire
  <2>2. /\ worker[w] \in Missing /\ Held(worker[w])
        /\ \A c \in Missing : Held(c)' <=> Held(c) /\ c # worker[w]
        /\ \/ results' = Append(results, [ok |-> FALSE])
           \/ \E row \in Lines(Missing) :
                 row.cif = worker[w] /\ results' = Append(results, [ok |-> TRUE, row |-> row])
    BY <1>6, InquireMoves
  <2>3. \A c \in Missing : Taken(c)' <=> Taken(c)
    BY <2>1 DEF Taken
  <2>4. /\ DOMAIN worker' = DOMAIN worker
        /\ \A v \in DOMAIN worker : worker'[v] = "gone" => worker[v] = "gone"
    BY <2>1, PoolTypes
  <2>5. ASSUME pc = "collect", ~firstError, \A i \in DOMAIN results' : results'[i].ok, NEW c \in Missing
        PROVE  c \in unsent' \/ Held(c)' \/ InChannel(c)' \/ Taken(c)'
    <3>1. CASE results' = Append(results, [ok |-> FALSE])
      <4>1. [ok |-> FALSE] \in Results /\ ~[ok |-> FALSE].ok
        BY DEF Results
      <4>2. results'[Len(results) + 1] = [ok |-> FALSE] /\ Len(results) + 1 \in DOMAIN results'
        BY <3>1, <4>1, SentMoves, PoolTypes
      <4>3. QED
        BY <2>5, <4>1, <4>2
    <3>2. CASE \E row \in Lines(Missing) :
                 row.cif = worker[w] /\ results' = Append(results, [ok |-> TRUE, row |-> row])
      <4>1. PICK row \in Lines(Missing) :
                 row.cif = worker[w] /\ results' = Append(results, [ok |-> TRUE, row |-> row])
        BY <3>2
      <4> DEFINE r == [ok |-> TRUE, row |-> row]
      <4>2. r \in Results /\ r.row = row /\ r.ok
        BY DEF Results
      <4> HIDE DEF r
      <4>3. /\ \A i \in DOMAIN results : i \in DOMAIN results' /\ results'[i] = results[i]
            /\ \A d \in Missing : InChannel(d)' <=> InChannel(d) \/ (r.ok /\ r.row.cif = d)
        BY <4>1, <4>2, SentMoves DEF r
      <4>4. \A i \in DOMAIN results : results[i].ok
        BY <2>5, <4>3
      <4>5. c \in unsent \/ Held(c) \/ InChannel(c) \/ Taken(c)
        BY <2>5, <4>4 DEF NoneLostInv
      <4>6. InChannel(c)' <=> InChannel(c) \/ worker[w] = c
        BY <4>1, <4>2, <4>3
      <4>7. QED
        BY <2>1, <2>2, <2>3, <4>5, <4>6
    <3>3. QED
      BY <2>2, <3>1, <3>2
  <2>6. QED
    BY <1>1, <2>1, <2>3, <2>4, <2>5 DEF NoneLostInv
<1>7. ASSUME NEW w \in DOMAIN worker, WorkerReturns(w) PROVE NoneLostInv'
  <2>1. /\ UNCHANGED <<canceled, pc, more, unsent, producer, results, firstError>>
        /\ worker[w] = "ready" /\ producer = "closed" /\ worker' = [worker EXCEPT ![w] = "gone"]
    BY <1>7 DEF WorkerReturns
  <2>2. \A c \in Missing : Held(c)' <=> Held(c) /\ c # worker[w]
    BY <2>1, Released
  <2>3. "ready" \notin Missing /\ DOMAIN worker' = DOMAIN worker
    BY <2>1, PoolTypes
  <2>4. \A c \in Missing : /\ (Held(c)' <=> Held(c)) /\ (InChannel(c)' <=> InChannel(c))
                           /\ (Taken(c)' <=> Taken(c))
    BY <2>1, <2>2, <2>3 DEF InChannel, Taken
  <2>5. QED
    BY <1>1, <2>1, <2>3, <2>4 DEF NoneLostInv
<1>8. ASSUME UNCHANGED <<more, results, worker, unsent, firstError>>,
             pc' \in {"collect", "archive"} \cup Written =>
                 pc' = pc \/ (pc' # "collect" /\ (pc \in {"archive"} \cup Written \/ Missing = {})),
             pc' \in Before => pc \in Before /\ producer' = producer,
             producer' = producer \/ (producer' = "closed" /\ (unsent = {} \/ canceled')),
             canceled => canceled'
      PROVE  NoneLostInv'
  <2>1. \A c \in Missing : (Held(c)' <=> Held(c)) /\ (InChannel(c)' <=> InChannel(c)) /\ (Taken(c)' <=> Taken(c))
    BY <1>8 DEF Held, InChannel, Taken
  <2>2. /\ pc' = "collect" => pc = "collect"
        /\ pc' \in {"archive"} \cup Written => pc \in {"archive"} \cup Written \/ Missing = {}
    <3>1. "collect" \notin {"archive"} \cup Written /\ "archive" # "collect"
      BY DEF Written
    <3>2. CASE pc' = "collect"
      BY <1>8, <3>1, <3>2
    <3>3. CASE pc' \in {"archive"} \cup Written
      BY <1>8, <3>1, <3>3
    <3>4. QED
      BY <3>2, <3>3
  <2>3. /\ pc' = "collect" /\ ~firstError' /\ (\A i \in DOMAIN results' : results'[i].ok) =>
              \A c \in Missing : c \in unsent' \/ Held(c)' \/ InChannel(c)' \/ Taken(c)'
        /\ pc' \in {"archive"} \cup Written => \A c \in Missing : Taken(c)'
    BY <1>8, <2>1, <2>2 DEF NoneLostInv
  <2>4. /\ producer' = "closed" => unsent' = {} \/ canceled'
        /\ pc' \in Before => ~firstError' /\ producer' = "off"
        /\ \A w \in DOMAIN worker' : worker'[w] = "gone" => producer' = "closed"
        /\ pc' = "collect" => DOMAIN worker' # {}
    BY <1>8, <2>2 DEF NoneLostInv
  <2>5. QED
    BY <1>1, <2>3, <2>4 DEF NoneLostInv
<1>9. CASE \/ Validate \/ DownloadRates \/ Download \/ DownloadWhole \/ DownloadPart \/ ParseCustomers
           \/ BuildDN \/ Archive \/ Answer \/ Fail \/ ProducerReturns \/ Cancel
           \/ (StartPool /\ Missing = {}) \/ UNCHANGED vars
  <2>1. UNCHANGED <<more, results, worker, unsent, firstError>>
    BY <1>9 DEF Validate, DownloadRates, Download, DownloadWhole, DownloadPart, ParseCustomers, BuildDN,
                Archive, Answer, Fail, ProducerReturns, Cancel, StartPool, vars, pool
  <2>2. canceled => canceled'
    BY <1>9 DEF Validate, DownloadRates, Download, DownloadWhole, DownloadPart, ParseCustomers, BuildDN,
                Archive, Answer, Fail, ProducerReturns, Cancel, StartPool, vars, pool
  <2>3. ProducerReturns \/ producer' = producer
    BY <1>9 DEF Validate, DownloadRates, Download, DownloadWhole, DownloadPart, ParseCustomers, BuildDN,
                Archive, Answer, Fail, ProducerReturns, Cancel, StartPool, vars, pool
  <2>4. /\ pc' \in {"collect", "archive"} \cup Written =>
              pc' = pc \/ (pc' # "collect" /\ (pc \in {"archive"} \cup Written \/ Missing = {}))
        /\ pc' \in Before => pc \in Before
    BY <1>9 DEF Validate, DownloadRates, Download, DownloadWhole, DownloadPart, ParseCustomers, BuildDN,
                Archive, Answer, Fail, ProducerReturns, Cancel, StartPool, vars, pool,
                Goto, Before, Fetching, Written
  <2>5. ProducerReturns => pc \notin Before /\ pc' = pc /\ producer' = "closed" /\ (unsent = {} \/ canceled')
    <3>1. pc \in Before => producer = "off"
      BY DEF NoneLostInv
    <3>2. QED
      BY <2>2, <3>1 DEF ProducerReturns
  <2>6. QED
    BY <1>8, <2>1, <2>2, <2>3, <2>4, <2>5
<1>10. QED
  BY <1>2, <1>3, <1>4, <1>5, <1>6, <1>7, <1>9 DEF Next, Request

-----------------------------------------------------------------------------
(* The loan details.                                                       *)

\* A part more, when the parts list their columns in one order and end their
\* lines: its rows come after the others, none is lost (downloadLoanDetails).
LEMMA PartJoined ==
    ASSUME book \in Books, UniformParts, Gathered(done), done \in Nat, book' = book,
           done + 1 \in DOMAIN book.parts, detail' = Joined(book.parts[done + 1]),
           NEW n, n = done + 1
    PROVE  Gathered(n)'
<1> DEFINE part == book.parts[n]
<1>1. IsTable(book.parts) /\ IsTable(part.rows)
  BY BooksAssumption DEF Tables
<1>2. Len(book.parts) \in Nat /\ DOMAIN book.parts = 1..Len(book.parts)
  BY <1>1 DEF IsTable
<1>3. /\ n \in 1..Len(book.parts) /\ n \in Nat /\ 1 \in DOMAIN book.parts
      /\ 1..n = (1..done) \cup {n}
  BY <1>2
<1>4. part.ended /\ part.header = book.parts[1].header
  BY <1>2, <1>3 DEF UniformParts
<1>5. detail.ended /\ IsTable(detail.rows) /\ (done > 0 => detail.header = book.parts[1].header)
      /\ Range(detail.rows) = UNION {Range(book.parts[i].rows) : i \in 1..done}
  BY DEF Gathered
<1>6. /\ detail'.header = IF done = 0 THEN part.header ELSE detail.header
      /\ detail'.rows = detail.rows \o part.rows
      /\ detail'.ended = IF part.rows = << >> THEN detail.ended ELSE part.ended
  BY <1>5 DEF Joined
<1>7. IsTable(detail'.rows) /\ Range(detail'.rows) = Range(detail.rows) \cup Range(part.rows)
  BY <1>1, <1>5, <1>6, TablesJoin
<1>8. Range(detail'.rows) = UNION {Range(book.parts[i].rows) : i \in 1..n}
  BY <1>3, <1>5, <1>7
<1>9. detail'.header = book.parts[1].header /\ detail'.ended
  BY <1>4, <1>5, <1>6
<1>10. QED
  BY <1>3, <1>7, <1>8, <1>9 DEF Gathered

\* Every step keeps the details those of the files read.
LEMMA DetailStep ==
    ASSUME TypeOK, DetailInv, [Next]_vars PROVE DetailInv'
<1>1. book' = book /\ UniformParts' = UniformParts /\ book \in Books /\ done \in Nat
  BY BookKept DEF TypeOK
<1>2. CASE DownloadWhole
  <2>1. pc = "details" /\ detail = NoDetail
    BY <1>2 DEF DownloadWhole, DetailInv, Fetching
  <2>2. CASE ~canceled /\ book.whole # None /\ detail' = book.whole /\ Goto("parse")
    BY <1>1, <2>2 DEF DetailInv, Goto, Fetching
  <2>3. CASE detail' = detail /\ Goto("parts")
    <3>1. Len(book.parts) \in Nat
      BY <1>1, BooksAssumption DEF Tables, IsTable
    <3>2. /\ detail.ended /\ detail.rows = << >>
      BY <2>1 DEF NoDetail
    <3>3. << >> \in Seq(Range(<< >>)) /\ Range(<< >>) = {} /\ 1..0 = {}
      BY DEF Range
    <3>4. Gathered(done)'
      BY <1>1, <2>3, <3>1, <3>2, <3>3 DEF Gathered, Goto, IsTable
    <3>5. QED
      BY <2>3, <3>4 DEF DetailInv, Goto, Fetching
  <2>4. QED
    BY <1>2, <2>2, <2>3 DEF DownloadWhole
<1>3. CASE DownloadPart
  <2>1. /\ pc = "parts" /\ done + 1 \in DOMAIN book.parts /\ detail' = Joined(book.parts[done + 1])
        /\ IF done + 1 = Parts THEN pc' = "parse" ELSE pc' = "parts" /\ done' = done + 1
    BY <1>3 DEF DownloadPart, Goto
  <2>2. SUFFICES ASSUME UniformParts PROVE DetailInv'
    BY <1>1, <2>1 DEF DetailInv, Fetching
  <2>3. Gathered(done)
    BY <2>1, <2>2 DEF DetailInv
  <2>4. CASE done + 1 = Parts
    <3>1. Gathered(Parts)'
      BY <1>1, <2>1, <2>2, <2>3, <2>4, PartJoined
    <3>2. QED
      BY <2>1, <2>4, <3>1 DEF DetailInv, Fetching
  <2>5. CASE done + 1 # Parts
    <3>1. PICK n : n = done + 1
      OBVIOUS
    <3>2. Gathered(n)'
      BY <1>1, <2>1, <2>2, <2>3, <3>1, PartJoined
    <3>3. pc' = "parts" /\ done' = n
      BY <2>1, <2>5, <3>1
    <3>4. Gathered(done)'
      BY <3>2, <3>3 DEF Gathered
    <3>5. QED
      BY <3>3, <3>4 DEF DetailInv, Fetching
  <2>6. QED
    BY <2>4, <2>5
<1>4. CASE ~DownloadWhole /\ ~DownloadPart
  <2>1. /\ detail' = detail
        /\ \/ pc' = pc /\ (pc = "parts" => done' = done)
           \/ pc \in Fetching \ {"parts"} /\ pc' \in Fetching \ {"parts"}
           \/ pc \notin Fetching \cup {"failed"} /\ pc' \notin Fetching
           \/ pc' = "failed"
    BY <1>4 DEF Next, Request, Fail, Validate, DownloadRates, Download,
                ParseCustomers, BuildDN, StartPool, Collect, Collected, Archive, Answer, Hand,
                ProducerReturns, Inquire, WorkerReturns, Cancel, vars, pool, Goto, Fetching
  <2>3. pc = "parts" /\ done' = done /\ Gathered(done) => Gathered(done)'
    BY <1>1, <2>1 DEF Gathered
  <2>4. Gathered(Parts) => Gathered(Parts)'
    BY <1>1, <2>1 DEF Gathered
  <2>5. QED
    BY <1>1, <2>1, <2>3, <2>4 DEF DetailInv, Fetching
<1>5. QED
  BY <1>2, <1>3, <1>4

\* Some row of a table's rows is the last of them.
LEMMA LastRow ==
    ASSUME NEW n \in Nat, NEW hits \in SUBSET (1..n), hits # {}
    PROVE  \E i \in hits : \A j \in hits : j <= i
<1> DEFINE T == {n - i : i \in hits}
<1>1. T \in SUBSET Nat /\ T # {}
  <2>1. \A i \in hits : i \in 1..n /\ n - i \in Nat
    OBVIOUS
  <2>2. QED
    BY <2>1
<1>2. PICK x \in T : \A y \in T : x <= y
  BY <1>1, LeastNumber
<1>3. PICK i \in hits : x = n - i
  OBVIOUS
<1>4. \A j \in hits : n - i <= n - j
  BY <1>2, <1>3
<1>5. i \in Nat /\ \A j \in hits : j \in Nat
  <2>1. \A k \in 1..n : k \in Nat
    OBVIOUS
  <2>2. QED
    BY <2>1
<1>6. \A j \in Nat : n - i <= n - j => j <= i
  BY <1>5
<1>7. QED
  BY <1>4, <1>5, <1>6

\* The details put together report the arrears of each loan (buildDK reading
\* what downloadLoanDetails joined).
LEMMA GatheredTell ==
    ASSUME book \in Books, UniformParts, Gathered(Parts), NEW acc \in {row.acc : row \in Range(WithAccount(book.loans))}
    PROVE  Arrears(detail, acc) = book.arrears[acc]
<1> DEFINE key == Column(detail.header, "no_rekening")
           col == LastColumn(detail.header, "tunggakan_bunga")
           hits == {i \in DOMAIN detail.rows : ValueAt(detail.rows[i], key) = acc}
<1>1. /\ Parts \in 0..Len(book.parts) /\ Parts \in Nat /\ Parts > 0 /\ IsTable(detail.rows)
      /\ detail.header = book.parts[1].header
      /\ Range(detail.rows) = UNION {Range(book.parts[i].rows) : i \in 1..Parts}
  BY LpsAssumption DEF Gathered
<1>2. IsTable(book.parts)
  BY BooksAssumption DEF Tables
<1>3. Len(book.parts) \in Nat /\ DOMAIN book.parts = 1..Len(book.parts)
  BY <1>2 DEF IsTable
<1>4. ASSUME NEW i \in 1..Parts
      PROVE  i \in DOMAIN book.parts /\ book.parts[i].header = detail.header
  <2>1. i \in DOMAIN book.parts
    BY <1>1, <1>3
  <2>2. QED
    BY <1>1, <2>1 DEF UniformParts
<1>5. Len(detail.rows) \in Nat /\ DOMAIN detail.rows = 1..Len(detail.rows)
  BY <1>1 DEF IsTable
<1>t. /\ \A i \in DOMAIN book.parts : \A row \in RowsOf(book.parts[i], acc) :
            Number(ValueAt(row, LastColumn(book.parts[i].header, "tunggakan_bunga"))) = book.arrears[acc]
      /\ Parts <= Len(book.parts) /\ (\A i \in 1..Parts : RowsOf(book.parts[i], acc) = {}) =>
            book.arrears[acc] = 0
  BY BooksAssumption DEF Telling
<1>6. CASE hits = {}
  <2>1. Arrears(detail, acc) = 0
    BY <1>6 DEF Arrears, Number
  <2>2. ASSUME NEW i \in 1..Parts, NEW row \in RowsOf(book.parts[i], acc) PROVE FALSE
    <3>1. row \in Range(detail.rows) /\ ValueAt(row, key) = acc
      BY <1>1, <1>4 DEF RowsOf
    <3>2. PICK k \in DOMAIN detail.rows : detail.rows[k] = row
      BY <3>1 DEF Range
    <3>3. QED
      BY <1>6, <3>1, <3>2
  <2>3. \A i \in 1..Parts : RowsOf(book.parts[i], acc) = {}
    BY <2>2
  <2>4. Parts <= Len(book.parts)
    BY <1>1, <1>3
  <2>5. book.arrears[acc] = 0
    BY <1>t, <2>3, <2>4
  <2>6. QED
    BY <2>1, <2>5
<1>7. CASE hits # {}
  <2> DEFINE last == CHOOSE i \in hits : \A j \in hits : j <= i
  <2>1. last \in hits
    <3>1. hits \in SUBSET (1..Len(detail.rows))
      BY <1>5
    <3>2. \E i \in hits : \A j \in hits : j <= i
      BY <1>5, <1>7, <3>1, LastRow
    <3> HIDE DEF hits
    <3>3. QED
      BY <3>2
  <2>2. Arrears(detail, acc) = Number(ValueAt(detail.rows[last], col))
    BY <1>7 DEF Arrears
  <2> HIDE DEF last
  <2>3. last \in DOMAIN detail.rows /\ ValueAt(detail.rows[last], key) = acc
    BY <2>1
  <2>4. detail.rows[last] \in Range(detail.rows)
    BY <2>3 DEF Range
  <2>5. PICK i \in 1..Parts : detail.rows[last] \in Range(book.parts[i].rows)
    BY <1>1, <2>4
  <2>6. detail.rows[last] \in RowsOf(book.parts[i], acc)
    BY <1>4, <2>3, <2>5 DEF RowsOf
  <2>7. QED
    BY <1>4, <1>t, <2>2, <2>6
<1>8. QED
  BY <1>6, <1>7

-----------------------------------------------------------------------------
(* The theorems.                                                           *)

\* The invariant holds when the request arrives.
LEMMA InitLInv == Init => LInv
<1> SUFFICES ASSUME Init PROVE LInv
  OBVIOUS
<1> USE DEF Init
<1>1. TypeOK
  <2> DEFINE LC == Lines(CIFs(book.customers))
             LM == Lines(Missing)
  <2>1. pc \in Points
    BY DEF Points, Before, Fetching
  <2>2. << >> \in Seq(LC) /\ << >> \in Seq(LM) /\ << >> \in Seq(Results) /\ DOMAIN << >> = {}
    OBVIOUS
  <2>3. worker \in [DOMAIN worker -> Missing \cup {"ready", "gone"}]
    OBVIOUS
  <2>4. QED
    BY <2>1, <2>2, <2>3 DEF TypeOK
<1>2. BuildInv /\ DetailInv /\ FileInv
  BY DEF BuildInv, DetailInv, FileInv, Fetching, Written
<1>3. OnceInv
  BY DEF OnceInv, Held, InChannel, Taken
<1>4. NoneLostInv
  BY DEF NoneLostInv, Written
<1>5. QED
  BY <1>1, <1>2, <1>3, <1>4 DEF LInv

\* The inductive invariant of a generation: the DN lines follow the customer
\* report, each missing customer is in one place and none is lost, the
\* details are those of the files read, and the archive is what was built.
THEOREM LpsInvariance == Spec => []LInv
<1>1. ASSUME LInv, [Next]_vars PROVE LInv'
  BY <1>1, TypeStep, BuildStep, OnceStep, NoneLostStep, DetailStep, FileStep DEF LInv
<1>2. QED
  BY <1>1, InitLInv, PTL DEF Spec

\* Type correctness of a generation.
THEOREM TypeCorrect == Spec => []TypeOK
<1>1. LInv => TypeOK
  BY DEF LInv
<1>2. QED
  BY <1>1, LpsInvariance, PTL

\* completeMissingDN: the DN file of an archive has one line for every
\* customer of the report and every holder of an account or a loan.
THEOREM EachHolderOnce == Spec => []HoldersReportedOnce
<1>1. ASSUME LInv PROVE HoldersReportedOnce
  <2>1. SUFFICES ASSUME file # None
                 PROVE  LET lines    == file.DN.lines
                            everyone == CIFs(book.customers) \cup Holders
                        IN  /\ CIFs(lines) = everyone
                            /\ Len(lines) = Cardinality(everyone)
    BY DEF HoldersReportedOnce
  <2> DEFINE lines == dn \o more
             C == CIFs(book.customers)
             LC == Lines(C)
             LM == Lines(Missing)
             S == LC \cup LM
  <2>2. pc \in Written /\ file.DN.lines = lines
    BY <1>1, <2>1 DEF LInv, FileInv, FileContent
  <2>3. book \in Books /\ dn \in Seq(LC) /\ more \in Seq(LM)
    BY <1>1 DEF LInv, TypeOK
  <2>4. /\ \A i \in DOMAIN dn : i \in DOMAIN Customers /\ dn[i].cif = Customers[i].cif
        /\ Len(dn) = Len(Customers)
    BY <1>1, <2>2 DEF LInv, BuildInv
  <2>5. /\ \A c \in Missing : \E i \in DOMAIN more : more[i].cif = c
        /\ \A i, j \in DOMAIN more : more[i].cif = more[j].cif => i = j
    BY <1>1, <2>2 DEF LInv, NoneLostInv, OnceInv, Taken
  <2>6. /\ Customers \in Seq(Range(book.customers)) /\ CIFs(Customers) = C
        /\ \A i \in DOMAIN Customers : Customers[i].cif \in C
        /\ \A i, j \in DOMAIN Customers : Customers[i].cif = Customers[j].cif => i = j
    BY <2>3, CustomersWell DEF KeptWell
  <2>7. Missing = Holders \ C /\ Blank \notin Missing /\ Blank \notin C
    BY <2>3, MissingWell DEF CIFs
  <2>8. \A i \in DOMAIN more : more[i].cif \in Missing
    BY <1>1, PoolTypes DEF LInv
  <2>9. \A c \in C : \E i \in DOMAIN Customers : Customers[i].cif = c
    BY <2>6 DEF CIFs
  <2> HIDE DEF C, LC, LM
  <2>10. dn \in Seq(S) /\ more \in Seq(S)
    BY <2>3
  <2> HIDE DEF S
  <2>11. /\ lines \in Seq(S) /\ Len(dn) \in Nat /\ Len(more) \in Nat
         /\ DOMAIN dn = 1..Len(dn) /\ DOMAIN more = 1..Len(more)
         /\ DOMAIN lines = 1..(Len(dn) + Len(more))
         /\ \A i \in DOMAIN dn : lines[i] = dn[i]
         /\ \A i \in DOMAIN lines : i \notin DOMAIN dn => lines[i] = more[i - Len(dn)]
    BY <2>10
  <2>12. DOMAIN Customers = DOMAIN dn
    BY <2>4, <2>6, <2>11
  <2> HIDE DEF lines
  <2>13. \A i \in DOMAIN dn : i \in DOMAIN lines /\ lines[i].cif = Customers[i].cif /\ lines[i].cif \in C
    BY <2>4, <2>6, <2>11
  <2>14. \A i \in DOMAIN lines \ DOMAIN dn :
            i - Len(dn) \in DOMAIN more /\ lines[i].cif = more[i - Len(dn)].cif /\ lines[i].cif \in Missing
    <3> SUFFICES ASSUME NEW i \in DOMAIN lines \ DOMAIN dn
                 PROVE  i - Len(dn) \in DOMAIN more /\ lines[i].cif = more[i - Len(dn)].cif /\ lines[i].cif \in Missing
      OBVIOUS
    <3>1. i - Len(dn) \in DOMAIN more /\ lines[i] = more[i - Len(dn)]
      BY <2>11
    <3>2. QED
      BY <2>8, <3>1
  <2>15. \A i \in DOMAIN more : i + Len(dn) \in DOMAIN lines /\ lines[i + Len(dn)] = more[i]
    <3> SUFFICES ASSUME NEW i \in DOMAIN more
                 PROVE  i + Len(dn) \in DOMAIN lines /\ lines[i + Len(dn)] = more[i]
      OBVIOUS
    <3>1. i + Len(dn) \in DOMAIN lines /\ i + Len(dn) \notin DOMAIN dn /\ (i + Len(dn)) - Len(dn) = i
      BY <2>11
    <3>2. QED
      BY <2>11, <3>1
  <2>16. {lines[i].cif : i \in DOMAIN lines} = C \cup Missing
    <3>1. \A i \in DOMAIN lines : lines[i].cif \in C \cup Missing
      BY <2>13, <2>14
    <3>2. \A c \in C : \E i \in DOMAIN lines : lines[i].cif = c
      BY <2>9, <2>12, <2>13
    <3>3. \A c \in Missing : \E i \in DOMAIN lines : lines[i].cif = c
      BY <2>5, <2>15
    <3>4. QED
      BY <3>1, <3>2, <3>3
  <2>17. \A i, j \in DOMAIN lines : lines[i].cif = lines[j].cif => i = j
    <3> SUFFICES ASSUME NEW i \in DOMAIN lines, NEW j \in DOMAIN lines, lines[i].cif = lines[j].cif
                 PROVE  i = j
      OBVIOUS
    <3>1. CASE i \in DOMAIN dn /\ j \in DOMAIN dn
      BY <2>6, <2>12, <2>13, <3>1
    <3>2. CASE i \notin DOMAIN dn /\ j \notin DOMAIN dn
      <4>1. i - Len(dn) = j - Len(dn)
        BY <2>5, <2>14, <3>2
      <4>2. i \in Nat /\ j \in Nat
        BY <2>11
      <4>3. QED
        BY <2>11, <4>1, <4>2
    <3>3. CASE ~(i \in DOMAIN dn <=> j \in DOMAIN dn)
      BY <2>7, <2>13, <2>14, <3>3
    <3>4. QED
      BY <3>1, <3>2, <3>3
  <2>18. Cardinality(C \cup Missing) = Len(lines)
    BY <2>11, <2>16, <2>17, LinesCounted
  <2>19. CIFs(lines) = C \cup Missing
    BY <2>7, <2>16 DEF CIFs
  <2>20. C \cup Missing = C \cup Holders
    BY <2>7
  <2>21. QED
    BY <2>2, <2>18, <2>19, <2>20 DEF C
<1>2. QED
  BY <1>1, LpsInvariance, PTL

\* downloadLoanDetails and buildDK: each loan of an archive has the arrears
\* of the detail data, when the parts are uniform.
THEOREM EachLoanWithItsArrears == Spec => []ArrearsReported
<1>1. ASSUME LInv PROVE ArrearsReported
  <2>1. SUFFICES ASSUME file # None, UniformParts, NEW i \in DOMAIN file.DK.lines
                 PROVE  file.DK.lines[i].arrears = book.arrears[file.DK.lines[i].acc]
    BY DEF ArrearsReported
  <2>2. pc \in Written /\ file.DK.lines = DKLines
    BY <1>1, <2>1 DEF LInv, FileInv, FileContent
  <2> DEFINE loans == WithAccount(book.loans)
  <2>3. /\ i \in DOMAIN loans
        /\ file.DK.lines[i].acc = loans[i].acc /\ file.DK.lines[i].arrears = Arrears(detail, loans[i].acc)
    <3> HIDE DEF loans
    <3>1. QED
      BY <2>1, <2>2 DEF DKLines, loans
  <2>4. loans[i].acc \in {row.acc : row \in Range(WithAccount(book.loans))}
    BY <2>3 DEF Range
  <2>5. book \in Books
    BY <1>1 DEF LInv, TypeOK
  <2>6. (book.whole # None /\ detail = book.whole) \/ Gathered(Parts)
    BY <1>1, <2>1, <2>2 DEF LInv, DetailInv, Written, Fetching
  <2>7. CASE book.whole # None /\ detail = book.whole
    BY <2>3, <2>4, <2>5, <2>7, BooksAssumption DEF Telling
  <2>8. CASE Gathered(Parts)
    BY <2>1, <2>3, <2>4, <2>5, <2>8, GatheredTell
  <2>9. QED
    BY <2>6, <2>7, <2>8
<1>2. QED
  BY <1>1, LpsInvariance, PTL

=============================================================================
