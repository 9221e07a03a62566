------------------------------ MODULE LpsReport ------------------------------
(***************************************************************************)
(* One LPS report: internal/features/lps (the request) and internal/lps    *)
(* (the generator).  The generator downloads its sources one after the     *)
(* other, builds the customer (DN), savings (DSN) and loan (DK) files, and *)
(* asks Fincloud for the customers that hold an account and are missing    *)
(* from the customer report, with a producer, a pool of workers and a      *)
(* collector.  The request's context may be canceled at any time.          *)
(*                                                                         *)
(* A source is a table; a row keeps the columns that decide which lines    *)
(* the files have, the debtor type and the arrears.  The other columns are *)
(* copied or cleaned, and left out.                                        *)
(***************************************************************************)
EXTENDS Naturals, Sequences, SequencesExt, FiniteSets

CONSTANTS Books,               \* what Fincloud and MSO would answer, one world each
          Blank, None,
          ValidGolonganDebitur, \* the debtor types of codes.go
          Parts,               \* number of files of a split detail report, 8
          PoolSize             \* largest number of workers, 5

ASSUME LpsAssumption == Parts \in Nat \ {0} /\ PoolSize \in Nat \ {0}

Reports == <<"cbrcustomer", "cbrsavings", "cbrtimedeposit", "deposit balances",
             "standing orders", "cbrloan">>

VARIABLES book,       \* the world of this generation
          canceled,   \* the request's context is done
          pc,         \* where the request's goroutine is
          done,       \* iterations of the loop it is in
          detail,     \* the loan details read so far: header, rows, last line ended
          dn, more,   \* DN rows of the customer report and of the pool
          unsent,     \* missing CIFs the producer still has
          producer,   \* "off", "sending" or "closed"
          worker,     \* "ready", "gone", or the CIF it works on
          results,    \* the buffered result channel
          firstError, \* some result was an error
          file        \* the archive: count and lines of each file, or None

vars == <<book, canceled, pc, done, detail, dn, more, unsent, producer, worker, results,
          firstError, file>>
pool == <<unsent, producer, worker, results, firstError>>

NoDetail == [header |-> << >>, rows |-> << >>, ended |-> TRUE]

Init ==
    /\ book \in Books
    /\ canceled = FALSE /\ pc = "validate" /\ done = 0
    /\ detail = NoDetail /\ dn = << >> /\ more = << >>
    /\ unsent = {} /\ producer = "off" /\ worker = << >> /\ results = << >>
    /\ firstError = FALSE /\ file = None

Goto(label) == pc' = label /\ done' = 0

-----------------------------------------------------------------------------
(* The tables.                                                             *)

CIFs(rows) == {rows[i].cif : i \in DOMAIN rows} \ {Blank}

\* parseCustomers: rows without a CIF and repeated CIFs are skipped.
Keep(kept, row) ==
    IF row.cif = Blank \/ row.cif \in CIFs(kept) THEN kept ELSE Append(kept, row)
parseCustomers(rows) ==
    LET kept[n \in 0..Len(rows)] == IF n = 0 THEN << >> ELSE Keep(kept[n - 1], rows[n])
    IN  kept[Len(rows)]
Customers == parseCustomers(book.customers)

\* buildDSN, buildDK: a row with a CIF makes its customer needed, a line it
\* makes only with an account number.
WithAccount(rows) == SelectSeq(rows, LAMBDA row : row.cif # Blank /\ row.acc # Blank)
Accounts == book.savings \o book.deposits
HoldersOf(b) == CIFs(b.savings \o b.deposits) \cup CIFs(b.loans)
Holders == HoldersOf(book)

\* buildDN, buildLiveDN: individuals are 9002; a code outside the list is
\* looked up in MSO, and 4599 when that fails or knows none.
Fallback(answer) == IF answer \in {Blank, "0002"} THEN "4599" ELSE answer
LooksUp(c) == ~c.individual /\ c.debtor \notin ValidGolonganDebitur
DNRow(c, answer) ==
    [cif |-> c.cif,
     debtor |-> IF c.individual THEN "9002" ELSE IF LooksUp(c) THEN Fallback(answer) ELSE c.debtor]
Answers(c) == {Blank} \cup IF canceled THEN {} ELSE {book.mso[c.cif]}

-----------------------------------------------------------------------------
(* Loan details, one file or Parts files put together.                     *)

\* The column sets must agree; the first header names the columns of all.
HeaderFits(header) ==
    LET first == {detail.header[i] : i \in DOMAIN detail.header}
    IN  /\ Len(header) = Cardinality(first)
        /\ {header[i] : i \in DOMAIN header} \subseteq first

\* The bytes after the header line are appended as they are: a file whose
\* last line is not ended runs into the first line of the next.
Glued(rows, next) ==
    Front(rows) \o <<Front(Last(rows)) \o <<Blank>> \o Tail(Head(next))>> \o Tail(next)
Joined(part) ==
    [header |-> IF done = 0 THEN part.header ELSE detail.header,
     rows   |-> IF detail.ended \/ part.rows = << >> THEN detail.rows \o part.rows
                ELSE Glued(detail.rows, part.rows),
     ended  |-> IF part.rows = << >> THEN detail.ended ELSE part.ended]

Column(header, name) ==
    IF \E i \in DOMAIN header : header[i] = name
    THEN CHOOSE i \in DOMAIN header : header[i] = name /\ \A j \in 1..(i - 1) : header[j] # name
    ELSE 0
\* A map of names to values keeps the last of several columns of one name.
LastColumn(header, name) ==
    IF \E i \in DOMAIN header : header[i] = name
    THEN CHOOSE i \in DOMAIN header : header[i] = name /\ \A j \in DOMAIN header : header[j] = name => j <= i
    ELSE 0
ValueAt(row, i) == IF i \in DOMAIN row THEN row[i] ELSE Blank

\* stringToFloat: what is no number counts as zero.
Number(raw) == IF raw = Blank THEN 0 ELSE raw

\* transposeTable: the last row of an account wins.
Arrears(table, acc) ==
    LET key  == Column(table.header, "no_rekening")
        hits == {i \in DOMAIN table.rows : ValueAt(table.rows[i], key) = acc}
        last == CHOOSE i \in hits : \A j \in hits : j <= i
        raw  == IF hits = {} THEN Blank
                ELSE ValueAt(table.rows[last], LastColumn(table.header, "tunggakan_bunga"))
    IN  Number(raw)

\* What is assumed of the world.  The sources are tables, and no CIF has the
\* name of a worker's state.
IsTable(rows) == rows \in Seq(Range(rows))
Tables(b) ==
    /\ IsTable(b.customers) /\ IsTable(b.savings) /\ IsTable(b.deposits) /\ IsTable(b.loans)
    /\ IsTable(b.parts)
    /\ \A i \in DOMAIN b.parts : IsTable(b.parts[i].rows)
    /\ HoldersOf(b) \cap {"ready", "gone"} = {}

\* Fincloud answers about the customer it was asked about: the line of a live
\* customer carries the "id" of the answer, which nobody compares.
Answering(b) == \A c \in HoldersOf(b) \ CIFs(b.customers) : b.live[c].cif = c

\* The detail data has one arrears of a loan: the whole file reports it, a row
\* of a part does, under the part's own header, and all the parts together
\* leave out only loans without arrears.
RowsOf(part, acc) ==
    {row \in Range(part.rows) : ValueAt(row, Column(part.header, "no_rekening")) = acc}
Telling(b) ==
    \A acc \in {row.acc : row \in Range(WithAccount(b.loans))} :
        /\ b.whole # None => Arrears(b.whole, acc) = b.arrears[acc]
        /\ \A i \in DOMAIN b.parts : \A row \in RowsOf(b.parts[i], acc) :
              Number(ValueAt(row, LastColumn(b.parts[i].header, "tunggakan_bunga"))) = b.arrears[acc]
        /\ Parts <= Len(b.parts) /\ (\A i \in 1..Parts : RowsOf(b.parts[i], acc) = {}) =>
              b.arrears[acc] = 0

ASSUME BooksAssumption == \A b \in Books : Tables(b) /\ Answering(b) /\ Telling(b)

\* buildDK: the loans, each with the arrears of its details.
DKLines ==
    [i \in DOMAIN WithAccount(book.loans) |->
        LET row == WithAccount(book.loans)[i]
        IN  [cif |-> row.cif, acc |-> row.acc, arrears |-> Arrears(detail, row.acc)]]

\* buildFileContent: a header with the number of lines, and the lines.
FileContent(lines) == [count |-> Len(lines), lines |-> lines]

-----------------------------------------------------------------------------
(* The request's goroutine.                                                *)

\* Any step may fail: the sources are remote, the tables may lack a column.
\* Nothing was written, or the temporary file is removed.
Fail ==
    /\ pc \in {"validate", "rates", "download", "details", "parts", "parse", "accounts",
              "archive", "seek"}
    /\ Goto("failed") /\ file' = None
    /\ UNCHANGED <<book, canceled, detail, dn, more, pool>>

Validate ==
    /\ pc = "validate" /\ Goto("rates")
    /\ UNCHANGED <<book, canceled, detail, dn, more, pool, file>>

DownloadRates ==
    /\ pc = "rates" /\ ~canceled /\ Goto("download")
    /\ UNCHANGED <<book, canceled, detail, dn, more, pool, file>>

\* The six reports, in their order.
Download ==
    /\ pc = "download" /\ ~canceled
    /\ IF done + 1 = Len(Reports) THEN Goto("details") ELSE done' = done + 1 /\ UNCHANGED pc
    /\ UNCHANGED <<book, canceled, detail, dn, more, pool, file>>

\* downloadLoanDetails: the whole file or, after any error, all the parts.
DownloadWhole ==
    /\ pc = "details"
    /\ \/ ~canceled /\ book.whole # None /\ detail' = book.whole /\ Goto("parse")
       \/ detail' = detail /\ Goto("parts")
    /\ UNCHANGED <<book, canceled, dn, more, pool, file>>

\* Mutant: the loop stops before the last part.
Bug_DownloadPart ==
    /\ pc = "parts" /\ ~canceled
    /\ done + 1 \in DOMAIN book.parts
    /\ done > 0 => HeaderFits(book.parts[done + 1].header)
    /\ detail' = Joined(book.parts[done + 1])
    /\ IF done + 2 >= Parts THEN Goto("parse") ELSE done' = done + 1 /\ UNCHANGED pc
    /\ UNCHANGED <<book, canceled, dn, more, pool, file>>

DownloadPart ==
    /\ pc = "parts" /\ ~canceled
    /\ done + 1 \in DOMAIN book.parts
    /\ done > 0 => HeaderFits(book.parts[done + 1].header)
    /\ detail' = Joined(book.parts[done + 1])
    /\ IF done + 1 = Parts THEN Goto("parse") ELSE done' = done + 1 /\ UNCHANGED pc
    /\ UNCHANGED <<book, canceled, dn, more, pool, file>>

ParseCustomers ==
    /\ pc = "parse" /\ Goto("dn")
    /\ UNCHANGED <<book, canceled, detail, dn, more, pool, file>>

\* buildDN: a failed lookup is not an error.
BuildDN ==
    /\ pc = "dn"
    /\ IF done = Len(Customers) THEN Goto("accounts") /\ UNCHANGED dn
       ELSE LET c == Customers[done + 1]
            IN  /\ \E answer \in Answers(c) : dn' = Append(dn, DNRow(c, answer))
                /\ done' = done + 1 /\ UNCHANGED pc
    /\ UNCHANGED <<book, canceled, detail, more, pool, file>>

\* buildDSN, buildDK and the start of completeMissingDN.
Missing == Holders \ CIFs(Customers)
StartPool ==
    /\ pc = "accounts"
    /\ IF Missing = {}
       THEN Goto("archive") /\ UNCHANGED pool
       ELSE /\ Goto("collect")
            /\ unsent' = Missing /\ producer' = "sending"
            /\ worker' = [w \in 1..(IF Cardinality(Missing) < PoolSize THEN Cardinality(Missing)
                                    ELSE PoolSize) |-> "ready"]
            /\ UNCHANGED <<results, firstError>>
    /\ UNCHANGED <<book, canceled, detail, dn, more, file>>

\* The collector reads to the end of the channel, whatever it reads.
Collect ==
    /\ pc = "collect" /\ results # << >>
    /\ results' = Tail(results)
    /\ IF Head(results).ok
       THEN more' = Append(more, Head(results).row) /\ UNCHANGED firstError
       ELSE firstError' = TRUE /\ UNCHANGED more
    /\ UNCHANGED <<book, canceled, pc, done, detail, dn, unsent, producer, worker, file>>

\* Mutant: the context is not looked at once the channel is closed.
Bug_Collected ==
    /\ pc = "collect" /\ results = << >> /\ \A w \in DOMAIN worker : worker[w] = "gone"
    /\ Goto(IF firstError THEN "failed" ELSE "archive")
    /\ UNCHANGED <<book, canceled, detail, dn, more, pool, file>>

\* The channel is closed after the last worker: an error or a canceled
\* context fails the report.
Collected ==
    /\ pc = "collect" /\ results = << >> /\ \A w \in DOMAIN worker : worker[w] = "gone"
    /\ Goto(IF firstError \/ canceled THEN "failed" ELSE "archive")
    /\ UNCHANGED <<book, canceled, detail, dn, more, pool, file>>

\* The four files; DSJ is empty.
Archive ==
    /\ pc = "archive" /\ Goto("seek")
    /\ file' = [DN  |-> FileContent(dn \o more),
                DSN |-> FileContent(WithAccount(Accounts)),
                DK  |-> FileContent(DKLines)]
    /\ UNCHANGED <<book, canceled, detail, dn, more, pool>>

\* Handler.Generate: the audit is best effort, then the file is copied out.
Answer ==
    /\ pc = "seek" /\ Goto("answered")
    /\ UNCHANGED <<book, canceled, detail, dn, more, pool, file>>

Request == Validate \/ DownloadRates \/ Download \/ DownloadWhole \/ DownloadPart \/ ParseCustomers \/ BuildDN
           \/ StartPool \/ Collect \/ Collected \/ Archive \/ Answer

-----------------------------------------------------------------------------
(* The producer and the workers.                                           *)

\* An unbuffered send meets a receive; map iteration gives any order.
Hand(w) ==
    /\ producer = "sending" /\ worker[w] = "ready"
    /\ \E cif \in unsent : /\ worker' = [worker EXCEPT ![w] = cif]
                           /\ unsent' = unsent \ {cif}
    /\ UNCHANGED <<book, canceled, pc, done, detail, dn, more, producer, results, firstError, file>>

ProducerReturns ==
    /\ producer = "sending"
    /\ unsent = {} \/ canceled
    /\ producer' = "closed"
    /\ UNCHANGED <<book, canceled, pc, done, detail, dn, more, unsent, worker, results, firstError, file>>

GetCIF(cif) == book.live[cif]

\* GetCIF and buildLiveDN; the channel has room for every result.
\* Mutant: a worker gives up after an error.
Bug_Inquire(w) ==
    /\ worker[w] \notin {"ready", "gone"}
    /\ LET c == GetCIF(worker[w])
       IN  \/ /\ results' = Append(results, [ok |-> FALSE])
              /\ worker' = [worker EXCEPT ![w] = "gone"]
           \/ /\ ~canceled
              /\ results' = Append(results, [ok |-> TRUE, row |-> DNRow(c, Blank)])
              /\ worker' = [worker EXCEPT ![w] = "ready"]
    /\ UNCHANGED <<book, canceled, pc, done, detail, dn, more, unsent, producer, firstError, file>>

Inquire(w) ==
    /\ worker[w] \notin {"ready", "gone"}
    /\ LET c == GetCIF(worker[w])
       IN  \/ results' = Append(results, [ok |-> FALSE])
           \/ /\ ~canceled
              /\ \E answer \in Answers(c) :
                   results' = Append(results, [ok |-> TRUE, row |-> DNRow(c, answer)])
    /\ worker' = [worker EXCEPT ![w] = "ready"]
    /\ UNCHANGED <<book, canceled, pc, done, detail, dn, more, unsent, producer, firstError, file>>

WorkerReturns(w) ==
    /\ worker[w] = "ready" /\ producer = "closed"
    /\ worker' = [worker EXCEPT ![w] = "gone"]
    /\ UNCHANGED <<book, canceled, pc, done, detail, dn, more, unsent, producer, results, firstError, file>>

\* The browser goes away, or the server is closed.
Cancel ==
    /\ ~canceled /\ canceled' = TRUE
    /\ UNCHANGED <<book, pc, done, detail, dn, more, pool, file>>

Next ==
    \/ Request \/ Fail \/ ProducerReturns \/ Cancel
    \/ \E w \in DOMAIN worker : Hand(w) \/ Inquire(w) \/ WorkerReturns(w)

\* Goroutines are scheduled, and every remote call returns: the client has a
\* timeout.
Fairness ==
    /\ WF_vars(Request \/ Fail) /\ WF_vars(ProducerReturns)
    /\ \A w \in 1..PoolSize :
         /\ WF_vars(w \in DOMAIN worker /\ Hand(w))
         /\ WF_vars(w \in DOMAIN worker /\ Inquire(w))
         /\ WF_vars(w \in DOMAIN worker /\ WorkerReturns(w))

Spec == Init /\ [][Next]_vars
FairSpec == Spec /\ Fairness

-----------------------------------------------------------------------------
(* Properties.                                                             *)

Ended == pc \in {"failed", "answered"}

\* completeMissingDN: when an archive is written its DN file has one line for
\* every customer of the customer report and every holder of an account or a
\* loan: no error, cancellation or order of the workers' results leaves one
\* out or in twice.
HoldersReportedOnce ==
    file # None =>
        LET lines    == file.DN.lines
            everyone == CIFs(book.customers) \cup Holders
        IN  /\ CIFs(lines) = everyone
            /\ Len(lines) = Cardinality(everyone)

\* downloadLoanDetails and buildDK: a loan is reported with the arrears the
\* bank's detail data has of it, in one file or split, provided that the
\* parts list their columns in one order and end their last lines.
\* HeaderFits compares sets of columns and checks no line end, so without
\* the proviso a value of another column, or zero, is reported.
UniformParts ==
    \A i \in DOMAIN book.parts :
        book.parts[i].ended /\ book.parts[i].header = book.parts[1].header
ArrearsReported ==
    file # None /\ UniformParts =>
        \A i \in DOMAIN file.DK.lines :
            file.DK.lines[i].arrears = book.arrears[file.DK.lines[i].acc]

\* Whatever fails and whenever the context ends, the request is answered and
\* no producer or worker is left behind.
EveryGenerationEnds ==
    <>(Ended /\ producer # "sending" /\ \A w \in DOMAIN worker : worker[w] = "gone")

-----------------------------------------------------------------------------
(* The inductive invariant behind the safety properties.                   *)

Fetching == {"validate", "rates", "download", "details", "parts"}
Before == Fetching \cup {"parse", "dn", "accounts"}
Written == {"seek", "answered"}
Points == Before \cup Written \cup {"collect", "archive", "failed"}

Debtors == {"9002", "4599"} \cup ValidGolonganDebitur \cup {book.mso[c] : c \in CIFs(book.customers) \cup Holders}
Lines(cifs) == [cif : cifs, debtor : Debtors]
Results == [ok : {TRUE}, row : Lines(Missing)] \cup [ok : {FALSE}]

\* Type correctness of a generation (generator.go Generate, completeMissingDN).
TypeOK ==
    /\ book \in Books /\ canceled \in BOOLEAN /\ pc \in Points /\ done \in Nat
    /\ dn \in Seq(Lines(CIFs(book.customers))) /\ more \in Seq(Lines(Missing))
    /\ unsent \in SUBSET Missing /\ producer \in {"off", "sending", "closed"}
    /\ worker \in [DOMAIN worker -> Missing \cup {"ready", "gone"}]
    /\ results \in Seq(Results) /\ firstError \in BOOLEAN

\* The DN lines so far are those of the first customers of the report.
BuildInv ==
    /\ \A i \in DOMAIN dn : i \in DOMAIN Customers /\ dn[i].cif = Customers[i].cif
    /\ pc \in Fetching \cup {"parse"} => dn = << >>
    /\ pc = "dn" => Len(dn) = done
    /\ pc \in {"accounts", "collect", "archive"} \cup Written => Len(dn) = Len(Customers)

\* Where a missing customer can be: with a worker, in the channel, collected.
Held(c) == \E w \in DOMAIN worker : worker[w] = c
InChannel(c) == \E i \in DOMAIN results : results[i].ok /\ results[i].row.cif = c
Taken(c) == \E i \in DOMAIN more : more[i].cif = c

\* Nobody handles a missing customer twice ...
OnceInv ==
    /\ pc \in Before => more = << >> /\ results = << >> /\ worker = << >> /\ unsent = {}
    /\ \A c \in unsent : ~Held(c) /\ ~InChannel(c) /\ ~Taken(c)
    /\ \A c \in Missing : /\ Held(c) => ~InChannel(c) /\ ~Taken(c)
                          /\ InChannel(c) => ~Taken(c)
    /\ \A v, w \in DOMAIN worker : worker[v] = worker[w] /\ worker[v] \in Missing => v = w
    /\ \A i, j \in DOMAIN results :
          results[i].ok /\ results[j].ok /\ results[i].row.cif = results[j].row.cif => i = j
    /\ \A i, j \in DOMAIN more : more[i].cif = more[j].cif => i = j

\* ... and none is lost while no result is an error and the request is alive.
NoneLostInv ==
    /\ producer = "closed" => unsent = {} \/ canceled
    /\ pc \in Before => ~firstError /\ producer = "off"
    /\ \A w \in DOMAIN worker : worker[w] = "gone" => producer = "closed"
    /\ pc = "collect" => DOMAIN worker # {}
    /\ pc = "collect" /\ ~firstError /\ (\A i \in DOMAIN results : results[i].ok) =>
          \A c \in Missing : c \in unsent \/ Held(c) \/ InChannel(c) \/ Taken(c)
    /\ pc \in {"archive"} \cup Written => \A c \in Missing : Taken(c)

\* The details are those of the whole file or of the parts read so far.
Gathered(n) ==
    /\ n \in 0..Len(book.parts) /\ detail.ended /\ IsTable(detail.rows)
    /\ n > 0 => detail.header = book.parts[1].header
    /\ Range(detail.rows) = UNION {Range(book.parts[i].rows) : i \in 1..n}
DetailInv ==
    /\ pc \in Fetching \ {"parts"} => detail = NoDetail
    /\ pc = "parts" /\ UniformParts => Gathered(done)
    /\ pc \notin Fetching \cup {"failed"} /\ UniformParts =>
          (book.whole # None /\ detail = book.whole) \/ Gathered(Parts)

\* The archive is what was built, and stays so.
FileInv ==
    file # None =>
        /\ pc \in Written
        /\ file = [DN  |-> FileContent(dn \o more),
                   DSN |-> FileContent(WithAccount(Accounts)),
                   DK  |-> FileContent(DKLines)]

LInv == TypeOK /\ BuildInv /\ OnceInv /\ NoneLostInv /\ DetailInv /\ FileInv
=============================================================================
