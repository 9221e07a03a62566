---------------------------- MODULE LoanInquiry ----------------------------
(***************************************************************************)
(* A loan inquiry: internal/api and internal/features/loaninquiry (the     *)
(* requests), internal/position (which source answers for a date) and the  *)
(* readers of Fincloud, the snapshot table, the data warehouse and MSO.    *)
(*                                                                         *)
(* One step is one remote read, so days pass, loans close, the snapshot is *)
(* replaced and the warehouse is loaded between the reads of one request.  *)
(* Balances are not numbers here: a position says which source it was read *)
(* from, of which loan and of which day, and what its collectability was.  *)
(* The calculation over them is the subject of Contractual.                *)
(***************************************************************************)
EXTENDS Integers, Sequences, FiniteSets, FiniteSetsExt

CONSTANTS Loans,        \* identified by their primary account
          Bank,         \* per loan: alternate, start, flat, tenor, schedule
          Accounts,     \* what a request may ask for
          Quality,      \* Quality[l][d]: collectability of loan l on day d
          Cutoff,       \* 2025-10-12
          FirstDay, MaxDay, \* the days on which requests come
          Requests,
          PageSize,     \* rows of a page of the search: 50
          Closable, Doubled, \* bounds: loans that may close, and be loaded twice
          Blank, None

Days == 1..MaxDay
Outcomes == {"success", "bad_request", "ambiguous_account", "unsupported_calculation",
             "service_unavailable", "not_found", "internal_error"}

ASSUME InquiryAssumption ==
    /\ Cutoff \in 1..(FirstDay - 1) /\ FirstDay \in Days
    /\ IsFiniteSet(Loans) /\ Closable \subseteq Loans /\ MaxDay \in Nat
    /\ Blank \notin Accounts \cup Loans /\ Blank \notin Days /\ Blank # None
    /\ None \notin Loans /\ None \notin Days /\ None \notin Outcomes
    /\ \A l \in Loans : Bank[l].alternate \notin Loans
    /\ Quality \in [Loans -> [Days -> 1..5]] /\ PageSize \in Nat \ {0}

VARIABLES day,      \* today
          closing,  \* per loan: the two close dates Fincloud keeps, Blank if not set
          snapshot, \* the day of the snapshot table, or 0
          dwh,      \* dwh[l][d]: the collectabilities of the rows of that day
          req       \* the requests

vars == <<day, closing, snapshot, dwh, req>>
world == <<day, closing, snapshot, dwh>>

Channels == {"api", "page", "pdf"}
Points == {"idle", "primary", "alternate", "detail", "route", "exact", "history", "opening",
           "timeline", "answered"}
Positions == [source : {"closed", "snapshot", "DWH", "MSO", "reconstructed"}, loan : Loans,
              day : Days, quality : 0..5]
Timelines == UNION {[S -> 1..5] : S \in SUBSET Days}
\* History, for the properties: what Fincloud said that was not so.  It gave
\* the contract of another loan than the one asked for, denied a loan it has,
\* listed a loan with another alternate account without showing that, or left
\* out of the page a loan that has the account.
Untruths == {"other", "denied", "blank", "omitted"}
Views == [position : Positions, actual : Positions, timeline : Timelines]
Request == [pc : Points, via : Channels \cup {None}, account : Accounts \cup {None},
            asOf : 0..MaxDay, today : 0..MaxDay, loan : Loans \cup {None}, close : 0..MaxDay,
            exact : Positions \cup {None}, outcome : Outcomes \cup {None},
            result : Views \cup {None}, audited : Outcomes \cup {None},
            misled : SUBSET Untruths]

Idle == [pc |-> "idle", via |-> None, account |-> None, asOf |-> 0, today |-> 0, loan |-> None,
         close |-> 0, exact |-> None, outcome |-> None, result |-> None, audited |-> None,
         misled |-> {}]

Init ==
    /\ day = FirstDay /\ snapshot = 0
    /\ closing = [l \in Loans |-> [object |-> Blank, legacy |-> Blank]]
    /\ dwh = [l \in Loans |-> [d \in Days |-> {}]]
    /\ req = [r \in Requests |-> Idle]

At(r, pc) == req[r].pc = pc
Goto(r, pc) == req' = [req EXCEPT ![r].pc = pc]

-----------------------------------------------------------------------------
(* Answers.                                                                *)

FirstMatch(rules, kinds) ==
    LET hits == {i \in DOMAIN rules : rules[i][1] \cap kinds # {}}
    IN  IF hits = {} THEN "internal_error" ELSE rules[Min(hits)][2]

Unavailable == {"ErrFincloudUnavailable", "ErrDWHUnavailable", "ErrMSOUnavailable"}

\* Mutant: not-found is looked for before missing evidence.
Bug_PositionError(kinds) ==
    FirstMatch(<<<<{"ErrInvalidInput"}, "bad_request">>,
                 <<{"ErrNotFound"}, "not_found">>,
                 <<{"ErrAmbiguous"}, "ambiguous_account">>,
                 <<{"ErrUnsupported"}, "unsupported_calculation">>,
                 <<Unavailable \cup {"ErrHistoricalEvidence", "ErrCurrentSnapshot"},
                   "service_unavailable">>>>, kinds)

\* positionError (API) and inquiryError (pages): the first class an error
\* belongs to decides; errors are joined, so it may belong to several.
PositionError(kinds) ==
    FirstMatch(<<<<{"ErrInvalidInput"}, "bad_request">>,
                 <<{"ErrAmbiguous"}, "ambiguous_account">>,
                 <<{"ErrUnsupported"}, "unsupported_calculation">>,
                 <<Unavailable \cup {"ErrHistoricalEvidence", "ErrCurrentSnapshot"},
                   "service_unavailable">>,
                 <<{"ErrNotFound"}, "not_found">>>>, kinds)
InquiryError(kinds) ==
    FirstMatch(<<<<{"ErrInvalidInput"}, "bad_request">>,
                 <<{"ErrUnsupported"}, "unsupported_calculation">>,
                 <<{"ErrAmbiguous"}, "ambiguous_account">>,
                 <<{"ErrCurrentSnapshot"}, "service_unavailable">>,
                 <<{"ErrHistoricalEvidence"}, "service_unavailable">>,
                 <<Unavailable, "service_unavailable">>,
                 <<{"ErrNotFound"}, "not_found">>>>, kinds)

\* The API audits every outcome, the page an answer, the PDF nothing; both as
\* best they can.
AuditLookup(outcome) == {None, outcome}
AuditInquiry(outcome) == {None} \cup IF outcome = "success" THEN {outcome} ELSE {}
Audit(r, outcome) ==
    CASE req[r].via = "api"  -> AuditLookup(outcome)
      [] req[r].via = "page" -> AuditInquiry(outcome)
      [] req[r].via = "pdf"  -> {None}

Refuse(r, kinds, untrue) ==
    LET outcome == IF req[r].via = "api" THEN PositionError(kinds) ELSE InquiryError(kinds)
    IN  \E a \in Audit(r, outcome) :
            req' = [req EXCEPT ![r].pc = "answered", ![r].outcome = outcome, ![r].audited = a,
                               ![r].misled = @ \cup untrue]
Reject(r, kinds) == Refuse(r, kinds, {})

\* A closed loan is shown with the last collectability Fincloud has of it, left out (0).
Position(source, l, d, quality) == [source |-> source, loan |-> l, day |-> d, quality |-> quality]
\* newResultView: the balance of the position, the arrears of the evidence
\* behind it, and the collectabilities a reconstruction went through.
ResultView(position, actual, timeline) ==
    [position |-> position, actual |-> actual, timeline |-> timeline]
Succeed(r, position, actual, timeline) ==
    \E a \in Audit(r, "success") :
        req' = [req EXCEPT ![r].pc = "answered", ![r].outcome = "success", ![r].audited = a,
                           ![r].result = ResultView(position, actual, timeline)]
NoTimeline == << >>

-----------------------------------------------------------------------------
(* Fincloud: which loan is meant.                                          *)

\* mapLoan: two forms of the close date; an unreadable or different pair is
\* an error (None), no date is 0.
CloseDate(c) ==
    CASE c.object = Blank /\ c.legacy = Blank -> 0
      [] c.object = Blank /\ c.legacy # Blank -> c.legacy
      [] c.object # Blank -> IF c.legacy \in Days /\ c.legacy # c.object THEN None ELSE c.object

\* The contract of l as it is now.
Contract(r, l, untrue) ==
    IF CloseDate(closing[l]) = None
    THEN Reject(r, {"ErrFincloudUnavailable"})
    ELSE req' = [req EXCEPT ![r].pc = "route", ![r].loan = l, ![r].close = CloseDate(closing[l]),
                            ![r].misled = @ \cup untrue]

\* A well-formed request; today is what the service takes for today throughout.
Ask(r, via) ==
    /\ At(r, "idle")
    /\ \E account \in Accounts, d \in Days :
         req' = [req EXCEPT ![r] = [Idle EXCEPT !.account = account, !.asOf = d, !.today = day,
                                                !.via = via, !.pc = "primary"]]
    /\ UNCHANGED world

AskAPI(r)  == Ask(r, "api")
AskPage(r) == Ask(r, "page")
AskPDF(r)  == Ask(r, "pdf")

\* The number is one of the loan's.
Has(l, account) == account \in {l, Bank[l].alternate}

\* A date after today is refused.  ResolveLoan tries the number as a primary
\* account and takes whichever contract comes back; when none does (404, "Data
\* not found", an empty id), it tries it as an alternate one.
GetLoan(r) ==
    LET account == req[r].account
    IN  /\ At(r, "primary")
        /\ IF req[r].asOf > req[r].today THEN Reject(r, {"ErrInvalidInput"})
           ELSE \/ \E l \in Loans : Contract(r, l, IF l = account THEN {} ELSE {"other"})
                \/ req' = [req EXCEPT ![r].pc = "alternate",
                                      ![r].misled = IF account \in Loans THEN {"denied"} ELSE {}]
        /\ UNCHANGED world

\* Fincloud's search, external: a page of any loans; a row shows the alternate
\* account of its loan or leaves it blank, and may even lack the id.  A 404 is
\* like an empty page.
Rows == [id : {Blank}, noalt : {Blank}] \cup
        UNION {[id : {l}, noalt : {Bank[l].alternate, Blank}] : l \in Loans}
Search == {rows \in SUBSET Rows : Cardinality(rows) <= PageSize}

Untrue(rows, account) ==
    {u \in {"blank", "omitted"} :
        \/ /\ u = "blank"
           /\ \E row \in rows : row.id # Blank /\ row.noalt = Blank /\ ~Has(row.id, account)
        \/ /\ u = "omitted"
           /\ \E l \in Loans : Bank[l].alternate = account /\ \A row \in rows : row.id # l}

\* Mutant: every row of the search is taken for a match.
Bug_Candidates(rows, account) == {row.id : row \in {x \in rows : x.id # Blank}}
Candidates(rows, account) ==
    {row.id : row \in {x \in rows : x.id # Blank /\ x.noalt \in {Blank, account}}}

ResolveAlternate(r) ==
    /\ At(r, "alternate")
    /\ \E rows \in Search :
         LET found  == Candidates(rows, req[r].account)
             untrue == Untrue(rows, req[r].account)
         IN  CASE found = {} -> Refuse(r, {"ErrNotFound"}, untrue)
               [] Cardinality(found) > 1 -> Refuse(r, {"ErrAmbiguous"}, untrue)
               [] Cardinality(found) = 1 ->
                    req' = [req EXCEPT ![r].pc = "detail", ![r].loan = CHOOSE l \in found : TRUE,
                                       ![r].misled = @ \cup untrue]
    /\ UNCHANGED world

\* The contract of the loan found: here another loan's is not accepted, and
\* one that does not come back is "not found".
GetResolvedLoan(r) ==
    /\ At(r, "detail")
    /\ \/ \E l \in Loans :
            IF l = req[r].loan \/ CloseDate(closing[l]) = None THEN Contract(r, l, {})
            ELSE Refuse(r, {"ErrInvariant"}, {"other"})
       \/ Refuse(r, {"ErrNotFound"}, {"denied"})
    /\ UNCHANGED world

-----------------------------------------------------------------------------
(* Service.resolvePosition: which source answers.                          *)

\* Mutant: a loan that is closed by now counts as closed.
Bug_ClosedAsOf(r) == req[r].close # 0 /\ req[r].close <= req[r].today
ClosedAsOf(r) == req[r].close # 0 /\ req[r].close <= req[r].asOf

\* Without an alternate account there is no MSO evidence.
Migrated(r) ==
    IF Bank[req[r].loan].alternate = Blank THEN Reject(r, {"ErrHistoricalEvidence"})
    ELSE Goto(r, IF req[r].asOf < Cutoff THEN "history" ELSE "opening")

Route(r) ==
    LET closed == Position("closed", req[r].loan, req[r].asOf, 0)
    IN  /\ At(r, "route")
        /\ IF ClosedAsOf(r) THEN Succeed(r, closed, closed, NoTimeline)
           ELSE IF req[r].asOf > Cutoff THEN Goto(r, "exact")
           ELSE Migrated(r)
        /\ UNCHANGED world

\* The exact position must know when the loan began; it answers for a loan
\* that began in Fincloud.
Lineage(r, exact) ==
    LET start == Bank[req[r].loan].start
    IN  IF start \notin Days \/ start > req[r].asOf THEN Reject(r, {"ErrHistoricalEvidence"})
        ELSE IF start > Cutoff THEN Succeed(r, exact, exact, NoTimeline)
        ELSE IF Bank[req[r].loan].alternate = Blank THEN Reject(r, {"ErrHistoricalEvidence"})
        ELSE req' = [req EXCEPT ![r].pc = "opening", ![r].exact = exact]

\* Mutant: the snapshot is read without its date.
Bug_InSnapshot(l, d) == snapshot # 0
\* The snapshot row of the account and the date.
InSnapshot(l, d) == snapshot = d

SnapshotPosition(r) ==
    LET l == req[r].loan
    IN  /\ At(r, "exact") /\ req[r].asOf = req[r].today
        /\ IF InSnapshot(l, req[r].asOf)
           THEN Lineage(r, Position("snapshot", l, snapshot, Quality[l][snapshot]))
           ELSE Reject(r, {"ErrNotFound", "ErrCurrentSnapshot"})
        /\ UNCHANGED world

\* One row of the day; which one, if there are several, the query leaves open.
DWHPosition(r) ==
    LET l == req[r].loan
        d == req[r].asOf
    IN  /\ At(r, "exact") /\ d # req[r].today
        /\ IF dwh[l][d] = {} THEN Reject(r, {"ErrNotFound", "ErrHistoricalEvidence"})
           ELSE \E quality \in dwh[l][d] : Lineage(r, Position("DWH", l, d, quality))
        /\ UNCHANGED world

\* MSO computes the position of any day up to the cutoff, and knows how the
\* loan bears interest.
MSOState(l, d) == Position("MSO", l, d, Quality[l][d])
IsFlat(l) == Bank[l].flat

HistoricalPosition(r) ==
    LET p == MSOState(req[r].loan, req[r].asOf)
    IN  At(r, "history") /\ Succeed(r, p, p, NoTimeline) /\ UNCHANGED world

\* normalizeContractSchedule and validSchedule: the disbursement row is
\* dropped; the rest must number 1..tenor once each, by ascending dates.
ValidSchedule(rows, tenor) ==
    LET due(n) == {i \in DOMAIN rows : rows[i].number = n}
    IN  /\ tenor > 0
        /\ \A i \in DOMAIN rows : rows[i].number \in 0..tenor
        /\ \A n \in 1..tenor : Cardinality(due(n)) = 1
        /\ \A i, j \in DOMAIN rows : 0 < rows[i].number /\ rows[i].number < rows[j].number
                                     => rows[i].date < rows[j].date

\* OpeningState: the position at the cutoff answers for that day, the exact
\* position for a loan that is not flat.
OpeningState(r) ==
    LET l == req[r].loan
        p == MSOState(l, Cutoff)
        exact == req[r].exact
    IN  /\ At(r, "opening")
        /\ IF req[r].asOf = Cutoff THEN Succeed(r, p, p, NoTimeline)
           ELSE IF ~IsFlat(l) THEN Succeed(r, exact, exact, NoTimeline)
           ELSE IF ~ValidSchedule(Bank[l].schedule, Bank[l].tenor) THEN Reject(r, {"ErrUnsupported"})
           ELSE Goto(r, "timeline")
        /\ UNCHANGED world

\* CollectabilityTimeline: the warehouse rows of the days, None when two rows
\* of one day disagree; a day without row is not missed.
CollectabilityTimeline(l, from, to) ==
    LET rows == {e \in from..to : dwh[l][e] # {}}
    IN  IF \E e \in rows : Cardinality(dwh[l][e]) > 1 THEN None
        ELSE [e \in rows |-> CHOOSE q \in dwh[l][e] : TRUE]

\* Calculate over the days after the cutoff, today's value from the snapshot.
Reconstruct(r) ==
    LET l     == req[r].loan
        d     == req[r].asOf
        today == d = req[r].today
        past  == CollectabilityTimeline(l, Cutoff + 1, IF today THEN d - 1 ELSE d)
        line  == IF today THEN [e \in DOMAIN past \cup {d} |->
                                    IF e = d THEN req[r].exact.quality ELSE past[e]]
                 ELSE past
    IN  /\ At(r, "timeline")
        /\ IF past = None THEN Reject(r, {"ErrHistoricalEvidence"})
           ELSE \/ Succeed(r, Position("reconstructed", l, d, line[Max(DOMAIN line)]),
                           req[r].exact, line)
                \/ Reject(r, {"ErrUnsupported"})
        /\ UNCHANGED world

\* A read fails in the network, in a database or with the request's context,
\* or what it reads is missing or makes no sense.
ReadFails(r) ==
    /\ req[r].asOf <= req[r].today
    /\ \E f \in {<<"primary", {"ErrFincloudUnavailable"}>>, <<"alternate", {"ErrFincloudUnavailable"}>>,
                 <<"detail", {"ErrFincloudUnavailable"}>>, <<"exact", {"ErrDWHUnavailable"}>>,
                 <<"exact", {"ErrCurrentSnapshot"}>>, <<"exact", {"ErrHistoricalEvidence"}>>,
                 <<"history", {"ErrMSOUnavailable"}>>, <<"opening", {"ErrMSOUnavailable"}>>,
                 <<"history", {"ErrNotFound", "ErrHistoricalEvidence"}>>,
                 <<"opening", {"ErrNotFound", "ErrHistoricalEvidence"}>>,
                 <<"timeline", {"ErrDWHUnavailable"}>>} :
         At(r, f[1]) /\ Reject(r, f[2])
    /\ UNCHANGED world

Done(r) == At(r, "answered") /\ req' = [req EXCEPT ![r] = Idle] /\ UNCHANGED world

Inquiry(r) ==
    \/ AskAPI(r) \/ AskPage(r) \/ AskPDF(r) \/ GetLoan(r) \/ ResolveAlternate(r) \/ GetResolvedLoan(r) \/ Route(r)
    \/ SnapshotPosition(r) \/ DWHPosition(r) \/ HistoricalPosition(r) \/ OpeningState(r)
    \/ Reconstruct(r) \/ ReadFails(r) \/ Done(r)

-----------------------------------------------------------------------------
(* The world around it, external.                                          *)

NextDay == day < MaxDay /\ day' = day + 1 /\ UNCHANGED <<closing, snapshot, dwh, req>>

\* A loan is closed on the day it closes, in one of the forms Fincloud uses.
CloseLoan ==
    /\ \E l \in Closable, form \in {"object", "legacy"}, junk \in BOOLEAN :
         /\ closing[l] = [object |-> Blank, legacy |-> Blank]
         /\ Bank[l].start <= day
         /\ closing' = [closing EXCEPT ![l] =
               IF form = "legacy" THEN [object |-> Blank, legacy |-> day]
               ELSE [object |-> day, legacy |-> IF junk THEN None ELSE day]]
    /\ UNCHANGED <<day, snapshot, dwh, req>>

RefreshSnapshot == snapshot' = day /\ UNCHANGED <<day, closing, dwh, req>>

\* The warehouse gets the days in order, each after it is over, sometimes twice.
LoadDWH ==
    /\ \E d \in (Cutoff + 1)..(day - 1), twice \in SUBSET Doubled :
         /\ \A l \in Loans : dwh[l][d] = {} /\ (d > Cutoff + 1 => dwh[l][d - 1] # {})
         /\ dwh' = [l \in Loans |-> [dwh[l] EXCEPT ![d] =
                       {Quality[l][d]} \cup IF l \in twice THEN {5} ELSE {}]]
    /\ UNCHANGED <<day, closing, snapshot, req>>

Next ==
    \/ \E r \in Requests : Inquiry(r)
    \/ NextDay \/ CloseLoan \/ RefreshSnapshot \/ LoadDWH

Spec == Init /\ [][Next]_vars

-----------------------------------------------------------------------------
(* Properties.                                                             *)

TypeOK ==
    /\ day \in FirstDay..MaxDay /\ snapshot \in 0..MaxDay
    /\ closing \in [Loans -> [object : Days \cup {Blank}, legacy : Days \cup {Blank, None}]]
    /\ dwh \in [Loans -> [Days -> SUBSET (1..5)]]
    /\ req \in [Requests -> Request]

Answered(r) == req[r].outcome = "success"

\* ResolveLoan: the loan that is answered for has the number asked for, as
\* its primary or its alternate account, and it is the only one that has it.
\* Provided that Fincloud's first contract is of the loan asked for, which the
\* code does not compare (that of the second is compared), and that, for the
\* one, a row without alternate account is of a loan that has it, which the
\* code takes for granted; for the other, that Fincloud does not deny or leave
\* out of the page a loan that has the number.  Else its search may be as fuzzy
\* as it likes: with a stray blank row the answer is still no other loan than
\* the one that has the number.
AnswersTheRightLoan ==
    \A r \in Requests : Answered(r) =>
        LET q == req[r]
        IN  /\ q.misled \cap {"other", "blank"} = {} => Has(q.loan, q.account)
            /\ q.misled \cap {"other", "denied", "omitted"} = {} =>
                 \A l \in Loans : Has(l, q.account) => l = q.loan

\* Whatever happens between the reads of one inquiry (midnight, a refresh of
\* the snapshot, a load of the warehouse), the balance, the arrears beside it
\* and every point of the timeline are of the loan and of their day.
EvidenceIsOfItsDay ==
    \A r \in Requests : Answered(r) =>
        /\ \A p \in {req[r].result.position, req[r].result.actual} :
             p.loan = req[r].loan /\ p.day = req[r].asOf
        /\ \A e \in DOMAIN req[r].result.timeline :
             req[r].result.timeline[e] = Quality[req[r].loan][e]

\* positionError, inquiryError: errors of the readers join "not found" with
\* what was missing; a caller is told that the account does not exist only
\* when no loan has it, or Fincloud itself denied the loan (an HTTP 404 of any
\* origin counts as that) or left it out of the page.
NotFoundMeansUnknown ==
    \A r \in Requests :
        LET q == req[r]
        IN  q.outcome = "not_found" /\ q.misled \cap {"denied", "omitted"} = {}
            => \A l \in Loans : ~Has(l, q.account)

\* What README.md's data rules say of a past day: facts that are fixed once
\* the day is over.
ClosedOn(l) == LET c == closing[l] IN IF c.object # Blank THEN c.object ELSE c.legacy
Recorded(l, d) ==
    LET at(source) == Position(source, l, d, IF source = "closed" THEN 0 ELSE Quality[l][d])
    IN  IF ClosedOn(l) # Blank /\ ClosedOn(l) <= d THEN ResultView(at("closed"), at("closed"), NoTimeline)
        ELSE IF d <= Cutoff THEN ResultView(at("MSO"), at("MSO"), NoTimeline)
        ELSE IF Bank[l].start > Cutoff \/ ~Bank[l].flat THEN ResultView(at("DWH"), at("DWH"), NoTimeline)
        ELSE ResultView(at("reconstructed"), at("DWH"), [e \in (Cutoff + 1)..d |-> Quality[l][e]])

\* resolvePosition: an answer for a past day is the same at any later time,
\* although the loan was closed since or the warehouse was still being loaded.
\* Provided that the warehouse holds one value for the day: ExactPosition takes
\* any of several.  It rests on a warehouse loaded day by day without gaps and
\* on close dates that are not set back (LoadDWH, CloseLoan).  (For today it may change:
\* yesterday's warehouse row may still be missing from the timeline.)
HistoryIsStable ==
    \A r \in Requests :
        LET l == req[r].loan
            d == req[r].asOf
        IN  /\ Answered(r) /\ d < req[r].today
            /\ Cardinality(dwh[l][d]) <= 1
            => req[r].result = Recorded(l, d)

-----------------------------------------------------------------------------
(***************************************************************************)
(* The inductive invariant behind the properties.                          *)
(***************************************************************************)
\* Fincloud keeps a close date it can read, not later than today; the
\* warehouse holds the day's collectability, besides what was loaded twice,
\* and no day without the days before it.
WorldInv ==
    /\ \A l \in Loans :
         LET c == closing[l]
         IN  /\ c.object = Blank => c.legacy # None
             /\ c.object # Blank => c.legacy \in {None, c.object}
             /\ ClosedOn(l) # Blank => ClosedOn(l) <= day
    /\ \A l \in Loans, d \in Days :
         /\ dwh[l][d] \in {{}, {Quality[l][d]}, {Quality[l][d], 5}}
         /\ dwh[l][d] # {} => \A e \in (Cutoff + 1)..d : dwh[l][e] # {}

\* A request in progress has no outcome yet, and is of a day that is not later
\* than the one it takes for today ...
Contracted == {"route", "exact", "history", "opening", "timeline"}
Identified == Contracted \cup {"detail"}
ProgressInv ==
    \A r \in Requests :
        LET q == req[r]
        IN  /\ q.pc # "answered" => q.outcome = None
            /\ q.pc # "idle" => q.asOf \in Days /\ q.today \in FirstDay..day /\ q.via \in Channels
            /\ q.pc \in Identified \cup {"alternate"} \/ Answered(r) => q.asOf <= q.today

\* ... it knows which loan it is about ...
LoanInv ==
    \A r \in Requests :
        LET q == req[r]
        IN  /\ q.pc = "primary" => q.misled = {}
            /\ q.pc = "alternate" => q.misled = IF q.account \in Loans THEN {"denied"} ELSE {}
            /\ q.pc \in Identified \/ Answered(r) =>
                 /\ q.loan \in Loans
                 /\ q.misled \cap {"other", "blank"} = {} => Has(q.loan, q.account)
                 /\ q.misled \cap {"other", "denied", "omitted"} = {} =>
                      \A l \in Loans : Has(l, q.account) => l = q.loan

\* ... the close date it read is the one Fincloud has, unless the loan was
\* closed after that, which is not before the request's today ...
CloseInv ==
    \A r \in Requests : req[r].pc \in Contracted =>
        LET q == req[r]
        IN  /\ q.close = 0 => ClosedOn(q.loan) = Blank \/ ClosedOn(q.loan) >= q.today
            /\ q.close # 0 => q.close = ClosedOn(q.loan)
            /\ q.pc # "route" => ~ClosedAsOf(r)

\* ... it asks the source that keeps its day, and the exact position it holds
\* was read from the row of its day.
ExactInv ==
    \A r \in Requests :
        LET q == req[r]
            l == q.loan
        IN  /\ q.pc = "history" => q.asOf < Cutoff
            /\ q.pc = "opening" => q.asOf >= Cutoff
            /\ q.pc \in {"exact", "timeline"} => q.asOf > Cutoff
            /\ q.pc = "timeline" => Bank[l].flat
            /\ q.pc \in {"opening", "timeline"} /\ q.asOf > Cutoff =>
                 /\ Bank[l].start \in 1..Cutoff
                 /\ q.exact \in Positions /\ q.exact.loan = l /\ q.exact.day = q.asOf
                 /\ q.asOf = q.today => q.exact.quality = Quality[l][q.asOf]
                 /\ q.asOf # q.today => q.exact.source = "DWH" /\ q.exact.quality \in dwh[l][q.asOf]

IInv == /\ TypeOK /\ WorldInv /\ ProgressInv /\ LoanInv /\ CloseInv /\ ExactInv
        /\ EvidenceIsOfItsDay /\ NotFoundMeansUnknown /\ HistoryIsStable
=============================================================================
