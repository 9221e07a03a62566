----------------------------- MODULE Contractual -----------------------------
(***************************************************************************)
(* The contractual calculator of internal/contractual: it carries the      *)
(* opening balances of a migrated flat loan forward from the cutoff to a   *)
(* later date, accruing the instalments that fall due and allocating the   *)
(* repayments in between.  One action is one iteration of a loop of the    *)
(* code; a behaviour is one call of Calculate.  Amounts are integers in a  *)
(* unit small enough for the exact rationals of the code.                  *)
(***************************************************************************)
EXTENDS Integers, Sequences, Sums

CONSTANT Inputs     \* the calculation inputs that are considered

ZeroDate == 0
Dates    == Nat

Repayments   == [date : Dates, order : Int, principal : Int, interest : Int, other : Int, total : Int]
Installments == [number : Int, dueDate : Dates]
Points       == [date : Dates, value : Int]
Openings     == [principal : Int, principalDue : Int, interestDue : Int, kolek : Int]
Balances     == [principal : Int, principalDue : Int, interestDue : Int, unapplied : Int]

\* principalPerPeriod and interestPerPeriod are what round returns for the two
\* quotients of BuildSchedule; other stands for penalty, early penalty and DWP,
\* which the code treats alike, in rows that have one of them.
CalculationInputs ==
    [asOf : Dates, cutoff : Dates, opening : Openings,
     contractualPrincipal : Int, tenorMonths : Int, flatRatePercent : Int,
     principalPerPeriod : Int, interestPerPeriod : Int,
     contractSchedule : Seq(Installments), repayments : Seq(Repayments), timeline : Seq(Points)]

ASSUME InputsAssumption == Inputs \subseteq CalculationInputs

VARIABLES
    input,          \* the argument of Calculate, never changed
    phase,          \* where Calculate is
    error,          \* the error it returned, "nil" before
    schedule,       \* BuildSchedule: the principal of the rows built so far
    balance,        \* ... and ScheduledBalance after them
    pending,        \* effectiveRepayments: rows of the window not yet looked at
    effective,      \* ... and the rows to apply, in order
    nextDue,        \* the next instalment to accrue
    state,          \* calculationState
    received,       \* history: what was allocated so far
    accrued         \* history: the interest accrued so far

vars == <<input, phase, error, schedule, balance, pending, effective, nextDue, state, received, accrued>>

loopVars  == <<nextDue, state, received, accrued>>
tableVars == <<schedule, balance>>
rowVars   == <<pending, effective>>

Phases == {"validate", "schedule", "timeline", "repayments", "skip", "apply", "done", "failed"}

MinMoney(left, right) == IF left <= right THEN left ELSE right

FailWith(e) == phase' = "failed" /\ error' = e

(***************************************************************************)
(* Definitions named Bug_... are plausible mistakes in the definition that *)
(* follows them.  Nothing uses them: they show that the properties notice. *)
(***************************************************************************)
-----------------------------------------------------------------------------
(***************************************************************************)
(* Validation and BuildSchedule.                                           *)
(***************************************************************************)
ValidOpening(o) ==
    /\ o.principal >= 0 /\ o.interestDue >= 0
    /\ o.principalDue >= 0 /\ o.principalDue <= o.principal
    /\ o.kolek \in 1..5

ValidContract == input.contractualPrincipal > 0 /\ input.tenorMonths > 0 /\ input.flatRatePercent >= 0
ValidRounding == input.principalPerPeriod >= 0 /\ input.interestPerPeriod >= 0

\* The due date of an instalment, by its number.
DueDate(n) ==
    input.contractSchedule[CHOOSE k \in DOMAIN input.contractSchedule :
                              input.contractSchedule[k].number = n].dueDate

\* Sorted by number, the instalments are 1 to tenor with increasing dates.
ValidInstallments ==
    /\ Len(input.contractSchedule) = input.tenorMonths
    /\ \A n \in 1..input.tenorMonths :
          /\ \E k \in DOMAIN input.contractSchedule : input.contractSchedule[k].number = n
          /\ DueDate(n) # ZeroDate
          /\ n > 1 => DueDate(n) > DueDate(n - 1)

EndingIsConsistent ==
    /\ state.principal >= 0 /\ state.interestDue >= 0 /\ state.unapplied >= 0
    /\ state.principalDue >= 0 /\ state.principalDue <= state.principal

FinishCalculation ==
    IF EndingIsConsistent THEN phase' = "done" /\ UNCHANGED error ELSE FailWith("ending")

Validate ==
    /\ phase = "validate"
    /\ \/ /\ input.asOf = ZeroDate \/ input.cutoff = ZeroDate \/ input.asOf < input.cutoff
          /\ FailWith("input")
       \/ /\ input.asOf # ZeroDate /\ input.cutoff # ZeroDate /\ input.asOf >= input.cutoff
          /\ \/ ~ValidOpening(input.opening) /\ FailWith("invariant")
             \/ ValidOpening(input.opening) /\ input.asOf = input.cutoff /\ FinishCalculation
             \/ /\ ValidOpening(input.opening) /\ input.asOf # input.cutoff
                /\ \/ ~ValidContract /\ FailWith("invariant")
                   \/ ValidContract /\ ~ValidInstallments /\ FailWith("unsupported")
                   \/ ValidContract /\ ValidInstallments /\ ~ValidRounding /\ FailWith("invariant")
                   \/ /\ ValidContract /\ ValidInstallments /\ ValidRounding
                      /\ phase' = "schedule" /\ UNCHANGED error
    /\ UNCHANGED <<input, tableVars, rowVars, loopVars>>

\* The last instalment is rounded like the others.
Bug_LastRowRounded ==
    /\ phase = "schedule" /\ Len(schedule) < input.tenorMonths
    /\ \/ /\ input.principalPerPeriod > balance
          /\ FailWith("invariant") /\ UNCHANGED tableVars
       \/ /\ input.principalPerPeriod <= balance
          /\ schedule' = Append(schedule, input.principalPerPeriod)
          /\ balance' = balance - input.principalPerPeriod
          /\ UNCHANGED <<phase, error>>
    /\ UNCHANGED <<input, rowVars, loopVars>>

\* One row of the schedule; the last one takes what is left.
BuildRow ==
    /\ phase = "schedule" /\ Len(schedule) < input.tenorMonths
    /\ LET last   == Len(schedule) + 1 = input.tenorMonths
           amount == IF last THEN balance ELSE input.principalPerPeriod
       IN \/ /\ ~last /\ amount > balance
             /\ FailWith("invariant") /\ UNCHANGED tableVars
          \/ /\ last \/ amount <= balance
             /\ schedule' = Append(schedule, amount) /\ balance' = balance - amount
             /\ UNCHANGED <<phase, error>>
    /\ UNCHANGED <<input, rowVars, loopVars>>

ScheduleBuilt ==
    /\ phase = "schedule" /\ Len(schedule) = input.tenorMonths
    /\ phase' = "timeline"
    /\ UNCHANGED <<input, error, tableVars, rowVars, loopVars>>

ValidTimeline ==
    \A i, j \in DOMAIN input.timeline :
       /\ input.timeline[i].date # ZeroDate /\ input.timeline[i].value \in 1..5
       /\ input.timeline[i].date = input.timeline[j].date => input.timeline[i].value = input.timeline[j].value

InWindow(payment) == payment.date > input.cutoff /\ payment.date <= input.asOf

ValidateTimeline ==
    /\ phase = "timeline"
    /\ \/ ~ValidTimeline /\ FailWith("evidence") /\ UNCHANGED pending
       \/ /\ ValidTimeline /\ phase' = "repayments"
          /\ pending' = {k \in DOMAIN input.repayments : InWindow(input.repayments[k])}
          /\ UNCHANGED error
    /\ UNCHANGED <<input, tableVars, effective, loopVars>>

-----------------------------------------------------------------------------
(***************************************************************************)
(* effectiveRepayments: the rows of the window in the order of date and    *)
(* source order, an exact reversal canceling the row before it.            *)
(***************************************************************************)
Row(k) == input.repayments[k]

\* k stands before m in the stable sort.
Before(k, m) ==
    \/ Row(k).date < Row(m).date
    \/ Row(k).date = Row(m).date /\ Row(k).order < Row(m).order
    \/ Row(k).date = Row(m).date /\ Row(k).order = Row(m).order /\ k < m

IsFirst(k, rows) == k \in rows /\ \A m \in rows \ {k} : Before(k, m)

\* The row after k is a negative one.
ReversalCandidate(k, m) == IsFirst(m, pending \ {k}) /\ Row(m).total < 0

ExactInverse(k, m) ==
    /\ Row(k).principal + Row(m).principal = 0
    /\ Row(k).interest + Row(m).interest = 0
    /\ Row(k).other + Row(m).other = 0
    /\ Row(k).total + Row(m).total = 0

ComponentsEqualTotal(k) == Row(k).principal + Row(k).interest + Row(k).other = Row(k).total
Amount(k) == Row(k).principal + Row(k).interest

RejectRow(k) ==
    \/ Row(k).total < 0 /\ FailWith("reversal")
    \/ /\ Row(k).total = 0
       /\ Row(k).principal # 0 \/ Row(k).interest # 0 \/ Row(k).other # 0
       /\ FailWith("adjustment")
    \/ /\ Row(k).total > 0
       /\ \E m \in pending \ {k} :
             /\ ReversalCandidate(k, m)
             /\ Row(k).date # Row(m).date \/ ~ExactInverse(k, m)
       /\ FailWith("reversal")

\* A positive row that no reversal objects to.
Accepted(k) ==
    /\ Row(k).total > 0
    /\ \A m \in pending \ {k} : ReversalCandidate(k, m) => Row(k).date = Row(m).date /\ ExactInverse(k, m)

\* The row and its reversal are skipped, or the row is kept.
Take(k) ==
    LET reversals == {m \in pending \ {k} : ReversalCandidate(k, m)}
    IN \/ ~ComponentsEqualTotal(k) /\ FailWith("evidence") /\ UNCHANGED rowVars
       \/ /\ ComponentsEqualTotal(k) /\ reversals # {}
          /\ pending' = pending \ ({k} \cup reversals)
          /\ UNCHANGED <<phase, error, effective>>
       \/ /\ ComponentsEqualTotal(k) /\ reversals = {}
          /\ \/ Amount(k) < 0 /\ FailWith("unsupported") /\ UNCHANGED rowVars
             \/ /\ Amount(k) >= 0
                /\ pending' = pending \ {k} /\ effective' = Append(effective, k)
                /\ UNCHANGED <<phase, error>>

ScanRepayment(k) ==
    /\ phase = "repayments" /\ IsFirst(k, pending)
    /\ \/ RejectRow(k) /\ UNCHANGED rowVars
       \/ /\ Row(k).total = 0
          /\ Row(k).principal = 0 /\ Row(k).interest = 0 /\ Row(k).other = 0
          /\ pending' = pending \ {k} /\ UNCHANGED <<phase, error, effective>>
       \/ Accepted(k) /\ Take(k)
    /\ UNCHANGED <<input, tableVars, loopVars>>

RepaymentsScanned ==
    /\ phase = "repayments" /\ pending = {}
    /\ phase' = "skip"
    /\ UNCHANGED <<input, error, tableVars, rowVars, loopVars>>

-----------------------------------------------------------------------------
(***************************************************************************)
(* The main loop of Calculate.                                             *)
(***************************************************************************)
DueBy(date) == nextDue <= Len(schedule) /\ DueDate(nextDue) <= date

\* Instalments that fell due by the cutoff are part of the opening balances.
SkipPastDue ==
    /\ phase = "skip"
    /\ \/ DueBy(input.cutoff) /\ nextDue' = nextDue + 1 /\ UNCHANGED phase
       \/ ~DueBy(input.cutoff) /\ phase' = "apply" /\ UNCHANGED nextDue
    /\ UNCHANGED <<input, error, tableVars, rowVars, state, received, accrued>>

\* The date through which the loop accrues next.
Through == IF effective # <<>> THEN Row(Head(effective)).date ELSE input.asOf

\* What instalment n adds to the balances.
Accrue(s, n) ==
    IF s.principal > 0
      THEN [s EXCEPT !.principalDue = IF s.principal > @ THEN @ + MinMoney(schedule[n], s.principal - @) ELSE @,
                     !.interestDue = @ + input.interestPerPeriod]
      ELSE s

AccrueDue ==
    /\ phase = "apply" /\ DueBy(Through)
    /\ state' = Accrue(state, nextDue)
    /\ nextDue' = nextDue + 1
    /\ accrued' = accrued + (Accrue(state, nextDue).interestDue - state.interestDue)
    /\ UNCHANGED <<input, phase, error, tableVars, rowVars, received>>

\* collectabilityAt: the last point up to the date, or the opening.
PointsUpTo(date) == {k \in DOMAIN input.timeline : input.timeline[k].date <= date}
Collectability(date) ==
    IF PointsUpTo(date) = {}
      THEN input.opening.kolek
      ELSE input.timeline[CHOOSE k \in PointsUpTo(date) :
              \A m \in PointsUpTo(date) : input.timeline[m].date <= input.timeline[k].date].value

\* allocate threads the payment through three buckets.
PayInterest(s) ==
    LET paid == MinMoney(s.payment, s.interestDue)
    IN [s EXCEPT !.interestDue = @ - paid, !.payment = @ - paid]

PayPrincipalDue(s) ==
    LET paid == MinMoney(s.payment, s.principalDue)
    IN [s EXCEPT !.principalDue = @ - paid, !.principal = @ - paid, !.payment = @ - paid]

PayPrincipalAdvance(s) ==
    LET paid == MinMoney(s.payment, s.principal)
    IN [s EXCEPT !.principal = @ - paid, !.payment = @ - paid]

\* Interest comes first only for collectability 1.
Bug_WaterfallOff(s, kolek) ==
    IF kolek < 2
      THEN PayPrincipalAdvance(PayPrincipalDue(PayInterest(s)))
      ELSE PayInterest(PayPrincipalAdvance(PayPrincipalDue(s)))

\* The principal due is left alone by an advance payment.
Bug_AdvanceOnly(s, kolek) ==
    IF kolek <= 2 THEN PayPrincipalAdvance(PayInterest(s)) ELSE PayInterest(PayPrincipalAdvance(s))

Waterfall(s, kolek) ==
    IF kolek <= 2
      THEN PayPrincipalAdvance(PayPrincipalDue(PayInterest(s)))
      ELSE PayInterest(PayPrincipalAdvance(PayPrincipalDue(s)))

Purse(s, payment) ==
    [principal |-> s.principal, principalDue |-> s.principalDue,
     interestDue |-> s.interestDue, payment |-> payment]

\* The rest of a payment that exceeds everything is dropped.
Bug_DropsRest(s, payment, kolek) ==
    LET left == Waterfall(Purse(s, payment), kolek)
    IN [principal |-> left.principal, principalDue |-> left.principalDue,
        interestDue |-> left.interestDue, unapplied |-> s.unapplied]

Allocate(s, payment, kolek) ==
    LET left == Waterfall(Purse(s, payment), kolek)
    IN [principal |-> left.principal, principalDue |-> left.principalDue,
        interestDue |-> left.interestDue, unapplied |-> s.unapplied + left.payment]

\* A row with nothing to allocate changes nothing, as in the code.
ApplyRepayment ==
    /\ phase = "apply" /\ effective # <<>> /\ ~DueBy(Through)
    /\ LET k == Head(effective)
       IN /\ state' = Allocate(state, Amount(k), Collectability(Row(k).date))
          /\ received' = received + Amount(k)
    /\ effective' = Tail(effective)
    /\ UNCHANGED <<input, phase, error, tableVars, pending, nextDue, accrued>>

FinishLoop ==
    /\ phase = "apply" /\ effective = <<>> /\ ~DueBy(Through)
    /\ FinishCalculation
    /\ UNCHANGED <<input, tableVars, rowVars, loopVars>>

Returned == phase \in {"done", "failed"} /\ UNCHANGED vars

-----------------------------------------------------------------------------
\* The opening balances.
Opened == [principal |-> input.opening.principal, principalDue |-> input.opening.principalDue,
           interestDue |-> input.opening.interestDue, unapplied |-> 0]

Init ==
    /\ input \in Inputs
    /\ phase = "validate" /\ error = "nil"
    /\ schedule = <<>> /\ balance = input.contractualPrincipal
    /\ pending = {} /\ effective = <<>>
    /\ nextDue = 1
    /\ state = Opened
    /\ received = 0 /\ accrued = 0

Next ==
    \/ Validate \/ BuildRow \/ ScheduleBuilt \/ ValidateTimeline
    \/ \E k \in pending : ScanRepayment(k)
    \/ RepaymentsScanned \/ SkipPastDue \/ AccrueDue \/ ApplyRepayment \/ FinishLoop
    \/ Returned

Spec == Init /\ [][Next]_vars

-----------------------------------------------------------------------------
(***************************************************************************)
(* A reference: the same loan kept as a daily ledger.  A day accrues what  *)
(* falls due, then spreads the net receipts of the day: no payment order,  *)
(* no pairing of reversals, no distinction of arrears and advances.        *)
(***************************************************************************)
\* What the rows of a date add up to, reversals included.
Receipts(rows, date) ==
    Total([k \in DOMAIN input.repayments |-> IF k \in rows /\ Row(k).date = date THEN Amount(k) ELSE 0])
NetReceipts(date) == Receipts(DOMAIN input.repayments, date)

\* The principal of instalment n, and what becomes due of it on a date.
Scheduled(n) ==
    IF n = input.tenorMonths
      THEN input.contractualPrincipal - (n - 1) * input.principalPerPeriod
      ELSE input.principalPerPeriod

AccruedDay(s, date) ==
    LET due == {n \in 1..input.tenorMonths : DueDate(n) = date}
    IN IF s.principal = 0 \/ due = {} THEN s
       ELSE [s EXCEPT !.principalDue = MinMoney(s.principal, @ + Scheduled(CHOOSE n \in due : TRUE)),
                      !.interestDue = @ + input.interestPerPeriod]

Spread(s, net, kolek) ==
    LET interest  == MinMoney(s.interestDue, IF kolek <= 2 THEN net ELSE net - MinMoney(net, s.principal))
        principal == MinMoney(s.principal, net - interest)
    IN [principal    |-> s.principal - principal,
        principalDue |-> s.principalDue - MinMoney(s.principalDue, principal),
        interestDue  |-> s.interestDue - interest,
        unapplied    |-> s.unapplied + net - interest - principal]

PaidDay(s, date) == Spread(s, NetReceipts(date), Collectability(date))

\* The balances at the end of every day.
DailyLedger ==
    LET day[d \in input.cutoff..input.asOf] ==
          IF d = input.cutoff THEN Opened ELSE PaidDay(AccruedDay(day[d - 1], d), d)
    IN day

-----------------------------------------------------------------------------
(***************************************************************************)
(* Properties                                                              *)
(***************************************************************************)
\* Type correctness of the calculation (calculator.go Calculate).
TypeOK ==
    /\ input \in CalculationInputs
    /\ phase \in Phases
    /\ error \in {"nil", "input", "invariant", "unsupported", "evidence", "reversal", "adjustment", "ending"}
    /\ schedule \in Seq(Int) /\ balance \in Int
    /\ pending \subseteq DOMAIN input.repayments /\ effective \in Seq(DOMAIN input.repayments)
    /\ nextDue \in Nat \ {0}
    /\ state \in Balances
    /\ received \in Int /\ accrued \in Int

\* The check of finish never fires: whatever the repayments, the order of
\* allocation and the rounding, no balance becomes negative and no more
\* principal is due than outstanding (calculator.go finish).
EndingIsValid == error # "ending"

\* No money appears or disappears: what was allocated is what left the
\* principal, plus what left the interest, plus what is reported as unapplied
\* (calculator.go allocate, accrueThrough).
MoneyConserved ==
    received = (input.opening.principal - state.principal)
                 + (input.opening.interestDue + accrued - state.interestDue) + state.unapplied

\* Money is set aside only when nothing is left to pay (calculator.go allocate).
UnappliedOnlyWhenSettled ==
    [][state'.unapplied > state.unapplied => state'.principal = 0 /\ state'.interestDue = 0]_vars

\* A calculation that gets past the repayments has paired every negative row
\* of the window with the exact inverse right before it on the same date
\* (calculator.go effectiveRepayments, exactRepaymentInverse).
Window == {k \in DOMAIN input.repayments : InWindow(Row(k))}

Paired(k) ==
    \E m \in Window :
       /\ Before(m, k) /\ Row(m).date = Row(k).date
       /\ Row(m).principal = -Row(k).principal /\ Row(m).interest = -Row(k).interest
       /\ Row(m).other = -Row(k).other /\ Row(m).total = -Row(k).total
       /\ \A o \in Window \ {m, k} : Before(o, m) \/ Before(k, o)

ReversalsArePaired ==
    phase \in {"skip", "apply", "done"} => \A k \in Window : Row(k).total < 0 => Paired(k)

\* The rows of a finished schedule add up to the contractual principal,
\* whatever the rounding policy (calculator.go BuildSchedule).
ScheduleAddsUp ==
    phase \in {"timeline", "repayments", "skip", "apply"} =>
       /\ Total(schedule) = input.contractualPrincipal /\ balance = 0
       /\ \A n \in DOMAIN schedule : schedule[n] >= 0

\* The loop over payments, which accrues lazily and allocates one by one,
\* computes the balances of the daily ledger (calculator.go Calculate).
MatchesDailyLedger == phase = "done" => state = DailyLedger[input.asOf]

-----------------------------------------------------------------------------
(***************************************************************************)
(* The inductive invariant behind the safety properties.                   *)
(***************************************************************************)
Working == {"schedule", "timeline", "repayments", "skip", "apply", "done"}

\* Before the validation nothing has happened to the opening balances.
StartInv ==
    phase = "validate" =>
       /\ balance = input.contractualPrincipal
       /\ state.principal = input.opening.principal /\ state.principalDue = input.opening.principalDue
       /\ state.interestDue = input.opening.interestDue /\ state.unapplied = 0

\* Balances stay consistent from the validation of the opening on ...
BalanceInv == phase \in Working => EndingIsConsistent

\* ... because rows and repayments are never negative.
RowsInv ==
    /\ phase \in Working \ {"done"} => balance >= 0 /\ ValidRounding
    /\ \A n \in 1..Len(schedule) : schedule[n] >= 0
    /\ \A n \in 1..Len(effective) : Amount(effective[n]) >= 0

\* The rows built so far and the balance after them make up the contract.
TableInv ==
    /\ Total(schedule) + balance = input.contractualPrincipal
    /\ phase = "validate" => schedule = <<>>
    /\ phase = "schedule" =>
          /\ input.tenorMonths > 0
          /\ Len(schedule) <= input.tenorMonths
          /\ Len(schedule) = input.tenorMonths => balance = 0
    /\ phase \in {"timeline", "repayments", "skip", "apply"} => balance = 0

\* What has been looked at stands before what has not, and is paired.
ScanInv ==
    /\ phase \in {"validate", "schedule", "timeline"} => pending = {}
    /\ phase \in {"skip", "apply"} => pending = {}
    /\ phase \in {"repayments", "skip", "apply"} =>
          /\ pending \subseteq Window
          /\ \A k \in Window \ pending :
                /\ \A m \in pending : Before(k, m)
                /\ Row(k).total < 0 => Paired(k)
    /\ phase = "done" => \A k \in Window : Row(k).total < 0 => Paired(k)

(***************************************************************************)
(* The invariant behind MatchesDailyLedger.                                *)
(***************************************************************************)
\* What was validated stays valid, and the rows are those of the ledger ...
ContractInv ==
    /\ phase \in Working => input.cutoff <= input.asOf
    /\ phase \in Working \ {"done"} =>
          /\ ValidContract /\ ValidInstallments /\ input.cutoff < input.asOf
          /\ \A n \in DOMAIN schedule : schedule[n] = Scheduled(n)
    /\ phase = "schedule" /\ Len(schedule) < input.tenorMonths =>
          balance = input.contractualPrincipal - Len(schedule) * input.principalPerPeriod
    /\ phase \in {"timeline", "repayments", "skip", "apply"} => Len(schedule) = input.tenorMonths

\* ... the rows kept are in order, and no receipt of a day was lost ...
Left == {effective[i] : i \in DOMAIN effective}
KeptInv ==
    /\ phase \in {"validate", "schedule", "timeline"} => effective = <<>>
    /\ phase \in {"repayments", "skip", "apply"} =>
          /\ Left \subseteq Window \ pending
          /\ \A i, j \in DOMAIN effective : i < j => Before(effective[i], effective[j])
    /\ phase \in {"repayments", "skip"} =>
          \A x \in (input.cutoff + 1)..input.asOf : NetReceipts(x) = Receipts(Left \cup pending, x)

\* ... until the loop only instalments of the opening are skipped ...
OpeningInv ==
    /\ phase \in {"validate", "schedule", "timeline", "repayments", "skip"} => state = Opened
    /\ phase \in {"validate", "schedule", "timeline", "repayments"} => nextDue = 1
    /\ phase = "skip" => /\ nextDue <= input.tenorMonths + 1
                         /\ \A n \in 1..(nextDue - 1) : DueDate(n) <= input.cutoff

\* ... and then the loop is somewhere within a day of the ledger: the
\* instalments up to it are accrued, and a part of its receipts is spread.
Sound(s) == /\ s.principal >= 0 /\ s.interestDue >= 0
            /\ s.principalDue >= 0 /\ s.principalDue <= s.principal
Reached(ledger, d, next, left, s) ==
    /\ next <= input.tenorMonths + 1
    /\ \A n \in 1..input.tenorMonths : n < next <=> DueDate(n) <= d
    /\ \A k \in left : Row(k).date >= d
    /\ \A x \in (d + 1)..input.asOf : NetReceipts(x) = Receipts(left, x)
    /\ d = input.cutoff => s = ledger[d]
    /\ d # input.cutoff =>
          LET accruedDay == AccruedDay(ledger[d - 1], d)
              spread     == NetReceipts(d) - Receipts(left, d)
          IN  /\ accruedDay \in Balances /\ Sound(accruedDay) /\ spread >= 0
              /\ s = Spread(accruedDay, spread, Collectability(d))
LoopInv(ledger) ==
    /\ phase = "apply" => \E d \in input.cutoff..input.asOf : Reached(ledger, d, nextDue, Left, state)
    /\ phase = "done" => state = ledger[input.asOf]

\* Of these parts, the instance of the ledger itself.
LedgerInv == ContractInv /\ KeptInv /\ OpeningInv /\ LoopInv(DailyLedger)

CInv == TypeOK /\ EndingIsValid /\ StartInv /\ BalanceInv /\ RowsInv /\ TableInv /\ MoneyConserved /\ ScanInv
=============================================================================
