------------------------- MODULE ContractualProofs -------------------------
(***************************************************************************)
(* Proofs about the contractual calculator, for every set of inputs.       *)
(***************************************************************************)
EXTENDS Contractual, SequenceTheorems, Induction, TLAPS

-----------------------------------------------------------------------------
(***************************************************************************)
(* Types.                                                                  *)
(***************************************************************************)
Purses == [principal : Int, principalDue : Int, interestDue : Int, payment : Int]

\* Rows of the repayments have amounts (loan/model.go Repayment).
LEMMA RowTypes ==
  ASSUME TypeOK, NEW k \in DOMAIN input.repayments
  PROVE  Row(k) \in Repayments /\ Amount(k) \in Int
  <1>1. Row(k) \in Repayments
    BY DEF TypeOK, CalculationInputs, Row
  <1> QED BY <1>1 DEF Amount, Repayments

\* What paying the interest bucket changes (calculator.go payBucket).
LEMMA InterestFields ==
  ASSUME NEW s \in Purses
  PROVE  /\ PayInterest(s) \in Purses
         /\ PayInterest(s).principal = s.principal
         /\ PayInterest(s).principalDue = s.principalDue
         /\ PayInterest(s).interestDue = s.interestDue - MinMoney(s.payment, s.interestDue)
         /\ PayInterest(s).payment = s.payment - MinMoney(s.payment, s.interestDue)
  <1> DEFINE paid == MinMoney(s.payment, s.interestDue)
             i == s.interestDue - paid
             r == s.payment - paid
  <1>1. i \in Int /\ r \in Int
    BY DEF Purses, MinMoney
  <1>2. PayInterest(s) = [s EXCEPT !.interestDue = i, !.payment = r]
    BY DEF PayInterest
  <1> HIDE DEF i, r
  <1>3. [s EXCEPT !.interestDue = i, !.payment = r] \in Purses
    BY <1>1 DEF Purses
  <1>4. /\ PayInterest(s).principal = s.principal /\ PayInterest(s).principalDue = s.principalDue
       /\ PayInterest(s).interestDue = i /\ PayInterest(s).payment = r
    BY <1>1, <1>2 DEF Purses
  <1> QED BY <1>2, <1>3, <1>4 DEF i, r

\* What paying the principal due changes (calculator.go payPrincipalDue).
LEMMA PrincipalDueFields ==
  ASSUME NEW s \in Purses
  PROVE  /\ PayPrincipalDue(s) \in Purses
         /\ PayPrincipalDue(s).principal = s.principal - MinMoney(s.payment, s.principalDue)
         /\ PayPrincipalDue(s).principalDue = s.principalDue - MinMoney(s.payment, s.principalDue)
         /\ PayPrincipalDue(s).interestDue = s.interestDue
         /\ PayPrincipalDue(s).payment = s.payment - MinMoney(s.payment, s.principalDue)
  <1> DEFINE paid == MinMoney(s.payment, s.principalDue)
             d == s.principalDue - paid
             p == s.principal - paid
             r == s.payment - paid
  <1>1. d \in Int /\ p \in Int /\ r \in Int
    BY DEF Purses, MinMoney
  <1>2. PayPrincipalDue(s) = [s EXCEPT !.principalDue = d, !.principal = p, !.payment = r]
    BY DEF PayPrincipalDue
  <1> HIDE DEF d, p, r
  <1>3. [s EXCEPT !.principalDue = d, !.principal = p, !.payment = r] \in Purses
    BY <1>1 DEF Purses
  <1>4. /\ PayPrincipalDue(s).principal = p /\ PayPrincipalDue(s).principalDue = d
       /\ PayPrincipalDue(s).interestDue = s.interestDue /\ PayPrincipalDue(s).payment = r
    BY <1>1, <1>2 DEF Purses
  <1> QED BY <1>2, <1>3, <1>4 DEF d, p, r

\* What paying principal in advance changes (calculator.go payPrincipalAdvance).
LEMMA PrincipalAdvanceFields ==
  ASSUME NEW s \in Purses
  PROVE  /\ PayPrincipalAdvance(s) \in Purses
         /\ PayPrincipalAdvance(s).principal = s.principal - MinMoney(s.payment, s.principal)
         /\ PayPrincipalAdvance(s).principalDue = s.principalDue
         /\ PayPrincipalAdvance(s).interestDue = s.interestDue
         /\ PayPrincipalAdvance(s).payment = s.payment - MinMoney(s.payment, s.principal)
  <1> DEFINE paid == MinMoney(s.payment, s.principal)
             p == s.principal - paid
             r == s.payment - paid
  <1>1. p \in Int /\ r \in Int
    BY DEF Purses, MinMoney
  <1>2. PayPrincipalAdvance(s) = [s EXCEPT !.principal = p, !.payment = r]
    BY DEF PayPrincipalAdvance
  <1> HIDE DEF p, r
  <1>3. [s EXCEPT !.principal = p, !.payment = r] \in Purses
    BY <1>1 DEF Purses
  <1>4. /\ PayPrincipalAdvance(s).principal = p /\ PayPrincipalAdvance(s).principalDue = s.principalDue
       /\ PayPrincipalAdvance(s).interestDue = s.interestDue /\ PayPrincipalAdvance(s).payment = r
    BY <1>1, <1>2 DEF Purses
  <1> QED BY <1>2, <1>3, <1>4 DEF p, r

\* allocate returns balances (calculator.go allocate).
LEMMA AllocateTypes ==
  ASSUME NEW s \in Balances, NEW payment \in Int, NEW kolek
  PROVE  Allocate(s, payment, kolek) \in Balances
  <1>1. Purse(s, payment) \in Purses
    BY DEF Purse, Purses, Balances
  <1>2. Waterfall(Purse(s, payment), kolek) \in Purses
    BY <1>1, InterestFields, PrincipalDueFields, PrincipalAdvanceFields DEF Waterfall
  <1>3. s.unapplied \in Int
    BY DEF Balances
  <1> QED BY <1>2, <1>3 DEF Allocate, Balances, Purses

\* What an instalment changes (calculator.go accrueThrough).
LEMMA AccrueFields ==
  ASSUME NEW s \in Balances, NEW n, schedule[n] \in Int, input.interestPerPeriod \in Int
  PROVE  /\ Accrue(s, n) \in Balances
         /\ Accrue(s, n).principal = s.principal /\ Accrue(s, n).unapplied = s.unapplied
         /\ Accrue(s, n).principalDue =
               IF s.principal > 0 /\ s.principal > s.principalDue
                 THEN s.principalDue + MinMoney(schedule[n], s.principal - s.principalDue) ELSE s.principalDue
         /\ Accrue(s, n).interestDue =
               IF s.principal > 0 THEN s.interestDue + input.interestPerPeriod ELSE s.interestDue
  <1> DEFINE d == IF s.principal > s.principalDue
                    THEN s.principalDue + MinMoney(schedule[n], s.principal - s.principalDue) ELSE s.principalDue
             i == s.interestDue + input.interestPerPeriod
  <1>1. d \in Int /\ i \in Int
    BY DEF Balances, MinMoney
  <1>2. Accrue(s, n) = IF s.principal > 0 THEN [s EXCEPT !.principalDue = d, !.interestDue = i] ELSE s
    BY DEF Accrue
  <1> HIDE DEF d, i
  <1>3. [s EXCEPT !.principalDue = d, !.interestDue = i] \in Balances
    BY <1>1 DEF Balances
  <1>4. ASSUME s.principal > 0
        PROVE  /\ Accrue(s, n).principal = s.principal /\ Accrue(s, n).unapplied = s.unapplied
               /\ Accrue(s, n).principalDue = d /\ Accrue(s, n).interestDue = i
    BY <1>1, <1>2, <1>4 DEF Balances
  <1>5. CASE s.principal > 0
    BY <1>2, <1>3, <1>4, <1>5 DEF d, i
  <1>6. CASE ~(s.principal > 0)
    BY <1>2, <1>6
  <1> QED BY <1>5, <1>6

\* Type correctness is inductive (calculator.go Calculate).
LEMMA TypeStep == TypeOK /\ [Next]_vars => TypeOK'
  <1> SUFFICES ASSUME TypeOK, [Next]_vars PROVE TypeOK'
    OBVIOUS
  <1> USE DEF Phases
  <1>1. CASE Validate
    BY <1>1 DEF TypeOK, Validate, FailWith, FinishCalculation, tableVars, rowVars, loopVars
  <1>2. CASE BuildRow
    <2>1. input.principalPerPeriod \in Int
      BY DEF TypeOK, CalculationInputs
    <2> DEFINE amount == IF Len(schedule) + 1 = input.tenorMonths THEN balance ELSE input.principalPerPeriod
    <2>3. amount \in Int
      BY <2>1 DEF TypeOK
    <2>4. \/ UNCHANGED <<schedule, balance>>
          \/ schedule' = Append(schedule, amount) /\ balance' = balance - amount
      BY <1>2 DEF BuildRow, tableVars
    <2> HIDE DEF amount
    <2>2. schedule' \in Seq(Int) /\ balance' \in Int
      <3>1. schedule \in Seq(Int) /\ balance \in Int
        BY DEF TypeOK
      <3>2. Append(schedule, amount) \in Seq(Int) /\ balance - amount \in Int
        BY <2>3, <3>1, AppendProperties
      <3> QED BY <2>4, <3>1, <3>2
    <2> QED BY <1>2, <2>2 DEF TypeOK, BuildRow, FailWith, rowVars, loopVars
  <1>3. CASE ScheduleBuilt
    BY <1>3 DEF TypeOK, ScheduleBuilt, tableVars, rowVars, loopVars
  <1>4. CASE ValidateTimeline
    BY <1>4 DEF TypeOK, ValidateTimeline, FailWith, tableVars, loopVars
  <1>5. ASSUME NEW k \in pending, ScanRepayment(k) PROVE TypeOK'
    <2>1. pending' \subseteq DOMAIN input.repayments
      BY <1>5 DEF TypeOK, ScanRepayment, RejectRow, Take, rowVars
    <2>2. effective' \in Seq(DOMAIN input.repayments)
      <3>1. effective' = effective \/ effective' = Append(effective, k)
        BY <1>5 DEF ScanRepayment, Take, rowVars
      <3>2. k \in DOMAIN input.repayments /\ effective \in Seq(DOMAIN input.repayments)
        BY <1>5 DEF TypeOK
      <3>3. Append(effective, k) \in Seq(DOMAIN input.repayments)
        BY <3>2, AppendProperties
      <3> QED BY <3>1, <3>2, <3>3
    <2>3. phase' \in Phases /\ error' \in {"nil", "input", "invariant", "unsupported", "evidence", "reversal", "adjustment", "ending"}
      BY <1>5 DEF TypeOK, ScanRepayment, RejectRow, Take, FailWith
    <2> QED BY <1>5, <2>1, <2>2, <2>3 DEF TypeOK, ScanRepayment, tableVars, loopVars
  <1>6. CASE RepaymentsScanned
    BY <1>6 DEF TypeOK, RepaymentsScanned, tableVars, rowVars, loopVars
  <1>7. CASE SkipPastDue
    BY <1>7 DEF TypeOK, SkipPastDue, tableVars, rowVars
  <1>8. CASE AccrueDue
    <2>1. schedule[nextDue] \in Int /\ input.interestPerPeriod \in Int
      BY <1>8 DEF TypeOK, AccrueDue, DueBy, CalculationInputs
    <2>2. Accrue(state, nextDue) \in Balances
      BY <2>1, AccrueFields DEF TypeOK, Balances
    <2>3. state' \in Balances /\ accrued' \in Int
      BY <1>8, <2>2 DEF TypeOK, AccrueDue, Balances
    <2> QED BY <1>8, <2>3 DEF TypeOK, AccrueDue, Balances, tableVars, rowVars
  <1>9. CASE ApplyRepayment
    <2> DEFINE k == Head(effective)
    <2>1. k \in DOMAIN input.repayments /\ effective' \in Seq(DOMAIN input.repayments)
      BY <1>9 DEF TypeOK, ApplyRepayment
    <2>2. Amount(k) \in Int
      BY <2>1, RowTypes
    <2>3. Allocate(state, Amount(k), Collectability(Row(k).date)) \in Balances
      BY <2>2, AllocateTypes DEF TypeOK, Balances
    <2>4. state' \in Balances /\ received' \in Int
      BY <1>9, <2>2, <2>3 DEF TypeOK, ApplyRepayment
    <2> QED BY <1>9, <2>1, <2>4 DEF TypeOK, ApplyRepayment, Balances, tableVars
  <1>10. CASE FinishLoop
    BY <1>10 DEF TypeOK, FinishLoop, FinishCalculation, FailWith, tableVars, rowVars, loopVars
  <1>11. CASE UNCHANGED vars
    BY <1>11 DEF TypeOK, vars
  <1> QED
    BY <1>1, <1>2, <1>3, <1>4, <1>5, <1>6, <1>7, <1>8, <1>9, <1>10, <1>11 DEF Next, Returned

-----------------------------------------------------------------------------
(***************************************************************************)
(* Allocation.                                                             *)
(***************************************************************************)
\* Paying interest keeps the balances sound and loses no money (payBucket).
LEMMA InterestSound ==
  ASSUME NEW s \in Purses, Sound(s), s.payment >= 0
  PROVE  /\ PayInterest(s) \in Purses /\ Sound(PayInterest(s))
         /\ 0 <= PayInterest(s).payment /\ PayInterest(s).payment <= s.payment
         /\ s.payment = PayInterest(s).payment + (s.interestDue - PayInterest(s).interestDue)
         /\ PayInterest(s).principal = s.principal /\ PayInterest(s).principalDue = s.principalDue
         /\ PayInterest(s).payment > 0 => PayInterest(s).interestDue = 0
  <1> DEFINE t == PayInterest(s)
  <1>1. /\ s.principal \in Int /\ s.principalDue \in Int /\ s.interestDue \in Int /\ s.payment \in Int
        /\ t \in Purses
    BY InterestFields DEF Purses
  <1> QED BY <1>1, InterestFields DEF Sound, MinMoney

\* So does paying the principal due (payPrincipalDue) ...
LEMMA PrincipalDueSound ==
  ASSUME NEW s \in Purses, Sound(s), s.payment >= 0
  PROVE  /\ PayPrincipalDue(s) \in Purses /\ Sound(PayPrincipalDue(s))
         /\ 0 <= PayPrincipalDue(s).payment /\ PayPrincipalDue(s).payment <= s.payment
         /\ s.payment = PayPrincipalDue(s).payment + (s.principal - PayPrincipalDue(s).principal)
         /\ PayPrincipalDue(s).interestDue = s.interestDue
         /\ PayPrincipalDue(s).payment > 0 => PayPrincipalDue(s).principalDue = 0
  <1> DEFINE t == PayPrincipalDue(s)
  <1>1. /\ s.principal \in Int /\ s.principalDue \in Int /\ s.interestDue \in Int /\ s.payment \in Int
        /\ t \in Purses
    BY PrincipalDueFields DEF Purses
  <1> QED BY <1>1, PrincipalDueFields DEF Sound, MinMoney

\* ... and paying in advance, once nothing is due (payPrincipalAdvance).
LEMMA PrincipalAdvanceSound ==
  ASSUME NEW s \in Purses, Sound(s), s.payment >= 0, s.payment > 0 => s.principalDue = 0
  PROVE  /\ PayPrincipalAdvance(s) \in Purses /\ Sound(PayPrincipalAdvance(s))
         /\ 0 <= PayPrincipalAdvance(s).payment /\ PayPrincipalAdvance(s).payment <= s.payment
         /\ s.payment = PayPrincipalAdvance(s).payment + (s.principal - PayPrincipalAdvance(s).principal)
         /\ PayPrincipalAdvance(s).interestDue = s.interestDue
         /\ PayPrincipalAdvance(s).payment > 0 => PayPrincipalAdvance(s).principal = 0
  <1> DEFINE t == PayPrincipalAdvance(s)
  <1>1. /\ s.principal \in Int /\ s.principalDue \in Int /\ s.interestDue \in Int /\ s.payment \in Int
        /\ t \in Purses
    BY PrincipalAdvanceFields DEF Purses
  <1> QED BY <1>1, PrincipalAdvanceFields DEF Sound, MinMoney

\* Whatever the order of the buckets, allocate keeps the balances sound, loses
\* no money and has a rest only when everything is paid (calculator.go allocate).
LEMMA WaterfallFacts ==
  ASSUME NEW s \in Purses, Sound(s), s.payment >= 0, NEW kolek
  PROVE  LET t == Waterfall(s, kolek)
         IN /\ t \in Purses /\ Sound(t) /\ t.payment >= 0
            /\ s.payment = t.payment + (s.principal - t.principal) + (s.interestDue - t.interestDue)
            /\ t.payment > 0 => t.principal = 0 /\ t.interestDue = 0
  <1>1. CASE kolek <= 2
    <2> DEFINE a == PayInterest(s)
               b == PayPrincipalDue(a)
               c == PayPrincipalAdvance(b)
    <2>0. Waterfall(s, kolek) = c
      BY <1>1 DEF Waterfall
    <2>1. /\ a \in Purses /\ Sound(a) /\ 0 <= a.payment
          /\ s.payment = a.payment + (s.interestDue - a.interestDue) /\ a.principal = s.principal
          /\ a.payment > 0 => a.interestDue = 0
      BY InterestSound
    <2> HIDE DEF a
    <2>2. /\ b \in Purses /\ Sound(b) /\ 0 <= b.payment /\ b.payment <= a.payment
          /\ a.payment = b.payment + (a.principal - b.principal) /\ b.interestDue = a.interestDue
          /\ b.payment > 0 => b.principalDue = 0
      BY <2>1, PrincipalDueSound DEF Purses
    <2> HIDE DEF b
    <2>3. /\ c \in Purses /\ Sound(c) /\ 0 <= c.payment /\ c.payment <= b.payment
          /\ b.payment = c.payment + (b.principal - c.principal) /\ c.interestDue = b.interestDue
          /\ c.payment > 0 => c.principal = 0
      BY <2>2, PrincipalAdvanceSound DEF Purses
    <2> HIDE DEF c
    <2> QED BY <2>0, <2>1, <2>2, <2>3 DEF Purses
  <1>2. CASE ~(kolek <= 2)
    <2> DEFINE a == PayPrincipalDue(s)
               b == PayPrincipalAdvance(a)
               c == PayInterest(b)
    <2>0. Waterfall(s, kolek) = c
      BY <1>2 DEF Waterfall
    <2>1. /\ a \in Purses /\ Sound(a) /\ 0 <= a.payment
          /\ s.payment = a.payment + (s.principal - a.principal) /\ a.interestDue = s.interestDue
          /\ a.payment > 0 => a.principalDue = 0
      BY PrincipalDueSound
    <2> HIDE DEF a
    <2>2. /\ b \in Purses /\ Sound(b) /\ 0 <= b.payment /\ b.payment <= a.payment
          /\ a.payment = b.payment + (a.principal - b.principal) /\ b.interestDue = a.interestDue
          /\ b.payment > 0 => b.principal = 0
      BY <2>1, PrincipalAdvanceSound DEF Purses
    <2> HIDE DEF b
    <2>3. /\ c \in Purses /\ Sound(c) /\ 0 <= c.payment /\ c.payment <= b.payment
          /\ b.payment = c.payment + (b.interestDue - c.interestDue) /\ c.principal = b.principal
          /\ c.payment > 0 => c.interestDue = 0
      BY <2>2, InterestSound DEF Purses
    <2> HIDE DEF c
    <2> QED BY <2>0, <2>1, <2>2, <2>3 DEF Purses
  <1> QED BY <1>1, <1>2

\* The same for the balances of a calculation.
LEMMA AllocateFacts ==
  ASSUME NEW s \in Balances, Sound(s), NEW payment \in Nat, NEW kolek
  PROVE  LET t == Allocate(s, payment, kolek)
         IN /\ t \in Balances /\ Sound(t) /\ t.unapplied >= s.unapplied
            /\ payment = (t.unapplied - s.unapplied) + (s.principal - t.principal) + (s.interestDue - t.interestDue)
            /\ t.unapplied > s.unapplied => t.principal = 0 /\ t.interestDue = 0
  <1> DEFINE u == Purse(s, payment)
             w == Waterfall(u, kolek)
  <1>1. /\ u \in Purses /\ Sound(u) /\ u.payment = payment
        /\ u.principal = s.principal /\ u.interestDue = s.interestDue
    BY DEF Purse, Purses, Balances, Sound
  <1> HIDE DEF u
  <1>2. /\ w \in Purses /\ Sound(w) /\ w.payment >= 0
        /\ u.payment = w.payment + (u.principal - w.principal) + (u.interestDue - w.interestDue)
        /\ w.payment > 0 => w.principal = 0 /\ w.interestDue = 0
    BY <1>1, WaterfallFacts
  <1>3. Allocate(s, payment, kolek) =
          [principal |-> w.principal, principalDue |-> w.principalDue,
           interestDue |-> w.interestDue, unapplied |-> s.unapplied + w.payment]
    BY DEF Allocate, u
  <1> HIDE DEF w
  <1>4. s.unapplied \in Int
    BY DEF Balances
  <1> QED BY <1>1, <1>2, <1>3, <1>4 DEF Balances, Purses, Sound
-----------------------------------------------------------------------------
(***************************************************************************)
(* The steps keep the balances.                                            *)
(***************************************************************************)
\* The input never changes (calculator.go Calculate takes it by value).
LEMMA InputIsFixed == [Next]_vars => input' = input
  BY DEF Next, vars, Validate, BuildRow, ScheduleBuilt, ValidateTimeline, ScanRepayment,
         RepaymentsScanned, SkipPastDue, AccrueDue, ApplyRepayment, FinishLoop, Returned

\* Rows and repayments stay non-negative (calculator.go BuildSchedule,
\* effectiveRepayments).
LEMMA RowsStep == CInv /\ [Next]_vars => RowsInv'
  <1> SUFFICES ASSUME CInv, [Next]_vars PROVE RowsInv'
    OBVIOUS
  <1>0. TypeOK /\ RowsInv /\ StartInv /\ input' = input
    BY InputIsFixed DEF CInv
  <1>s. /\ schedule \in Seq(Int) /\ balance \in Int /\ effective \in Seq(DOMAIN input.repayments)
        /\ input.contractualPrincipal \in Int /\ input.principalPerPeriod \in Int
    BY <1>0 DEF TypeOK, CalculationInputs
  <1>a. UNCHANGED tableVars /\ UNCHANGED effective /\ (phase' \in Working \ {"done"} => phase \in Working \ {"done"})
          => RowsInv'
    BY <1>0 DEF RowsInv, tableVars, Amount, Row, ValidRounding
  <1>1. CASE Validate
    <2>1. UNCHANGED <<schedule, balance, effective>>
      BY <1>1 DEF Validate, tableVars, rowVars
    <2>2. phase' \in Working \ {"done"} => balance >= 0 /\ ValidRounding
      BY <1>0, <1>1, <1>s DEF Validate, FailWith, FinishCalculation, StartInv, ValidContract, Working
    <2> QED BY <1>0, <2>1, <2>2 DEF RowsInv, Amount, Row, ValidRounding
  <1>2. CASE BuildRow
    <2> DEFINE last   == Len(schedule) + 1 = input.tenorMonths
               amount == IF last THEN balance ELSE input.principalPerPeriod
    <2>1. UNCHANGED effective /\ phase \in Working \ {"done"}
      BY <1>2 DEF BuildRow, rowVars, Working
    <2>2. CASE UNCHANGED tableVars
      BY <1>a, <2>1, <2>2
    <2>3. CASE schedule' = Append(schedule, amount) /\ balance' = balance - amount /\ (last \/ amount <= balance)
      <3>1. amount \in Int /\ amount >= 0 /\ balance - amount >= 0
        BY <1>0, <1>s, <2>1, <2>3 DEF RowsInv, ValidRounding
      <3> HIDE DEF amount
      <3>2. \A n \in 1..Len(schedule') : schedule'[n] >= 0
        BY <1>0, <1>s, <2>3, <3>1, AppendProperties DEF RowsInv
      <3> QED BY <1>0, <2>1, <2>3, <3>1, <3>2 DEF RowsInv, Amount, Row, ValidRounding
    <2> QED BY <1>2, <2>2, <2>3 DEF BuildRow
  <1>3. CASE ScheduleBuilt
    BY <1>3, <1>a DEF ScheduleBuilt, rowVars, Working
  <1>4. CASE ValidateTimeline
    BY <1>4, <1>a DEF ValidateTimeline, Working
  <1>5. ASSUME NEW k \in pending, ScanRepayment(k) PROVE RowsInv'
    <2>1. UNCHANGED tableVars /\ phase \in Working \ {"done"}
      BY <1>5 DEF ScanRepayment, Working
    <2>2. CASE UNCHANGED effective
      BY <1>a, <2>1, <2>2
    <2>3. CASE effective' = Append(effective, k) /\ Amount(k) >= 0
      <3>1. k \in DOMAIN input.repayments
        BY <1>0, <1>5 DEF TypeOK
      <3>2. \A n \in 1..Len(effective') : Amount(effective'[n]) >= 0
        BY <1>0, <1>s, <2>3, <3>1, AppendProperties DEF RowsInv
      <3> QED BY <1>0, <2>1, <3>2 DEF RowsInv, Amount, Row, ValidRounding, tableVars
    <2> QED BY <1>5, <2>2, <2>3 DEF ScanRepayment, Take, rowVars
  <1>6. CASE RepaymentsScanned
    BY <1>6, <1>a DEF RepaymentsScanned, rowVars, Working
  <1>7. CASE SkipPastDue
    BY <1>7, <1>a DEF SkipPastDue, rowVars, Working
  <1>8. CASE AccrueDue
    BY <1>8, <1>a DEF AccrueDue, rowVars, Working
  <1>9. CASE ApplyRepayment
    <2>1. UNCHANGED <<schedule, balance, phase>> /\ effective' = Tail(effective) /\ effective # <<>>
      BY <1>9 DEF ApplyRepayment, tableVars
    <2>2. \A n \in 1..Len(effective') : Amount(effective'[n]) >= 0
      <3>1. /\ Tail(effective) \in Seq(DOMAIN input.repayments) /\ Len(Tail(effective)) = Len(effective) - 1
            /\ \A n \in 1..Len(Tail(effective)) : Tail(effective)[n] = effective[n + 1]
        BY <1>s, <2>1, HeadTailProperties
      <3>2. \A n \in 1..Len(Tail(effective)) : n + 1 \in 1..Len(effective)
        BY <1>s, <3>1
      <3> QED BY <1>0, <2>1, <3>1, <3>2 DEF RowsInv
    <2> QED BY <1>0, <2>1, <2>2 DEF RowsInv, Amount, Row, ValidRounding
  <1>10. CASE FinishLoop
    BY <1>10, <1>a DEF FinishLoop, rowVars, Working
  <1>11. CASE UNCHANGED vars
    BY <1>11, <1>a DEF vars, tableVars
  <1> QED
    BY <1>1, <1>2, <1>3, <1>4, <1>5, <1>6, <1>7, <1>8, <1>9, <1>10, <1>11 DEF Next, Returned

\* The rows and the balance after them keep adding up to the contract
\* (calculator.go BuildSchedule).
LEMMA TableStep == CInv /\ [Next]_vars => TableInv'
  <1> SUFFICES ASSUME CInv, [Next]_vars PROVE TableInv'
    OBVIOUS
  <1>0. TypeOK /\ TableInv /\ input' = input
    BY InputIsFixed DEF CInv
  <1>s. /\ schedule \in Seq(Int) /\ balance \in Int /\ input.tenorMonths \in Int
        /\ input.contractualPrincipal \in Int /\ input.principalPerPeriod \in Int
    BY <1>0 DEF TypeOK, CalculationInputs
  <1>1. CASE Validate
    <2>1. UNCHANGED <<schedule, balance>> /\ schedule = <<>> /\ phase = "validate"
      BY <1>0, <1>1 DEF Validate, tableVars, TableInv
    <2>2. phase' \in {"schedule", "done", "failed"} /\ (phase' = "schedule" => input.tenorMonths > 0)
      BY <1>1 DEF Validate, FailWith, FinishCalculation, ValidContract
    <2> QED BY <1>0, <1>s, <2>1, <2>2 DEF TableInv
  <1>2. CASE BuildRow
    <2> DEFINE last   == Len(schedule) + 1 = input.tenorMonths
               amount == IF last THEN balance ELSE input.principalPerPeriod
    <2>1. phase = "schedule" /\ Len(schedule) < input.tenorMonths
      BY <1>2 DEF BuildRow
    <2>2. CASE UNCHANGED tableVars /\ phase' = "failed"
      BY <1>0, <2>2 DEF TableInv, tableVars
    <2>3. CASE schedule' = Append(schedule, amount) /\ balance' = balance - amount /\ phase' = phase
      <3>1. amount \in Int
        BY <1>s
      <3>2. Total(schedule') = Total(schedule) + amount /\ Total(schedule) \in Int
        BY <1>s, <2>3, <3>1, TotalAppend
      <3>3. Len(schedule') = Len(schedule) + 1 /\ Len(schedule) \in Nat
        BY <1>s, <2>3, <3>1
      <3>4. Len(schedule') = input.tenorMonths => balance' = 0
        BY <1>s, <2>3, <3>3
      <3> HIDE DEF amount, last
      <3>5. Total(schedule') + balance' = input.contractualPrincipal
        BY <1>0, <1>s, <2>3, <3>1, <3>2 DEF TableInv
      <3> QED BY <1>0, <1>s, <2>1, <2>3, <3>3, <3>4, <3>5 DEF TableInv
    <2> QED BY <1>2, <2>2, <2>3 DEF BuildRow, FailWith
  <1>3. CASE ScheduleBuilt
    BY <1>0, <1>3 DEF ScheduleBuilt, TableInv, tableVars
  <1>4. CASE ~Validate /\ ~BuildRow /\ ~ScheduleBuilt
    <2>1. /\ UNCHANGED tableVars
          /\ \/ phase' = phase
             \/ phase \in {"timeline", "repayments", "skip"} /\ phase' \in {"repayments", "skip", "apply"}
             \/ phase' \in {"done", "failed"}
      BY <1>4 DEF Next, vars, tableVars, ValidateTimeline, ScanRepayment, RejectRow, Take, FailWith,
             FinishCalculation, RepaymentsScanned, SkipPastDue, AccrueDue, ApplyRepayment, FinishLoop, Returned
    <2> QED BY <1>0, <2>1 DEF TableInv, tableVars
  <1> QED BY <1>1, <1>2, <1>3, <1>4

\* Balances stay consistent, the final check never fires and no money is lost
\* (calculator.go Calculate, finish).
LEMMA BalanceStep ==
  CInv /\ [Next]_vars => (EndingIsValid /\ StartInv /\ BalanceInv /\ MoneyConserved)'
  <1> SUFFICES ASSUME CInv, [Next]_vars
               PROVE  (EndingIsValid /\ StartInv /\ BalanceInv /\ MoneyConserved)'
    OBVIOUS
  <1>0. TypeOK /\ RowsInv /\ StartInv /\ BalanceInv /\ EndingIsValid /\ MoneyConserved /\ input' = input
    BY InputIsFixed DEF CInv
  <1>s. /\ state \in Balances /\ received \in Int /\ accrued \in Int
        /\ input.opening.principal \in Int /\ input.opening.interestDue \in Int
        /\ input.interestPerPeriod \in Int
    BY <1>0 DEF TypeOK, CalculationInputs, Openings, Balances
  <1>a. ASSUME UNCHANGED loopVars, error' # "ending", phase' # "validate", phase' \in Working => phase \in Working
        PROVE  (EndingIsValid /\ StartInv /\ BalanceInv /\ MoneyConserved)'
    BY <1>0, <1>a DEF loopVars, EndingIsValid, StartInv, BalanceInv, EndingIsConsistent, MoneyConserved
  <1>1. CASE Validate
    <2>1. UNCHANGED loopVars /\ phase' # "validate"
      BY <1>1 DEF Validate, FailWith, FinishCalculation
    <2>2. phase' \in Working \/ error' = "ending" => ValidOpening(input.opening)
      BY <1>0, <1>1 DEF Validate, FailWith, FinishCalculation, EndingIsValid, Working
    <2>3. ValidOpening(input.opening) => EndingIsConsistent
      BY <1>0, <1>1 DEF Validate, StartInv, ValidOpening, EndingIsConsistent
    <2>4. error' # "ending"
      BY <1>0, <1>1, <2>3 DEF Validate, FailWith, FinishCalculation, EndingIsValid
    <2> QED BY <1>0, <2>1, <2>2, <2>3, <2>4
            DEF loopVars, EndingIsValid, StartInv, BalanceInv, EndingIsConsistent, MoneyConserved
  <1>2. CASE BuildRow
    BY <1>0, <1>2, <1>a DEF BuildRow, FailWith, EndingIsValid, Working
  <1>3. CASE ScheduleBuilt
    BY <1>0, <1>3, <1>a DEF ScheduleBuilt, EndingIsValid, Working
  <1>4. CASE ValidateTimeline
    BY <1>0, <1>4, <1>a DEF ValidateTimeline, FailWith, EndingIsValid, Working
  <1>5. ASSUME NEW k \in pending, ScanRepayment(k)
        PROVE  (EndingIsValid /\ StartInv /\ BalanceInv /\ MoneyConserved)'
    <2>1. error' # "ending" /\ phase' # "validate"
      BY <1>0, <1>5 DEF ScanRepayment, RejectRow, Take, FailWith, EndingIsValid
    <2>2. UNCHANGED loopVars /\ phase \in Working
      BY <1>5 DEF ScanRepayment, Working
    <2> QED BY <1>a, <2>1, <2>2
  <1>6. CASE RepaymentsScanned
    BY <1>0, <1>6, <1>a DEF RepaymentsScanned, EndingIsValid, Working
  <1>7. CASE SkipPastDue
    BY <1>0, <1>7 DEF SkipPastDue, EndingIsValid, StartInv, BalanceInv, EndingIsConsistent, MoneyConserved, Working
  <1>8. CASE AccrueDue
    <2>1. /\ schedule[nextDue] \in Int /\ schedule[nextDue] >= 0
          /\ input.interestPerPeriod >= 0 /\ EndingIsConsistent
      BY <1>0, <1>8 DEF TypeOK, AccrueDue, DueBy, RowsInv, BalanceInv, ValidRounding, Working
    <2> DEFINE t == Accrue(state, nextDue)
    <2>2. /\ t \in Balances /\ t.principal = state.principal /\ t.unapplied = state.unapplied
          /\ t.principalDue = IF state.principal > 0 /\ state.principal > state.principalDue
               THEN state.principalDue + MinMoney(schedule[nextDue], state.principal - state.principalDue)
               ELSE state.principalDue
          /\ t.interestDue = IF state.principal > 0 THEN state.interestDue + input.interestPerPeriod
                             ELSE state.interestDue
      BY <1>s, <2>1, AccrueFields
    <2>3. state' = t /\ accrued' = accrued + (t.interestDue - state.interestDue)
          /\ UNCHANGED <<received, phase, error>> /\ phase = "apply"
      BY <1>8 DEF AccrueDue
    <2> HIDE DEF t
    <2>4. /\ t.principal >= 0 /\ t.interestDue >= 0 /\ t.unapplied >= 0
          /\ t.principalDue >= 0 /\ t.principalDue <= t.principal
      BY <1>s, <2>1, <2>2 DEF Balances, EndingIsConsistent, MinMoney
    <2>5. BalanceInv' /\ EndingIsValid' /\ StartInv'
      BY <1>0, <2>3, <2>4 DEF BalanceInv, EndingIsConsistent, EndingIsValid, StartInv
    <2>6. MoneyConserved'
      BY <1>0, <1>s, <2>2, <2>3 DEF MoneyConserved, Balances
    <2> QED BY <2>5, <2>6
  <1>9. CASE ApplyRepayment
    <2> DEFINE k == Head(effective)
               amount == Amount(k)
               t == Allocate(state, amount, Collectability(Row(k).date))
    <2>1. /\ state' = t /\ received' = received + amount
          /\ UNCHANGED <<accrued, phase, error>> /\ phase = "apply" /\ effective # <<>>
      BY <1>9 DEF ApplyRepayment
    <2>2. amount \in Nat
      <3>1. effective \in Seq(DOMAIN input.repayments) /\ k = effective[1] /\ 1 \in 1..Len(effective)
            /\ k \in DOMAIN input.repayments
        BY <1>0, <2>1 DEF TypeOK
      <3> QED BY <1>0, <3>1, RowTypes DEF RowsInv
    <2>3. EndingIsConsistent
      BY <1>0, <2>1 DEF BalanceInv, Working
    <2>4. Sound(state)
      BY <2>3 DEF EndingIsConsistent, Sound
    <2> HIDE DEF amount
    <2>5. /\ t \in Balances /\ Sound(t) /\ t.unapplied >= state.unapplied
          /\ amount = (t.unapplied - state.unapplied) + (state.principal - t.principal)
                        + (state.interestDue - t.interestDue)
      BY <1>s, <2>2, <2>4, AllocateFacts
    <2> HIDE DEF t
    <2>6. t.unapplied >= 0
      BY <1>s, <2>3, <2>5 DEF Balances, EndingIsConsistent
    <2>7. BalanceInv' /\ EndingIsValid' /\ StartInv'
      BY <1>0, <2>1, <2>5, <2>6 DEF BalanceInv, EndingIsConsistent, EndingIsValid, StartInv, Sound
    <2>8. MoneyConserved'
      <3>1. /\ t.principal \in Int /\ t.interestDue \in Int /\ t.unapplied \in Int
            /\ state.principal \in Int /\ state.interestDue \in Int /\ state.unapplied \in Int
        BY <1>s, <2>5 DEF Balances
      <3>2. received + amount = (input.opening.principal - t.principal)
              + (input.opening.interestDue + accrued - t.interestDue) + t.unapplied
        <4>1. received = (input.opening.principal - state.principal)
                + (input.opening.interestDue + accrued - state.interestDue) + state.unapplied
          BY <1>0 DEF MoneyConserved
        <4>2. amount = (t.unapplied - state.unapplied) + (state.principal - t.principal)
                         + (state.interestDue - t.interestDue)
          BY <2>5
        <4> QED BY <1>s, <2>2, <3>1, <4>1, <4>2
      <3> QED BY <1>0, <2>1, <3>2 DEF MoneyConserved
    <2> QED BY <2>7, <2>8
  <1>10. CASE FinishLoop
    <2>1. EndingIsConsistent /\ phase \in Working
      BY <1>0, <1>10 DEF FinishLoop, BalanceInv, Working
    <2> QED BY <1>0, <1>10, <1>a, <2>1 DEF FinishLoop, FinishCalculation, EndingIsValid, Working
  <1>11. CASE UNCHANGED vars
    BY <1>0, <1>11 DEF vars, EndingIsValid, StartInv, BalanceInv, EndingIsConsistent, MoneyConserved
  <1> QED
    BY <1>1, <1>2, <1>3, <1>4, <1>5, <1>6, <1>7, <1>8, <1>9, <1>10, <1>11 DEF Next, Returned
-----------------------------------------------------------------------------
(***************************************************************************)
(* The pairing of reversals.                                               *)
(***************************************************************************)
\* The window, the order and the pairs depend on the input alone.
LEMMA WindowIsFixed ==
  ASSUME input' = input
  PROVE  Window' = Window /\ \A k : (Row(k)' = Row(k)) /\ (Paired(k)' <=> Paired(k))
  BY DEF Window, InWindow, Row, Paired, Before

\* What adds up to nothing is opposite.
LEMMA Opposite ==
  ASSUME NEW a \in Int, NEW b \in Int, a + b = 0
  PROVE  a = -b
  OBVIOUS

\* A row and its accepted reversal are a pair (calculator.go effectiveRepayments).
LEMMA PairFound ==
  ASSUME TypeOK, pending \subseteq Window, NEW k \in pending, NEW m \in pending \ {k},
         IsFirst(k, pending), \A o \in Window \ pending : Before(o, k),
         Accepted(k), ReversalCandidate(k, m)
  PROVE  Paired(m)
  <1>1. Row(k).date = Row(m).date /\ ExactInverse(k, m) /\ Before(k, m)
    BY DEF Accepted, IsFirst
  <1>2. k \in DOMAIN input.repayments /\ m \in DOMAIN input.repayments
    BY DEF TypeOK
  <1>3. /\ Row(k).principal = -Row(m).principal /\ Row(k).interest = -Row(m).interest
        /\ Row(k).other = -Row(m).other /\ Row(k).total = -Row(m).total
    <2>1. Row(k) \in Repayments /\ Row(m) \in Repayments
      BY <1>2, RowTypes
    <2>2. /\ Row(k).principal \in Int /\ Row(k).interest \in Int /\ Row(k).other \in Int /\ Row(k).total \in Int
          /\ Row(m).principal \in Int /\ Row(m).interest \in Int /\ Row(m).other \in Int /\ Row(m).total \in Int
      BY <2>1 DEF Repayments
    <2> QED BY <1>1, <2>2, Opposite DEF ExactInverse
  <1>4. ASSUME NEW o \in Window \ {k, m} PROVE Before(o, k) \/ Before(m, o)
    <2>1. CASE o \in pending
      BY <2>1, <1>4 DEF ReversalCandidate, IsFirst
    <2> QED BY <2>1, <1>4
  <1>5. k \in Window
    OBVIOUS
  <1> QED BY <1>1, <1>3, <1>4, <1>5 DEF Paired

\* What has been scanned is paired and stands before the rest
\* (calculator.go effectiveRepayments).
LEMMA ScanStep == CInv /\ [Next]_vars => ScanInv'
  <1> SUFFICES ASSUME CInv, [Next]_vars PROVE ScanInv'
    OBVIOUS
  <1>0. TypeOK /\ ScanInv /\ input' = input
    BY InputIsFixed DEF CInv
  <1>w. Window' = Window /\ \A k : (Row(k)' = Row(k)) /\ (Paired(k)' <=> Paired(k))
    BY <1>0, WindowIsFixed
  <1>1. CASE Validate
    <2>1. pending' = pending /\ pending = {}
      BY <1>0, <1>1 DEF Validate, ScanInv, rowVars
    <2>2. phase' \in {"done", "schedule", "failed"}
      BY <1>1 DEF Validate, FailWith, FinishCalculation
    <2>3. phase' = "done" => Window = {}
      <3>1. phase' = "done" => input.asOf = input.cutoff
        BY <1>1 DEF Validate, FailWith, FinishCalculation
      <3>2. input.asOf \in Nat /\ input.cutoff \in Nat /\ \A k \in DOMAIN input.repayments : Row(k).date \in Nat
        BY <1>0, RowTypes DEF TypeOK, CalculationInputs, Dates, Repayments
      <3> QED BY <3>1, <3>2 DEF Window, InWindow
    <2> QED BY <1>w, <2>1, <2>2, <2>3 DEF ScanInv
  <1>2. CASE BuildRow
    BY <1>0, <1>2 DEF BuildRow, FailWith, ScanInv, rowVars
  <1>3. CASE ScheduleBuilt
    BY <1>0, <1>3 DEF ScheduleBuilt, ScanInv, rowVars
  <1>4. CASE ValidateTimeline
    <2>1. CASE phase' = "failed"
      BY <2>1 DEF ScanInv
    <2>2. CASE phase' = "repayments" /\ pending' = Window
      BY <1>w, <2>2 DEF ScanInv
    <2> QED BY <1>4, <2>1, <2>2 DEF ValidateTimeline, FailWith, Window, Row
  <1>5. ASSUME NEW k \in pending, ScanRepayment(k) PROVE ScanInv'
    <2>1. /\ phase = "repayments" /\ IsFirst(k, pending) /\ pending \subseteq Window
          /\ \A o \in Window \ pending : (\A m \in pending : Before(o, m)) /\ (Row(o).total < 0 => Paired(o))
      BY <1>0, <1>5 DEF ScanRepayment, ScanInv
    <2>2. CASE phase' = "failed"
      BY <2>2 DEF ScanInv
    <2>3. ASSUME phase' = phase, pending' \subseteq pending,
                 \A o \in pending \ pending' : (\A m \in pending' : Before(o, m)) /\ (Row(o).total < 0 => Paired(o))
          PROVE  ScanInv'
      <3>1. \A o, m : Before(o, m)' <=> Before(o, m)
        BY <1>0 DEF Before, Row
      <3> QED BY <1>w, <2>1, <2>3, <3>1 DEF ScanInv
    <2>4. CASE phase' = phase /\ pending' = pending \ {k} /\ Row(k).total >= 0
      <3>1. ~(Row(k).total < 0)
        BY <1>0, <2>4, RowTypes DEF TypeOK, Repayments
      <3> QED BY <2>1, <2>3, <2>4, <3>1 DEF IsFirst
    <2>5. CASE /\ phase' = phase /\ Accepted(k)
               /\ pending' = pending \ ({k} \cup {m \in pending \ {k} : ReversalCandidate(k, m)})
      <3>1. ASSUME NEW o \in pending \ pending', NEW m \in pending' PROVE Before(o, m)
        <4>1. CASE o = k
          BY <2>1, <2>5, <3>1, <4>1 DEF IsFirst
        <4>2. CASE ReversalCandidate(k, o)
          BY <2>5, <3>1, <4>2 DEF ReversalCandidate, IsFirst
        <4> QED BY <2>5, <3>1, <4>1, <4>2
      <3>2. ASSUME NEW o \in pending \ pending', Row(o).total < 0 PROVE Paired(o)
        <4>1. ~(Row(k).total < 0)
          BY <1>0, <2>5, RowTypes DEF Accepted, TypeOK, Repayments
        <4>2. o \in pending \ {k} /\ ReversalCandidate(k, o)
          BY <2>5, <3>2, <4>1
        <4> QED BY <1>0, <2>1, <2>5, <4>2, PairFound
      <3> QED BY <2>3, <2>5, <3>1, <3>2
    <2>6. Row(k).total \in Int
      BY <1>0, RowTypes DEF TypeOK, Repayments
    <2>7. CASE RejectRow(k)
      BY <2>2, <2>7 DEF RejectRow, FailWith
    <2>8. CASE /\ Row(k).total = 0 /\ pending' = pending \ {k} /\ phase' = phase
      BY <2>4, <2>6, <2>8
    <2>9. CASE Accepted(k) /\ Take(k)
      <3>1. Row(k).total >= 0
        BY <2>6, <2>9 DEF Accepted
      <3> QED BY <2>2, <2>4, <2>5, <2>9, <3>1 DEF Take, FailWith
    <2> QED BY <1>5, <2>7, <2>8, <2>9 DEF ScanRepayment
  <1>6. CASE RepaymentsScanned
    <2>1. phase = "repayments" /\ pending = {} /\ phase' = "skip" /\ pending' = pending
      BY <1>6 DEF RepaymentsScanned, rowVars
    <2>2. \A k \in Window : Row(k).total < 0 => Paired(k)
      BY <1>0, <2>1 DEF ScanInv
    <2> QED BY <1>w, <2>1, <2>2 DEF ScanInv
  <1>7. ASSUME phase \in {"skip", "apply"}, phase' \in {"apply", "done", "failed", phase}, pending' = pending
        PROVE  ScanInv'
    <2>1. pending = {} /\ \A k \in Window : Row(k).total < 0 => Paired(k)
      BY <1>0, <1>7 DEF ScanInv
    <2> QED BY <1>w, <1>7, <2>1 DEF ScanInv
  <1>8. CASE SkipPastDue \/ AccrueDue \/ ApplyRepayment \/ FinishLoop
    <2>1. phase \in {"skip", "apply"} /\ phase' \in {"apply", "done", "failed", phase} /\ pending' = pending
      BY <1>8 DEF SkipPastDue, AccrueDue, ApplyRepayment, FinishLoop, FinishCalculation, FailWith, rowVars
    <2> QED BY <1>7, <2>1
  <1>9. CASE UNCHANGED vars
    <2>1. \A o, m : Before(o, m)' <=> Before(o, m)
      BY <1>0 DEF Before, Row
    <2> QED BY <1>0, <1>9, <1>w, <2>1 DEF vars, ScanInv
  <1> QED
    BY <1>1, <1>2, <1>3, <1>4, <1>5, <1>6, <1>8, <1>9 DEF Next, Returned

-----------------------------------------------------------------------------
(***************************************************************************)
(* Theorems.                                                               *)
(***************************************************************************)
\* A calculation starts in the invariant (calculator.go Calculate).
LEMMA InitInv == Init => CInv
  <1> SUFFICES ASSUME Init PROVE CInv
    OBVIOUS
  <1>1. input \in CalculationInputs
    BY InputsAssumption DEF Init
  <1>2. /\ input.opening.principal \in Int /\ input.opening.principalDue \in Int
        /\ input.opening.interestDue \in Int /\ input.contractualPrincipal \in Int
    BY <1>1 DEF CalculationInputs, Openings
  <1>3. TypeOK
    <2>1. state \in Balances
      BY <1>2 DEF Init, Opened, Balances
    <2> QED BY <1>1, <1>2, <2>1 DEF Init, TypeOK, Phases
  <1>4. MoneyConserved
    BY <1>2 DEF Init, Opened, MoneyConserved
  <1>5. EndingIsValid /\ StartInv /\ BalanceInv /\ RowsInv /\ ScanInv
    BY DEF Init, Opened, EndingIsValid, StartInv, BalanceInv, RowsInv, ScanInv, Working
  <1>6. TableInv
    <2>1. <<>> \in Seq(Int) /\ \A n \in 1..Len(<<>>) : <<>>[n] = 0
      OBVIOUS
    <2>2. Total(<<>>) = 0
      BY <2>1, TotalZero
    <2> QED BY <1>2, <2>2 DEF Init, TableInv
  <1> QED BY <1>3, <1>4, <1>5, <1>6 DEF CInv

\* The invariant of the calculator holds in every calculation, whatever its
\* input (calculator.go Calculate).
THEOREM CalculationInvariance == Spec => []CInv
  <1>1. CInv /\ [Next]_vars => CInv'
    BY TypeStep, RowsStep, TableStep, BalanceStep, ScanStep DEF CInv
  <1> QED BY InitInv, <1>1, PTL DEF Spec

\* Type correctness of the calculator (calculator.go Calculate).
THEOREM CalculationTypes == Spec => []TypeOK
  <1>1. CInv => TypeOK
    BY DEF CInv
  <1> QED BY CalculationInvariance, <1>1, PTL

\* For every contract, repayment history and rounding the check of finish
\* never fires (calculator.go finish).
THEOREM EndingNeverRejected == Spec => []EndingIsValid
  <1>1. CInv => EndingIsValid
    BY DEF CInv
  <1> QED BY CalculationInvariance, <1>1, PTL

\* No money appears or disappears (calculator.go allocate, accrueThrough).
THEOREM MoneyIsConserved == Spec => []MoneyConserved
  <1>1. CInv => MoneyConserved
    BY DEF CInv
  <1> QED BY CalculationInvariance, <1>1, PTL

\* A finished schedule adds up to the contractual principal, whatever the
\* rounding (calculator.go BuildSchedule).
THEOREM TheScheduleAddsUp == Spec => []ScheduleAddsUp
  <1>1. ASSUME CInv PROVE ScheduleAddsUp
    <2>1. SUFFICES ASSUME phase \in {"timeline", "repayments", "skip", "apply"}
                   PROVE  /\ Total(schedule) = input.contractualPrincipal /\ balance = 0
                          /\ \A n \in DOMAIN schedule : schedule[n] >= 0
      BY DEF ScheduleAddsUp
    <2>2. schedule \in Seq(Int)
      BY <1>1 DEF CInv, TypeOK
    <2>3. balance = 0 /\ Total(schedule) + balance = input.contractualPrincipal /\ Total(schedule) \in Int
      BY <1>1, <2>1, <2>2, TotalAppend DEF CInv, TableInv
    <2>4. \A n \in DOMAIN schedule : schedule[n] >= 0
      BY <1>1, <2>2 DEF CInv, RowsInv
    <2> QED BY <2>3, <2>4
  <1> QED BY CalculationInvariance, <1>1, PTL

\* Past the scan every negative row is paired (calculator.go effectiveRepayments).
THEOREM ReversalsPaired == Spec => []ReversalsArePaired
  <1>1. CInv => ReversalsArePaired
    BY DEF CInv, ScanInv, ReversalsArePaired
  <1> QED BY CalculationInvariance, <1>1, PTL

\* Money is set aside only when nothing is left to pay (calculator.go allocate).
THEOREM RestOnlyWhenSettled == Spec => UnappliedOnlyWhenSettled
  <1> DEFINE A == state'.unapplied > state.unapplied => state'.principal = 0 /\ state'.interestDue = 0
  <1>1. CInv /\ [Next]_vars => [A]_vars
    <2> SUFFICES ASSUME CInv, [Next]_vars PROVE A \/ UNCHANGED vars
      OBVIOUS
    <2>1. state.unapplied \in Int /\ ~(state.unapplied > state.unapplied) /\ state \in Balances
      BY DEF CInv, TypeOK, Balances
    <2>2. CASE state'.unapplied = state.unapplied
      BY <2>1, <2>2
    <2>3. CASE ApplyRepayment
      <3> DEFINE k == Head(effective)
                 t == Allocate(state, Amount(k), Collectability(Row(k).date))
      <3>1. state' = t /\ phase = "apply" /\ effective # <<>>
        BY <2>3 DEF ApplyRepayment
      <3>2. Amount(k) \in Nat
        <4>1. effective \in Seq(DOMAIN input.repayments) /\ k = effective[1] /\ 1 \in 1..Len(effective)
              /\ k \in DOMAIN input.repayments
          BY <3>1 DEF CInv, TypeOK
        <4> QED BY <4>1, RowTypes DEF RowsInv, CInv
      <3>3. Sound(state)
        BY <3>1 DEF CInv, BalanceInv, EndingIsConsistent, Sound, Working
      <3>4. t.unapplied > state.unapplied => t.principal = 0 /\ t.interestDue = 0
        BY <2>1, <3>2, <3>3, AllocateFacts
      <3> QED BY <3>1, <3>4
    <2>4. CASE AccrueDue
      <3>1. schedule[nextDue] \in Int /\ input.interestPerPeriod \in Int
        BY <2>4 DEF CInv, TypeOK, AccrueDue, DueBy, CalculationInputs
      <3>2. state'.unapplied = state.unapplied
        BY <2>1, <2>4, <3>1, AccrueFields DEF AccrueDue
      <3> QED BY <2>2, <3>2
    <2>5. CASE \/ Validate \/ BuildRow \/ ScheduleBuilt \/ ValidateTimeline
               \/ \E k \in pending : ScanRepayment(k)
               \/ RepaymentsScanned \/ SkipPastDue \/ FinishLoop
      <3>1. state' = state
        BY <2>5 DEF Validate, BuildRow, ScheduleBuilt, ValidateTimeline, ScanRepayment,
                    RepaymentsScanned, SkipPastDue, FinishLoop, loopVars
      <3> QED BY <2>2, <3>1
    <2> QED BY <2>3, <2>4, <2>5 DEF Next, Returned
  <1> QED BY CalculationInvariance, <1>1, PTL DEF Spec, UnappliedOnlyWhenSettled

-----------------------------------------------------------------------------
(***************************************************************************)
(* The daily ledger: spreading money.                                      *)
(***************************************************************************)
\* What the ledger spreads, bucket by bucket, of balances b, due, i, rest.
InterestPart(i, b, net, kolek) == MinMoney(i, IF kolek <= 2 THEN net ELSE net - MinMoney(net, b))
PrincipalPart(i, b, net, kolek) == MinMoney(b, net - InterestPart(i, b, net, kolek))

\* The balances after spreading, field by field.
LEMMA SpreadFields ==
    ASSUME NEW s \in Balances, NEW net \in Int, NEW kolek
    PROVE  LET i == InterestPart(s.interestDue, s.principal, net, kolek)
               p == PrincipalPart(s.interestDue, s.principal, net, kolek)
           IN  /\ i \in Int /\ p \in Int /\ Spread(s, net, kolek) \in Balances
               /\ Spread(s, net, kolek).principal = s.principal - p
               /\ Spread(s, net, kolek).principalDue = s.principalDue - MinMoney(s.principalDue, p)
               /\ Spread(s, net, kolek).interestDue = s.interestDue - i
               /\ Spread(s, net, kolek).unapplied = s.unapplied + net - i - p
  <1> DEFINE i == InterestPart(s.interestDue, s.principal, net, kolek)
             p == PrincipalPart(s.interestDue, s.principal, net, kolek)
  <1>1. s.principal \in Int /\ s.principalDue \in Int /\ s.interestDue \in Int /\ s.unapplied \in Int
    BY DEF Balances
  <1>2. i \in Int
    BY <1>1 DEF InterestPart, MinMoney
  <1>3. p \in Int
    BY <1>1, <1>2 DEF PrincipalPart, MinMoney
  <1>4. Spread(s, net, kolek) =
          [principal |-> s.principal - p, principalDue |-> s.principalDue - MinMoney(s.principalDue, p),
           interestDue |-> s.interestDue - i, unapplied |-> s.unapplied + net - i - p]
    BY DEF Spread, InterestPart, PrincipalPart
  <1> HIDE DEF i, p
  <1>5. s.principalDue - MinMoney(s.principalDue, p) \in Int
    BY <1>1, <1>3 DEF MinMoney
  <1>6. Spread(s, net, kolek) \in Balances
    BY <1>1, <1>2, <1>3, <1>4, <1>5 DEF Balances
  <1> QED BY <1>2, <1>3, <1>4, <1>6 DEF i, p

\* Balances are their fields.
LEMMA SameBalances ==
    ASSUME NEW s \in Balances, NEW t \in Balances, s.principal = t.principal, s.principalDue = t.principalDue,
           s.interestDue = t.interestDue, s.unapplied = t.unapplied
    PROVE  s = t
  BY DEF Balances

\* Nothing to spread changes nothing.
LEMMA SpreadNothing ==
    ASSUME NEW s \in Balances, Sound(s), NEW kolek
    PROVE  Spread(s, 0, kolek) = s
  <1>1. s.principal \in Int /\ s.principalDue \in Int /\ s.interestDue \in Int /\ s.unapplied \in Int
    BY DEF Balances
  <1>2. /\ InterestPart(s.interestDue, s.principal, 0, kolek) = 0
        /\ PrincipalPart(s.interestDue, s.principal, 0, kolek) = 0
        /\ MinMoney(s.principalDue, 0) = 0
    BY <1>1 DEF Sound, InterestPart, PrincipalPart, MinMoney
  <1>3. /\ Spread(s, 0, kolek) \in Balances
        /\ Spread(s, 0, kolek).principal = s.principal - 0
        /\ Spread(s, 0, kolek).principalDue = s.principalDue - 0
        /\ Spread(s, 0, kolek).interestDue = s.interestDue - 0
        /\ Spread(s, 0, kolek).unapplied = s.unapplied + 0 - 0 - 0
    BY <1>2, SpreadFields
  <1> QED BY <1>1, <1>3, SameBalances

\* The three buckets of allocate spread a payment like the ledger, which knows
\* only principal and interest.
LEMMA AllocateSpreads ==
    ASSUME NEW s \in Balances, Sound(s), NEW net \in Nat, NEW kolek
    PROVE  Allocate(s, net, kolek) = Spread(s, net, kolek)
  <1> DEFINE u == Purse(s, net)
             w == Waterfall(u, kolek)
             i == InterestPart(s.interestDue, s.principal, net, kolek)
             p == PrincipalPart(s.interestDue, s.principal, net, kolek)
  <1>1. s.principal \in Int /\ s.principalDue \in Int /\ s.interestDue \in Int /\ s.unapplied \in Int
    BY DEF Balances
  <1>2. /\ u \in Purses /\ u.payment = net /\ u.principal = s.principal
        /\ u.principalDue = s.principalDue /\ u.interestDue = s.interestDue
    BY <1>1 DEF Purse, Purses
  <1> HIDE DEF u
  <1>3. /\ w \in Purses /\ w.principal = s.principal - p /\ w.interestDue = s.interestDue - i
        /\ w.principalDue = s.principalDue - MinMoney(s.principalDue, p) /\ w.payment = net - i - p
    <2>1. CASE kolek <= 2
      <3> DEFINE a == PayInterest(u)
                 b == PayPrincipalDue(a)
                 c == PayPrincipalAdvance(b)
      <3>0. w = c
        BY <2>1 DEF Waterfall
      <3>1. /\ a \in Purses /\ a.principal = s.principal /\ a.principalDue = s.principalDue
            /\ a.interestDue = s.interestDue - MinMoney(net, s.interestDue)
            /\ a.payment = net - MinMoney(net, s.interestDue)
        BY <1>2, InterestFields
      <3> HIDE DEF a
      <3>2. /\ b \in Purses /\ b.principal = a.principal - MinMoney(a.payment, a.principalDue)
            /\ b.principalDue = a.principalDue - MinMoney(a.payment, a.principalDue)
            /\ b.interestDue = a.interestDue /\ b.payment = a.payment - MinMoney(a.payment, a.principalDue)
        BY <3>1, PrincipalDueFields
      <3> HIDE DEF b
      <3>3. /\ c \in Purses /\ c.principal = b.principal - MinMoney(b.payment, b.principal)
            /\ c.principalDue = b.principalDue /\ c.interestDue = b.interestDue
            /\ c.payment = b.payment - MinMoney(b.payment, b.principal)
        BY <3>2, PrincipalAdvanceFields
      <3> HIDE DEF c
      <3>4. i = MinMoney(s.interestDue, net) /\ p = MinMoney(s.principal, net - i)
        BY <2>1 DEF InterestPart, PrincipalPart
      <3> HIDE DEF i, p
      <3> QED BY <1>1, <3>0, <3>1, <3>2, <3>3, <3>4 DEF MinMoney, Sound
    <2>2. CASE ~(kolek <= 2)
      <3> DEFINE a == PayPrincipalDue(u)
                 b == PayPrincipalAdvance(a)
                 c == PayInterest(b)
      <3>0. w = c
        BY <2>2 DEF Waterfall
      <3>1. /\ a \in Purses /\ a.principal = s.principal - MinMoney(net, s.principalDue)
            /\ a.principalDue = s.principalDue - MinMoney(net, s.principalDue)
            /\ a.interestDue = s.interestDue /\ a.payment = net - MinMoney(net, s.principalDue)
        BY <1>2, PrincipalDueFields
      <3> HIDE DEF a
      <3>2. /\ b \in Purses /\ b.principal = a.principal - MinMoney(a.payment, a.principal)
            /\ b.principalDue = a.principalDue /\ b.interestDue = a.interestDue
            /\ b.payment = a.payment - MinMoney(a.payment, a.principal)
        BY <3>1, PrincipalAdvanceFields
      <3> HIDE DEF b
      <3>3. /\ c \in Purses /\ c.principal = b.principal /\ c.principalDue = b.principalDue
            /\ c.interestDue = b.interestDue - MinMoney(b.payment, b.interestDue)
            /\ c.payment = b.payment - MinMoney(b.payment, b.interestDue)
        BY <3>2, InterestFields
      <3> HIDE DEF c
      <3>4. i = MinMoney(s.interestDue, net - MinMoney(net, s.principal)) /\ p = MinMoney(s.principal, net - i)
        BY <2>2 DEF InterestPart, PrincipalPart
      <3> HIDE DEF i, p
      <3> QED BY <1>1, <3>0, <3>1, <3>2, <3>3, <3>4 DEF MinMoney, Sound
    <2> QED BY <2>1, <2>2
  <1>4. Allocate(s, net, kolek) =
          [principal |-> w.principal, principalDue |-> w.principalDue,
           interestDue |-> w.interestDue, unapplied |-> s.unapplied + w.payment]
    BY DEF Allocate, u
  <1> HIDE DEF w
  <1>5. /\ i \in Int /\ p \in Int /\ Spread(s, net, kolek) \in Balances
        /\ Spread(s, net, kolek).principal = s.principal - p
        /\ Spread(s, net, kolek).principalDue = s.principalDue - MinMoney(s.principalDue, p)
        /\ Spread(s, net, kolek).interestDue = s.interestDue - i
        /\ Spread(s, net, kolek).unapplied = s.unapplied + net - i - p
    BY SpreadFields
  <1> HIDE DEF i, p
  <1>6. /\ Allocate(s, net, kolek).principal = w.principal
        /\ Allocate(s, net, kolek).principalDue = w.principalDue
        /\ Allocate(s, net, kolek).interestDue = w.interestDue
        /\ Allocate(s, net, kolek).unapplied = s.unapplied + w.payment
        /\ Allocate(s, net, kolek) \in Balances
    BY <1>4, AllocateTypes
  <1>7. s.unapplied + w.payment = s.unapplied + net - i - p
    BY <1>1, <1>3, <1>5
  <1> QED BY <1>3, <1>5, <1>6, <1>7, SameBalances

\* Two payments of a day are spread like their sum.
LEMMA SpreadTwice ==
    ASSUME NEW s \in Balances, Sound(s), NEW x \in Nat, NEW y \in Nat, NEW kolek
    PROVE  Spread(Spread(s, x, kolek), y, kolek) = Spread(s, x + y, kolek)
  <1> DEFINE t == Spread(s, x, kolek)
             r == Spread(t, y, kolek)
             z == Spread(s, x + y, kolek)
             i == InterestPart(s.interestDue, s.principal, x, kolek)
             p == PrincipalPart(s.interestDue, s.principal, x, kolek)
             j == InterestPart(t.interestDue, t.principal, y, kolek)
             q == PrincipalPart(t.interestDue, t.principal, y, kolek)
             k == InterestPart(s.interestDue, s.principal, x + y, kolek)
             m == PrincipalPart(s.interestDue, s.principal, x + y, kolek)
  <1>1. s.principal \in Int /\ s.principalDue \in Int /\ s.interestDue \in Int /\ s.unapplied \in Int
    BY DEF Balances
  <1>a. s.interestDue \in Nat /\ s.principal \in Nat
    BY <1>1 DEF Sound
  <1>2. /\ i \in Int /\ p \in Int /\ t \in Balances /\ t.principal = s.principal - p
        /\ t.principalDue = s.principalDue - MinMoney(s.principalDue, p)
        /\ t.interestDue = s.interestDue - i /\ t.unapplied = s.unapplied + x - i - p
    BY SpreadFields
  <1>3. /\ k \in Int /\ m \in Int /\ z \in Balances /\ z.principal = s.principal - m
        /\ z.principalDue = s.principalDue - MinMoney(s.principalDue, m)
        /\ z.interestDue = s.interestDue - k /\ z.unapplied = s.unapplied + (x + y) - k - m
    BY SpreadFields
  <1> HIDE DEF t, z
  <1>4. /\ j \in Int /\ q \in Int /\ r \in Balances /\ r.principal = t.principal - q
        /\ r.principalDue = t.principalDue - MinMoney(t.principalDue, q)
        /\ r.interestDue = t.interestDue - j /\ r.unapplied = t.unapplied + y - j - q
    BY <1>2, SpreadFields
  <1> HIDE DEF r
  <1>5. i + j = k /\ p + q = m /\ p >= 0 /\ q >= 0
    <2>1. CASE kolek <= 2
      <3>1. /\ i = MinMoney(s.interestDue, x) /\ p = MinMoney(s.principal, x - i)
            /\ j = MinMoney(t.interestDue, y) /\ q = MinMoney(t.principal, y - j)
            /\ k = MinMoney(s.interestDue, x + y) /\ m = MinMoney(s.principal, (x + y) - k)
        BY <2>1 DEF InterestPart, PrincipalPart
      <3> HIDE DEF i, p, j, q, k, m
      <3>2. j = MinMoney(s.interestDue - i, y) /\ q = MinMoney(s.principal - p, y - j)
        BY <1>2, <3>1
      <3>3. i \in Int /\ p \in Int /\ j \in Int /\ q \in Int /\ k \in Int /\ m \in Int
        BY <1>2, <1>3, <1>4
      <3>4. /\ i = MinMoney(s.interestDue, x) /\ p = MinMoney(s.principal, x - i)
            /\ k = MinMoney(s.interestDue, x + y) /\ m = MinMoney(s.principal, (x + y) - k)
        BY <3>1
      <3> DEFINE a == s.interestDue
                 b == s.principal
      <3>5. /\ a \in Nat /\ b \in Nat /\ i = MinMoney(a, x) /\ p = MinMoney(b, x - i)
            /\ j = MinMoney(a - i, y) /\ q = MinMoney(b - p, y - j)
            /\ k = MinMoney(a, x + y) /\ m = MinMoney(b, (x + y) - k)
        BY <1>a, <3>2, <3>4
      <3> HIDE DEF a, b
      <3>6. i + j = k
        BY <3>3, <3>5 DEF MinMoney
      <3>7. i <= x /\ j <= y /\ i >= 0 /\ j >= 0
        BY <3>3, <3>5 DEF MinMoney
      <3> QED BY <3>3, <3>5, <3>6, <3>7 DEF MinMoney
    <2>2. CASE ~(kolek <= 2)
      <3>1. /\ i = MinMoney(s.interestDue, x - MinMoney(x, s.principal)) /\ p = MinMoney(s.principal, x - i)
            /\ j = MinMoney(t.interestDue, y - MinMoney(y, t.principal)) /\ q = MinMoney(t.principal, y - j)
            /\ k = MinMoney(s.interestDue, (x + y) - MinMoney(x + y, s.principal))
            /\ m = MinMoney(s.principal, (x + y) - k)
        BY <2>2 DEF InterestPart, PrincipalPart
      <3> HIDE DEF i, p, j, q, k, m
      <3>2. /\ j = MinMoney(s.interestDue - i, y - MinMoney(y, s.principal - p))
            /\ q = MinMoney(s.principal - p, y - j)
        BY <1>2, <3>1
      <3>3. i \in Int /\ p \in Int /\ j \in Int /\ q \in Int /\ k \in Int /\ m \in Int
        BY <1>2, <1>3, <1>4
      <3>4. /\ i = MinMoney(s.interestDue, x - MinMoney(x, s.principal)) /\ p = MinMoney(s.principal, x - i)
            /\ k = MinMoney(s.interestDue, (x + y) - MinMoney(x + y, s.principal))
            /\ m = MinMoney(s.principal, (x + y) - k)
        BY <3>1
      <3> DEFINE a == s.interestDue
                 b == s.principal
      <3>5. /\ a \in Nat /\ b \in Nat /\ i = MinMoney(a, x - MinMoney(x, b)) /\ p = MinMoney(b, x - i)
            /\ j = MinMoney(a - i, y - MinMoney(y, b - p)) /\ q = MinMoney(b - p, y - j)
            /\ k = MinMoney(a, (x + y) - MinMoney(x + y, b)) /\ m = MinMoney(b, (x + y) - k)
        BY <1>a, <3>2, <3>4
      <3> HIDE DEF a, b
      <3>6. CASE x <= b
        BY <3>3, <3>5, <3>6 DEF MinMoney
      <3>7. CASE x > b
        BY <3>3, <3>5, <3>7 DEF MinMoney
      <3> QED BY <3>5, <3>6, <3>7
    <2> QED BY <2>1, <2>2
  <1> HIDE DEF i, p, j, q, k, m
  <1>6. r.principal = z.principal /\ r.interestDue = z.interestDue
    BY <1>1, <1>2, <1>3, <1>4, <1>5
  <1>7. r.unapplied = z.unapplied
    BY <1>1, <1>2, <1>3, <1>4, <1>5
  <1>8. r.principalDue = z.principalDue
    BY <1>1, <1>2, <1>3, <1>4, <1>5 DEF MinMoney, Sound
  <1>9. r = z
    BY <1>3, <1>4, <1>6, <1>7, <1>8, SameBalances
  <1> QED BY <1>9 DEF r, t, z

\* A day's accrual keeps balances what they are.
LEMMA AccruedDayType ==
    ASSUME TypeOK, NEW s \in Balances, NEW date, \A n \in 1..input.tenorMonths : Scheduled(n) \in Int
    PROVE  AccruedDay(s, date) \in Balances
  <1> DEFINE due == {n \in 1..input.tenorMonths : DueDate(n) = date}
             d == MinMoney(s.principal, s.principalDue + Scheduled(CHOOSE n \in due : TRUE))
             i == s.interestDue + input.interestPerPeriod
  <1>1. CASE s.principal = 0 \/ due = {}
    BY <1>1 DEF AccruedDay
  <1>2. CASE ~(s.principal = 0 \/ due = {})
    <2>1. AccruedDay(s, date) = [s EXCEPT !.principalDue = d, !.interestDue = i]
      BY <1>2 DEF AccruedDay
    <2>2. (CHOOSE n \in due : TRUE) \in 1..input.tenorMonths
      BY <1>2
    <2>3. Scheduled(CHOOSE n \in due : TRUE) \in Int
      BY <2>2
    <2>4. input.interestPerPeriod \in Int
      BY DEF TypeOK, CalculationInputs
    <2> HIDE DEF due
    <2>5. d \in Int /\ i \in Int
      BY <2>3, <2>4 DEF MinMoney, Balances
    <2> HIDE DEF d, i
    <2> QED BY <2>1, <2>5 DEF Balances
  <1> QED BY <1>1, <1>2

\* The principal of an instalment is an amount.
LEMMA ScheduledType ==
    ASSUME TypeOK, NEW n \in Int
    PROVE  Scheduled(n) \in Int
  <1>1. input.contractualPrincipal \in Int /\ input.principalPerPeriod \in Int
    BY DEF TypeOK, CalculationInputs
  <1> QED BY <1>1 DEF Scheduled

-----------------------------------------------------------------------------
(***************************************************************************)
(* What depends on the input alone does not change.                        *)
(***************************************************************************)
\* Rows, their order, the window, the schedule and the opening.
LEMMA InputTerms ==
    ASSUME input' = input
    PROVE  /\ \A k : Row(k)' = Row(k)
           /\ \A k : Amount(k)' = Amount(k)
           /\ \A k, m : Before(k, m)' <=> Before(k, m)
           /\ \A n : Scheduled(n)' = Scheduled(n)
           /\ Opened' = Opened /\ Window' = Window
           /\ (ValidContract' <=> ValidContract)
  BY DEF Row, Amount, Before, Scheduled, Opened, Window, InWindow, ValidContract

\* The due dates ...
LEMMA DueDateFixed ==
    ASSUME input' = input
    PROVE  \A n : DueDate(n)' = DueDate(n)
  BY DEF DueDate

\* ... and that they are valid (BuildSchedule).
LEMMA ValidInstallmentsFixed ==
    ASSUME input' = input
    PROVE  ValidInstallments' <=> ValidInstallments
  BY DueDateFixed DEF ValidInstallments

\* The collectability of a date (collectabilityAt).
LEMMA CollectabilityFixed ==
    ASSUME input' = input
    PROVE  \A x : Collectability(x)' = Collectability(x)
  BY DEF Collectability, PointsUpTo

\* The receipts of a date, of fixed rows and of the rows left.
LEMMA ReceiptsFixed ==
    ASSUME input' = input
    PROVE  /\ \A x : NetReceipts(x)' = NetReceipts(x)
           /\ \A rows, x : Receipts(rows, x)' = Receipts(rows, x)
           /\ \A x : Receipts(Left, x)' = Receipts(Left', x)
           /\ \A x : Receipts(Left \cup pending, x)' = Receipts(Left' \cup pending', x)
  BY DEF NetReceipts, Receipts, Row, Amount

\* What a day of the ledger accrues ...
LEMMA AccruedDayFixed ==
    ASSUME input' = input
    PROVE  \A s, x : AccruedDay(s, x)' = AccruedDay(s, x)
  BY InputTerms, DueDateFixed DEF AccruedDay

\* ... and spreads.
LEMMA PaidDayFixed ==
    ASSUME input' = input
    PROVE  \A s, x : PaidDay(s, x)' = PaidDay(s, x)
  BY ReceiptsFixed, CollectabilityFixed DEF PaidDay

-----------------------------------------------------------------------------
(***************************************************************************)
(* Instalments, receipts and the days of the ledger.                       *)
(***************************************************************************)
\* The due dates increase with the number of the instalment.
LEMMA DueDatesIncrease ==
    ASSUME TypeOK, ValidInstallments
    PROVE  /\ \A n \in 1..input.tenorMonths : DueDate(n) \in Nat
           /\ \A m, n \in 1..input.tenorMonths : m < n => DueDate(m) < DueDate(n)
  <1> DEFINE T == input.tenorMonths
  <1>0. T \in Int /\ input.contractSchedule \in Seq(Installments)
    BY DEF TypeOK, CalculationInputs
  <1>1. ASSUME NEW n \in 1..T PROVE DueDate(n) \in Nat
    <2> DEFINE P(k) == input.contractSchedule[k].number = n
               c == CHOOSE k \in DOMAIN input.contractSchedule : P(k)
    <2>1. \E k \in DOMAIN input.contractSchedule : P(k)
      BY DEF ValidInstallments
    <2>2. c \in DOMAIN input.contractSchedule
      BY <2>1
    <2>4. DueDate(n) = input.contractSchedule[c].dueDate
      BY DEF DueDate
    <2> HIDE DEF c
    <2>3. input.contractSchedule[c] \in Installments
      BY <1>0, <2>2
    <2>5. input.contractSchedule[c].dueDate \in Nat
      BY <2>3 DEF Installments, Dates
    <2> QED BY <2>4, <2>5
  <1>2. \A n \in 1..T : n > 1 => DueDate(n) > DueDate(n - 1)
    BY DEF ValidInstallments
  <1> DEFINE D == [n \in 1..T |-> DueDate(n)]
  <1>3. D \in [1..T -> Nat] /\ \A n \in 1..T : D[n] = DueDate(n) /\ (n > 1 => D[n] > D[n - 1])
    BY <1>0, <1>1, <1>2
  <1> HIDE DEF D
  <1> DEFINE Good == {x \in Nat : \A m, n \in 1..T : n = m + 1 + x => D[m] < D[n]}
  <1>4. 0 \in Good
    BY <1>0, <1>3
  <1>5. ASSUME NEW x \in Good PROVE x + 1 \in Good
    <2>1. SUFFICES ASSUME NEW m \in 1..T, NEW n \in 1..T, n = m + 1 + (x + 1) PROVE D[m] < D[n]
      OBVIOUS
    <2>2. n - 1 \in 1..T /\ n - 1 = m + 1 + x /\ n > 1
      BY <1>0, <2>1
    <2>3. D[m] < D[n - 1] /\ D[n] > D[n - 1]
      BY <1>3, <2>1, <2>2
    <2>4. D[m] \in Nat /\ D[n] \in Nat /\ D[n - 1] \in Nat
      BY <1>3, <2>1, <2>2
    <2> QED BY <2>3, <2>4
  <1> HIDE DEF Good
  <1>6. Good = Nat
    <2>1. Good \in SUBSET Nat
      BY DEF Good
    <2> QED BY <1>4, <1>5, <2>1, NatInduct
  <1>7. ASSUME NEW m \in 1..T, NEW n \in 1..T, m < n PROVE DueDate(m) < DueDate(n)
    <2>1. n - m - 1 \in Nat /\ n = m + 1 + (n - m - 1)
      BY <1>0, <1>7
    <2>2. n - m - 1 \in Good
      BY <1>6, <2>1
    <2>3. D[m] < D[n]
      BY <2>1, <2>2 DEF Good
    <2> QED BY <1>3, <2>3
  <1> QED BY <1>1, <1>7

\* What instalment n adds is what the ledger accrues on its due date, and it
\* keeps the balances sound.
LEMMA AccrueIsADay ==
    ASSUME TypeOK, ValidInstallments, ValidRounding, NEW s \in Balances, Sound(s),
           NEW n \in 1..input.tenorMonths, schedule[n] = Scheduled(n), schedule[n] >= 0
    PROVE  /\ Accrue(s, n) = AccruedDay(s, DueDate(n))
           /\ Accrue(s, n) \in Balances /\ Sound(Accrue(s, n))
  <1>1. /\ s.principal \in Int /\ s.principalDue \in Int /\ s.interestDue \in Int
        /\ input.interestPerPeriod \in Int /\ input.tenorMonths \in Int
    BY DEF Balances, TypeOK, CalculationInputs
  <1>2. Scheduled(n) \in Int
    BY <1>1, ScheduledType
  <1> DEFINE due == {m \in 1..input.tenorMonths : DueDate(m) = DueDate(n)}
             c == CHOOSE m \in due : TRUE
             d == MinMoney(s.principal, s.principalDue + Scheduled(n))
             i == s.interestDue + input.interestPerPeriod
  <1>3. due = {n}
    <2>1. ASSUME NEW m \in 1..input.tenorMonths, DueDate(m) = DueDate(n) PROVE m = n
      BY <1>1, <2>1, DueDatesIncrease
    <2> QED BY <2>1
  <1>4. c = n
    BY <1>3
  <1>5. AccruedDay(s, DueDate(n)) = IF s.principal = 0 THEN s ELSE [s EXCEPT !.principalDue = d, !.interestDue = i]
    BY <1>3, <1>4 DEF AccruedDay
  <1>6. d \in Int /\ i \in Int /\ Sound(s) /\ input.interestPerPeriod >= 0
    BY <1>1, <1>2 DEF MinMoney, ValidRounding
  <1>7. CASE s.principal = 0
    BY <1>1, <1>5, <1>7 DEF Accrue
  <1>8. CASE s.principal > 0
    <2>1. /\ Accrue(s, n) \in Balances /\ Accrue(s, n).principal = s.principal
          /\ Accrue(s, n).unapplied = s.unapplied /\ Accrue(s, n).interestDue = i
          /\ Accrue(s, n).principalDue =
               IF s.principal > s.principalDue
                 THEN s.principalDue + MinMoney(schedule[n], s.principal - s.principalDue) ELSE s.principalDue
      BY <1>1, <1>2, <1>8, AccrueFields
    <2>2. Accrue(s, n).principalDue = d
      <3> DEFINE a == s.principal
                 b == s.principalDue
                 e == Scheduled(n)
      <3>1. a \in Int /\ b \in Int /\ e \in Int /\ b <= a /\ e >= 0 /\ d = MinMoney(a, b + e)
        BY <1>1, <1>2, <1>6 DEF Sound
      <3>2. Accrue(s, n).principalDue = IF a > b THEN b + MinMoney(e, a - b) ELSE b
        BY <2>1
      <3> HIDE DEF a, b, e, d
      <3> QED BY <3>1, <3>2 DEF MinMoney
    <2>3. d >= 0 /\ d <= s.principal /\ i >= 0
      BY <1>1, <1>2, <1>6 DEF MinMoney, Sound
    <2>4. Sound(Accrue(s, n))
      BY <1>1, <1>6, <1>8, <2>1, <2>2, <2>3 DEF Sound
    <2> HIDE DEF d, i
    <2> DEFINE t == [s EXCEPT !.principalDue = d, !.interestDue = i]
    <2>5. /\ t \in Balances /\ t.principal = s.principal /\ t.principalDue = d
          /\ t.interestDue = i /\ t.unapplied = s.unapplied
      BY <1>6 DEF Balances
    <2> HIDE DEF t
    <2>6. Accrue(s, n) = t
      BY <2>1, <2>2, <2>5, SameBalances
    <2>7. AccruedDay(s, DueDate(n)) = t
      BY <1>1, <1>5, <1>8 DEF t
    <2> QED BY <2>1, <2>4, <2>6, <2>7
  <1> QED BY <1>1, <1>6, <1>7, <1>8 DEF Sound

\* Nothing falls due: the balances stay.
LEMMA NothingDue ==
    ASSUME NEW s, NEW x, \A n \in 1..input.tenorMonths : DueDate(n) # x
    PROVE  AccruedDay(s, x) = s
  BY DEF AccruedDay

\* The receipts of a date are an amount ...
LEMMA ReceiptsType ==
    ASSUME TypeOK, NEW rows, NEW x
    PROVE  Receipts(rows, x) \in Int
  <1> DEFINE f == [k \in DOMAIN input.repayments |-> IF k \in rows /\ Row(k).date = x THEN Amount(k) ELSE 0]
  <1>1. f \in Seq(Int)
    <2>1. input.repayments \in Seq(Repayments)
      BY DEF TypeOK, CalculationInputs
    <2>2. DOMAIN input.repayments = 1..Len(input.repayments) /\ Len(input.repayments) \in Nat
      BY <2>1
    <2>3. \A k \in DOMAIN input.repayments : Amount(k) \in Int
      BY RowTypes
    <2>4. f \in [1..Len(input.repayments) -> Int]
      BY <2>2, <2>3
    <2> QED BY <2>2, <2>4
  <1> HIDE DEF f
  <1>2. Total(f) \in Int
    BY <1>1, TotalAppend
  <1> QED BY <1>2 DEF Receipts, f

\* ... nothing without a row of the date ...
LEMMA ReceiptsNone ==
    ASSUME TypeOK, NEW rows, NEW x, \A k \in rows : Row(k).date # x
    PROVE  Receipts(rows, x) = 0
  <1> DEFINE f == [k \in DOMAIN input.repayments |-> IF k \in rows /\ Row(k).date = x THEN Amount(k) ELSE 0]
  <1>1. input.repayments \in Seq(Repayments)
    BY DEF TypeOK, CalculationInputs
  <1>2. DOMAIN input.repayments = 1..Len(input.repayments) /\ Len(input.repayments) \in Nat
    BY <1>1
  <1>3. \A k \in DOMAIN input.repayments : f[k] = 0
    OBVIOUS
  <1>4. f \in [1..Len(input.repayments) -> Int]
    BY <1>2, <1>3
  <1>5. f \in Seq(Int) /\ Len(f) = Len(input.repayments)
    BY <1>2, <1>4
  <1>6. Total(f) = 0
    <2> HIDE DEF f
    <2>1. \A k \in 1..Len(f) : f[k] = 0
      BY <1>2, <1>3, <1>5
    <2> QED BY <1>5, <2>1, TotalZero
  <1> QED BY <1>6 DEF Receipts

\* ... and without a row less by its amount on its date.
LEMMA ReceiptsWithout ==
    ASSUME TypeOK, NEW rows, NEW k \in DOMAIN input.repayments, k \in rows, NEW x
    PROVE  Receipts(rows \ {k}, x) = Receipts(rows, x) - (IF Row(k).date = x THEN Amount(k) ELSE 0)
  <1> DEFINE f == [m \in DOMAIN input.repayments |-> IF m \in rows /\ Row(m).date = x THEN Amount(m) ELSE 0]
             e == [m \in DOMAIN input.repayments |-> IF m \in rows \ {k} /\ Row(m).date = x THEN Amount(m) ELSE 0]
             N == Len(input.repayments)
  <1>1. input.repayments \in Seq(Repayments)
    BY DEF TypeOK, CalculationInputs
  <1>2. DOMAIN input.repayments = 1..N /\ N \in Nat
    BY <1>1
  <1>3. \A m \in DOMAIN input.repayments : Amount(m) \in Int
    BY RowTypes
  <1>4. f \in [1..N -> Int] /\ e \in [1..N -> Int]
    BY <1>2, <1>3
  <1>5. f \in Seq(Int) /\ e \in Seq(Int) /\ Len(f) = N /\ Len(e) = N
    BY <1>2, <1>4
  <1>6. /\ f[k] = (IF Row(k).date = x THEN Amount(k) ELSE 0) /\ e[k] = 0
        /\ \A m \in 1..N : m # k => e[m] = f[m]
    BY <1>2
  <1>7. Receipts(rows, x) = Total(f) /\ Receipts(rows \ {k}, x) = Total(e)
    BY DEF Receipts
  <1>8. k \in 1..N
    BY <1>2
  <1> HIDE DEF f, e, N
  <1>9. Total(e) = Total(f) - f[k] + e[k] /\ Total(f) \in Int /\ f[k] \in Int
    BY <1>4, <1>5, <1>6, <1>8, TotalChange
  <1> QED BY <1>6, <1>7, <1>9

\* The rows of the window are all the rows of its dates.
LEMMA ReceiptsOfWindow ==
    ASSUME TypeOK, NEW x \in (input.cutoff + 1)..input.asOf
    PROVE  NetReceipts(x) = Receipts(Window, x)
  <1>1. input.cutoff \in Nat /\ input.asOf \in Nat
    BY DEF TypeOK, CalculationInputs, Dates
  <1>2. \A k \in DOMAIN input.repayments : Row(k).date = x => k \in Window
    BY <1>1 DEF Window, InWindow
  <1>3. [k \in DOMAIN input.repayments |->
             IF k \in DOMAIN input.repayments /\ Row(k).date = x THEN Amount(k) ELSE 0]
        = [k \in DOMAIN input.repayments |-> IF k \in Window /\ Row(k).date = x THEN Amount(k) ELSE 0]
    BY <1>2
  <1> QED BY <1>3 DEF NetReceipts, Receipts

\* The ledger, as a function of the days with an opening and a step.
IsLedger(L) ==
    /\ \A d \in input.cutoff..input.asOf : L[d] \in Balances
    /\ L[input.cutoff] = Opened
    /\ \A d \in (input.cutoff + 1)..input.asOf : L[d] = PaidDay(AccruedDay(L[d - 1], d), d)

\* Being the ledger.
LEMMA LedgerFixed ==
    ASSUME input' = input
    PROVE  \A L : IsLedger(L)' <=> IsLedger(L)
  <1>1. /\ \A s, x : AccruedDay(s, x)' = AccruedDay(s, x)
        /\ \A s, x : PaidDay(s, x)' = PaidDay(s, x)
        /\ Opened' = Opened
    BY AccruedDayFixed, PaidDayFixed, InputTerms
  <1>2. ASSUME NEW L, NEW d
        PROVE  PaidDay(AccruedDay(L[d - 1], d), d)' = PaidDay(AccruedDay(L[d - 1], d), d)
    <2>1. AccruedDay(L[d - 1], d)' = AccruedDay(L[d - 1], d)
      BY <1>1
    <2>2. NetReceipts(d)' = NetReceipts(d) /\ Collectability(d)' = Collectability(d)
      BY ReceiptsFixed, CollectabilityFixed
    <2> QED BY <2>1, <2>2 DEF PaidDay
  <1> QED BY <1>1, <1>2 DEF IsLedger

\* The daily ledger is one.
LEMMA DailyLedgerIs ==
    ASSUME TypeOK, input.cutoff <= input.asOf
    PROVE  IsLedger(DailyLedger)
  <1> DEFINE c == input.cutoff
             N == input.asOf - c
             Day(s, x) == PaidDay(AccruedDay(s, x), x)
             F(h) == [d \in c..input.asOf |-> IF d = c THEN Opened ELSE Day(h[d - 1], d)]
             step == [i \in 1..N |-> [s \in Balances |-> Day(s, c + i)]]
             L == CHOOSE h : h = F(h)
  <1>1. c \in Nat /\ input.asOf \in Nat /\ N \in Nat /\ Opened \in Balances
    <2>1. c \in Nat /\ input.asOf \in Nat /\ input.opening \in Openings
      BY DEF TypeOK, CalculationInputs, Dates
    <2>2. Opened \in Balances
      BY <2>1 DEF Openings, Opened, Balances
    <2> QED BY <2>1, <2>2
  <1>2. \A s \in Balances : \A x : Day(s, x) \in Balances
    <2>1. input.tenorMonths \in Int
      BY DEF TypeOK, CalculationInputs
    <2>2. \A n \in 1..input.tenorMonths : Scheduled(n) \in Int
      BY <2>1, ScheduledType
    <2>3. SUFFICES ASSUME NEW s \in Balances, NEW x PROVE Day(s, x) \in Balances
      OBVIOUS
    <2>4. AccruedDay(s, x) \in Balances
      BY <2>2, AccruedDayType
    <2>5. NetReceipts(x) \in Int
      BY ReceiptsType DEF NetReceipts
    <2> QED BY <2>4, <2>5, SpreadFields DEF PaidDay
  <1> HIDE DEF N, Day
  <1>3. StepsOn(step, N, Balances) /\ \A i \in 1..N, s \in Balances : step[i][s] = Day(s, c + i)
    BY <1>2 DEF StepsOn
  <1> HIDE DEF step
  <1>4. PICK g \in [0..N -> Balances] : g[0] = Opened /\ Follows(g, step, N)
    BY <1>1, <1>3, StepsExist
  <1> DEFINE G == [d \in c..input.asOf |-> g[d - c]]
  <1>5. /\ \A d \in c..input.asOf : d - c \in 0..N /\ G[d] = g[d - c] /\ G[d] \in Balances
        /\ G[c] = Opened
    BY <1>1, <1>4 DEF N
  <1>6. ASSUME NEW d \in (c + 1)..input.asOf PROVE G[d] = Day(G[d - 1], d)
    <2>1. d - c \in 1..N /\ (d - c) - 1 = (d - 1) - c /\ d - 1 \in c..input.asOf /\ d \in c..input.asOf /\ c + (d - c) = d
      BY <1>1 DEF N
    <2>2. g[d - c] = step[d - c][g[(d - c) - 1]]
      BY <1>4, <2>1 DEF Follows
    <2>3. g[(d - 1) - c] \in Balances
      BY <1>5, <2>1
    <2>4. g[d - c] = Day(g[(d - 1) - c], d)
      BY <1>3, <2>1, <2>2, <2>3
    <2> QED BY <1>5, <2>1, <2>4
  <1>7. G = F(G)
    <2>2. G = [d \in c..input.asOf |-> G[d]]
      OBVIOUS
    <2> HIDE DEF G
    <2>1. ASSUME NEW d \in c..input.asOf PROVE G[d] = IF d = c THEN Opened ELSE Day(G[d - 1], d)
      <3>1. d = c \/ d \in (c + 1)..input.asOf
        BY <1>1
      <3>2. d \in (c + 1)..input.asOf => d # c
        BY <1>1
      <3> QED BY <1>5, <1>6, <3>1, <3>2
    <2> QED BY <2>1, <2>2
  <1>8. L = F(L)
    <2> HIDE DEF F, G
    <2> QED BY <1>7
  <1>9. DailyLedger = L
    BY DEF DailyLedger, Day
  <1> HIDE DEF L, G
  <1>10. L[c] = Opened /\ \A d \in (c + 1)..input.asOf : L[d] = Day(L[d - 1], d)
    BY <1>1, <1>8
  <1> DEFINE Good == {n \in Nat : c + n <= input.asOf => L[c + n] \in Balances}
  <1>11. 0 \in Good
    BY <1>1, <1>10
  <1>12. ASSUME NEW n \in Good PROVE n + 1 \in Good
    <2>1. SUFFICES ASSUME c + (n + 1) <= input.asOf PROVE L[c + (n + 1)] \in Balances
      OBVIOUS
    <2>2. c + (n + 1) \in (c + 1)..input.asOf /\ (c + (n + 1)) - 1 = c + n /\ L[c + n] \in Balances
      BY <1>1, <2>1
    <2>3. L[c + (n + 1)] = Day(L[c + n], c + (n + 1))
      BY <1>10, <2>2
    <2> QED BY <1>2, <2>2, <2>3
  <1> HIDE DEF Good
  <1>13. Good = Nat
    <2>1. Good \in SUBSET Nat
      BY DEF Good
    <2> QED BY <1>11, <1>12, <2>1, NatInduct
  <1>14. ASSUME NEW d \in c..input.asOf PROVE L[d] \in Balances
    <2>1. d - c \in Nat /\ c + (d - c) = d
      BY <1>1
    <2>2. d - c \in Good
      BY <1>13, <2>1
    <2> QED BY <2>1, <2>2 DEF Good
  <1> QED BY <1>9, <1>10, <1>14 DEF IsLedger, Day

\* Over days on which nothing falls due and nothing is received the ledger
\* stands still.
LEMMA IdleDays ==
    ASSUME TypeOK, NEW L, IsLedger(L), NEW s \in Balances, Sound(s),
           NEW d \in input.cutoff..input.asOf, NEW e \in d..input.asOf, L[d] = s,
           \A y \in (d + 1)..e : (\A n \in 1..input.tenorMonths : DueDate(n) # y) /\ NetReceipts(y) = 0
    PROVE  L[e] = s
  <1>1. input.cutoff \in Nat /\ input.asOf \in Nat /\ d \in Nat /\ e \in Nat
    BY DEF TypeOK, CalculationInputs, Dates
  <1> DEFINE Good == {n \in Nat : d + n <= e => L[d + n] = s}
  <1>2. 0 \in Good
    BY <1>1
  <1>3. ASSUME NEW n \in Good PROVE n + 1 \in Good
    <2>1. SUFFICES ASSUME d + (n + 1) <= e PROVE L[d + (n + 1)] = s
      OBVIOUS
    <2> DEFINE y == d + (n + 1)
    <2>2. /\ y \in (d + 1)..e /\ y - 1 = d + n /\ L[d + n] = s
          /\ y \in (input.cutoff + 1)..input.asOf
      BY <1>1, <2>1
    <2> HIDE DEF y
    <2>3. L[y] = PaidDay(AccruedDay(L[y - 1], y), y)
      BY <2>2 DEF IsLedger
    <2>4. AccruedDay(s, y) = s
      BY <2>2, NothingDue
    <2>5. PaidDay(s, y) = s
      BY <2>2, SpreadNothing DEF PaidDay
    <2>6. L[y] = s
      BY <2>2, <2>3, <2>4, <2>5
    <2> QED BY <2>6 DEF y
  <1> HIDE DEF Good
  <1>4. Good = Nat
    <2>1. Good \in SUBSET Nat
      BY DEF Good
    <2> QED BY <1>2, <1>3, <2>1, NatInduct
  <1>5. e - d \in Nat /\ d + (e - d) = e
    BY <1>1
  <1>6. e - d \in Good
    BY <1>4, <1>5
  <1> QED BY <1>1, <1>5, <1>6 DEF Good

-----------------------------------------------------------------------------
(***************************************************************************)
(* The loop follows the days of the ledger.                                *)
(***************************************************************************)
\* Having reached a day, for the variables after the step.
LEMMA ReachedFixed ==
    ASSUME input' = input, NEW L, NEW d
    PROVE  Reached(L, d, nextDue, Left, state)' <=> Reached(L, d, nextDue', Left', state')
  <1>1. /\ \A n : DueDate(n)' = DueDate(n)
        /\ \A k : Row(k)' = Row(k)
        /\ \A x : NetReceipts(x)' = NetReceipts(x) /\ Receipts(Left, x)' = Receipts(Left', x)
        /\ AccruedDay(L[d - 1], d)' = AccruedDay(L[d - 1], d)
        /\ Collectability(d)' = Collectability(d)
    BY InputTerms, DueDateFixed, ReceiptsFixed, AccruedDayFixed, CollectabilityFixed
  <1> QED BY <1>1 DEF Reached

\* Where the loop is, when nothing more falls due or is received by day e:
\* the balances of that day.
LEMMA UpToDate ==
    ASSUME TypeOK, NEW L, IsLedger(L), Sound(state),
           NEW d \in input.cutoff..input.asOf, Reached(L, d, nextDue, Left, state),
           NEW e \in d..input.asOf, \A k \in Left : Row(k).date > e,
           \A n \in 1..input.tenorMonths : n < nextDue <=> DueDate(n) <= e
    PROVE  L[e] = state
  <1>1. /\ input.cutoff \in Nat /\ input.asOf \in Nat /\ d \in Nat /\ e \in Nat /\ input.tenorMonths \in Int
        /\ state \in Balances
    BY DEF TypeOK, CalculationInputs, Dates
  <1>2. ASSUME NEW x \in d..e PROVE Receipts(Left, x) = 0
    <2>1. x \in Nat /\ x <= e /\ \A k \in Left : k \in DOMAIN input.repayments
      BY <1>1 DEF Left, TypeOK
    <2>2. \A k \in Left : Row(k).date \in Nat
      BY <2>1, RowTypes DEF Repayments, Dates
    <2>3. \A k \in Left : Row(k).date # x
      BY <1>1, <2>1, <2>2
    <2> QED BY <2>3, ReceiptsNone
  <1>3. L[d] = state
    <2>1. CASE d = input.cutoff
      BY <2>1 DEF Reached
    <2>2. CASE d # input.cutoff
      <3>1. d \in (input.cutoff + 1)..input.asOf /\ d \in d..e
        BY <1>1, <2>2
      <3>2. Receipts(Left, d) = 0 /\ NetReceipts(d) \in Int
        BY <1>2, <3>1, ReceiptsType DEF NetReceipts
      <3>3. state = Spread(AccruedDay(L[d - 1], d), NetReceipts(d) - Receipts(Left, d), Collectability(d))
        BY <2>2 DEF Reached
      <3>4. NetReceipts(d) - Receipts(Left, d) = NetReceipts(d)
        BY <3>2
      <3>5. L[d] = Spread(AccruedDay(L[d - 1], d), NetReceipts(d), Collectability(d))
        BY <3>1 DEF IsLedger, PaidDay
      <3> QED BY <3>3, <3>4, <3>5
    <2> QED BY <2>1, <2>2
  <1>4. ASSUME NEW y \in (d + 1)..e
        PROVE  (\A n \in 1..input.tenorMonths : DueDate(n) # y) /\ NetReceipts(y) = 0
    <2>1. y \in Nat /\ d < y /\ y <= e /\ y \in d..e /\ y \in (d + 1)..input.asOf
      BY <1>1
    <2>2. ASSUME NEW n \in 1..input.tenorMonths, DueDate(n) = y PROVE FALSE
      <3>1. n < nextDue
        BY <2>1, <2>2
      <3>2. DueDate(n) <= d
        BY <3>1 DEF Reached
      <3> QED BY <1>1, <2>1, <2>2, <3>2
    <2>3. NetReceipts(y) = 0
      BY <1>2, <2>1 DEF Reached
    <2> QED BY <2>2, <2>3
  <1> QED BY <1>1, <1>3, <1>4, IdleDays

\* The first row left has the earliest date, and the others stay.
LEMMA FirstRow ==
    ASSUME TypeOK, KeptInv, phase = "apply", effective # <<>>
    PROVE  LET k == Head(effective)
           IN  /\ k \in Left /\ k \in Window /\ k \in DOMAIN input.repayments /\ Row(k).date \in Nat
               /\ \A m \in Left : Row(m).date >= Row(k).date
               /\ {Tail(effective)[i] : i \in DOMAIN Tail(effective)} = Left \ {k}
  <1> DEFINE k == Head(effective)
             N == Len(effective)
  <1>1. /\ effective \in Seq(DOMAIN input.repayments) /\ N \in Nat /\ N # 0 /\ DOMAIN effective = 1..N
        /\ k = effective[1] /\ 1 \in 1..N /\ Tail(effective) \in Seq(DOMAIN input.repayments)
        /\ DOMAIN Tail(effective) = 1..(N - 1)
        /\ \A i \in 1..(N - 1) : Tail(effective)[i] = effective[i + 1]
    BY DEF TypeOK
  <1>2. /\ Left \subseteq Window
        /\ \A i, j \in 1..N : i < j => Before(effective[i], effective[j])
    BY <1>1 DEF KeptInv
  <1>3. \A i \in 1..N : effective[i] \in DOMAIN input.repayments /\ effective[i] \in Left
    BY <1>1 DEF Left
  <1>4. \A m \in DOMAIN input.repayments : Row(m).date \in Nat /\ Row(m).order \in Int /\ m \in Int
    <2>1. DOMAIN input.repayments \subseteq Int
      BY DEF TypeOK, CalculationInputs
    <2> QED BY <2>1, RowTypes DEF Repayments, Dates
  <1>5. \A i \in 2..N : Before(k, effective[i])
    BY <1>1, <1>2
  <1>6. ASSUME NEW m \in Left PROVE Row(m).date >= Row(k).date
    <2>1. PICK i \in 1..N : m = effective[i]
      BY <1>1 DEF Left
    <2>2. Row(m).date \in Nat /\ Row(k).date \in Nat
      BY <1>1, <1>3, <1>4, <2>1
    <2>3. CASE i = 1
      BY <1>1, <2>1, <2>2, <2>3
    <2>4. CASE i \in 2..N
      BY <1>5, <2>1, <2>2, <2>4 DEF Before
    <2> QED BY <1>1, <2>3, <2>4
  <1>7. ASSUME NEW i \in 2..N PROVE effective[i] # k
    <2>1. Row(k).date \in Nat /\ Row(k).order \in Int /\ k \in Int
      BY <1>1, <1>3, <1>4
    <2>2. ~Before(k, k)
      BY <2>1 DEF Before
    <2> QED BY <1>5, <2>2
  <1>8. {Tail(effective)[i] : i \in DOMAIN Tail(effective)} = Left \ {k}
    <2>1. ASSUME NEW i \in 1..(N - 1) PROVE Tail(effective)[i] \in Left \ {k}
      <3>1. i + 1 \in 2..N /\ i + 1 \in 1..N
        BY <1>1
      <3> QED BY <1>1, <1>3, <1>7, <3>1
    <2>2. ASSUME NEW m \in Left \ {k} PROVE \E i \in 1..(N - 1) : m = Tail(effective)[i]
      <3>1. PICK i \in 1..N : m = effective[i]
        BY <1>1 DEF Left
      <3>2. i - 1 \in 1..(N - 1) /\ (i - 1) + 1 = i
        BY <1>1, <3>1
      <3> QED BY <1>1, <3>1, <3>2
    <2> DEFINE rest == Tail(effective)
               later == {rest[i] : i \in 1..(N - 1)}
    <2> HIDE DEF rest, k, N
    <2>3. later \subseteq Left \ {k} /\ Left \ {k} \subseteq later
      BY <2>1, <2>2 DEF rest
    <2>4. {rest[i] : i \in DOMAIN rest} = later
      BY <1>1 DEF rest
    <2> HIDE DEF later
    <2>5. {rest[i] : i \in DOMAIN rest} = Left \ {k}
      BY <2>3, <2>4
    <2> QED BY <2>5 DEF rest
  <1> QED BY <1>1, <1>2, <1>3, <1>4, <1>6, <1>8

\* What the loop knows.
LEMMA LoopFacts ==
    ASSUME CInv, ContractInv, KeptInv, phase = "apply"
    PROVE  /\ TypeOK /\ state \in Balances /\ Sound(state) /\ ValidInstallments /\ ValidRounding
           /\ Len(schedule) = input.tenorMonths /\ input.tenorMonths \in Nat
           /\ \A n \in 1..input.tenorMonths : schedule[n] = Scheduled(n) /\ schedule[n] >= 0
           /\ \A n \in 1..input.tenorMonths : DueDate(n) \in Nat
           /\ \A m, n \in 1..input.tenorMonths : m < n => DueDate(m) < DueDate(n)
           /\ input.cutoff \in Nat /\ input.asOf \in Nat /\ input.cutoff < input.asOf
           /\ nextDue \in Nat \ {0}
           /\ Left \subseteq Window
           /\ \A k \in Window : /\ k \in DOMAIN input.repayments /\ Row(k).date \in Nat
                                /\ Row(k).date > input.cutoff /\ Row(k).date <= input.asOf
  <1>1. TypeOK /\ state \in Balances /\ nextDue \in Nat \ {0} /\ schedule \in Seq(Int)
    BY DEF CInv, TypeOK
  <1>2. Sound(state)
    BY DEF CInv, BalanceInv, Working, EndingIsConsistent, Sound
  <1>3. ValidRounding /\ \A n \in 1..Len(schedule) : schedule[n] >= 0
    BY DEF CInv, RowsInv, Working
  <1>4. /\ ValidInstallments /\ Len(schedule) = input.tenorMonths /\ input.cutoff < input.asOf
        /\ \A n \in DOMAIN schedule : schedule[n] = Scheduled(n)
    BY DEF ContractInv, Working
  <1>5. input.tenorMonths \in Nat /\ DOMAIN schedule = 1..input.tenorMonths
    BY <1>1, <1>4
  <1>6. input.cutoff \in Nat /\ input.asOf \in Nat
    BY <1>1 DEF TypeOK, CalculationInputs, Dates
  <1>7. Left \subseteq Window
    BY DEF KeptInv
  <1>8. \A k \in Window : /\ k \in DOMAIN input.repayments /\ Row(k).date > input.cutoff
                          /\ Row(k).date <= input.asOf
    BY DEF Window, InWindow
  <1>9. \A k \in Window : Row(k).date \in Nat
    BY <1>1, <1>8, RowTypes DEF Repayments, Dates
  <1> QED BY <1>1, <1>2, <1>3, <1>4, <1>5, <1>6, <1>7, <1>8, <1>9, DueDatesIncrease

\* An instalment accrued opens its day.
LEMMA AccrueReaches ==
    ASSUME CInv, ContractInv, KeptInv, AccrueDue, NEW L, IsLedger(L),
           NEW d \in input.cutoff..input.asOf, Reached(L, d, nextDue, Left, state)
    PROVE  \E e \in input.cutoff..input.asOf : Reached(L, e, nextDue', Left', state')
  <1> DEFINE T == input.tenorMonths
             n == nextDue
             e == DueDate(n)
  <1>1. /\ phase = "apply" /\ nextDue <= Len(schedule) /\ DueDate(nextDue) <= Through
        /\ state' = Accrue(state, nextDue) /\ nextDue' = nextDue + 1 /\ effective' = effective
    BY DEF AccrueDue, DueBy, rowVars
  <1>2. /\ TypeOK /\ state \in Balances /\ Sound(state) /\ ValidInstallments /\ ValidRounding
        /\ T \in Nat /\ n \in 1..T /\ schedule[n] = Scheduled(n) /\ schedule[n] >= 0
        /\ \A m \in 1..T : DueDate(m) \in Nat
        /\ \A m, k \in 1..T : m < k => DueDate(m) < DueDate(k)
        /\ input.cutoff \in Nat /\ input.asOf \in Nat /\ d \in Nat /\ Left \subseteq Window
        /\ \A k \in Window : Row(k).date \in Nat /\ Row(k).date > input.cutoff /\ Row(k).date <= input.asOf
    BY <1>1, LoopFacts
  <1>3. /\ \A m \in 1..T : m < n <=> DueDate(m) <= d
        /\ \A x \in (d + 1)..input.asOf : NetReceipts(x) = Receipts(Left, x)
    BY DEF Reached
  <1>4. e \in Nat /\ e > d
    BY <1>2, <1>3
  <1>5. Through \in Nat /\ Through <= input.asOf /\ \A k \in Left : Row(k).date >= Through
    <2>1. CASE effective # <<>>
      BY <1>1, <1>2, <2>1, FirstRow DEF Through
    <2>2. CASE effective = <<>>
      <3>1. Left = {}
        BY <2>2 DEF Left
      <3> QED BY <1>2, <2>2, <3>1 DEF Through
    <2> QED BY <2>1, <2>2
  <1>6. /\ e \in (input.cutoff + 1)..input.asOf /\ e \in (d + 1)..input.asOf
        /\ e - 1 \in d..input.asOf /\ e - 1 \in Nat /\ e # input.cutoff
    BY <1>1, <1>2, <1>4, <1>5
  <1>7. \A k \in Left : Row(k).date >= e /\ Row(k).date > e - 1
    BY <1>1, <1>2, <1>4, <1>5
  <1>8. ASSUME NEW m \in 1..T
        PROVE  (m < n <=> DueDate(m) <= e - 1) /\ (m < n + 1 <=> DueDate(m) <= e)
    <2>1. DueDate(m) \in Nat
      BY <1>2
    <2>2. CASE m < n
      BY <1>2, <1>3, <1>4, <2>1, <2>2
    <2>3. CASE m = n
      BY <1>2, <1>4, <2>1, <2>3
    <2>4. CASE n < m
      BY <1>2, <1>4, <2>1, <2>4
    <2> QED BY <1>2, <2>2, <2>3, <2>4
  <1>9. L[e - 1] = state
    BY <1>2, <1>6, <1>7, <1>8, UpToDate
  <1>10. /\ AccruedDay(L[e - 1], e) = state' /\ state' \in Balances /\ Sound(state')
    BY <1>1, <1>2, <1>9, AccrueIsADay
  <1>11. NetReceipts(e) = Receipts(Left, e) /\ Receipts(Left, e) \in Int
    BY <1>2, <1>3, <1>6, ReceiptsType
  <1>12. NetReceipts(e) - Receipts(Left, e) = 0
    BY <1>11
  <1>13. Spread(state', 0, Collectability(e)) = state'
    BY <1>10, SpreadNothing
  <1>14. Left' = Left
    BY <1>1 DEF Left
  <1>15. \A x \in (e + 1)..input.asOf : NetReceipts(x) = Receipts(Left, x)
    <2>1. \A x \in (e + 1)..input.asOf : x \in (d + 1)..input.asOf
      BY <1>2, <1>4
    <2> QED BY <1>3, <2>1
  <1>16. nextDue' <= T + 1
    BY <1>1, <1>2
  <1> HIDE DEF e
  <1>17. Reached(L, e, nextDue', Left', state')
    BY <1>1, <1>6, <1>7, <1>8, <1>10, <1>12, <1>13, <1>14, <1>15, <1>16 DEF Reached
  <1>18. e \in input.cutoff..input.asOf
    BY <1>2, <1>6
  <1> QED BY <1>17, <1>18

\* A repayment allocated is a part of the receipts of its day spread.
LEMMA ApplyReaches ==
    ASSUME CInv, ContractInv, KeptInv, ApplyRepayment, NEW L, IsLedger(L),
           NEW d \in input.cutoff..input.asOf, Reached(L, d, nextDue, Left, state)
    PROVE  \E e \in input.cutoff..input.asOf : Reached(L, e, nextDue', Left', state')
  <1> DEFINE T == input.tenorMonths
             k == Head(effective)
             e == Row(k).date
  <1>1. /\ phase = "apply" /\ effective # <<>> /\ ~DueBy(e)
        /\ state' = Allocate(state, Amount(k), Collectability(e))
        /\ nextDue' = nextDue /\ effective' = Tail(effective)
    BY DEF ApplyRepayment, Through
  <1>2. /\ TypeOK /\ state \in Balances /\ Sound(state) /\ ValidInstallments
        /\ T \in Nat /\ nextDue \in Nat \ {0} /\ Len(schedule) = T
        /\ \A m \in 1..T : DueDate(m) \in Nat
        /\ \A m, n \in 1..T : m < n => DueDate(m) < DueDate(n)
        /\ input.cutoff \in Nat /\ input.asOf \in Nat /\ d \in Nat /\ Left \subseteq Window
        /\ \A m \in Window : /\ Row(m).date \in Nat /\ Row(m).date > input.cutoff /\ Row(m).date <= input.asOf
                             /\ m \in DOMAIN input.repayments
    BY <1>1, LoopFacts
  <1>3. /\ \A m \in 1..T : m < nextDue <=> DueDate(m) <= d
        /\ \A m \in Left : Row(m).date >= d
        /\ \A x \in (d + 1)..input.asOf : NetReceipts(x) = Receipts(Left, x)
        /\ nextDue <= T + 1
    BY DEF Reached
  <1>4. /\ k \in Left /\ k \in DOMAIN input.repayments /\ Left' = Left \ {k}
        /\ \A m \in Left : Row(m).date >= e
    BY <1>1, <1>2, FirstRow DEF Left
  <1>5. Amount(k) \in Nat
    <2>1. effective \in Seq(DOMAIN input.repayments) /\ \A n \in 1..Len(effective) : Amount(effective[n]) >= 0
      BY <1>2 DEF TypeOK, CInv, RowsInv
    <2>2. k = effective[1] /\ 1 \in 1..Len(effective)
      BY <1>1, <2>1
    <2> QED BY <1>2, <1>4, <2>1, <2>2, RowTypes
  <1>6. /\ e \in Nat /\ e >= d /\ e \in (input.cutoff + 1)..input.asOf
        /\ e \in input.cutoff..input.asOf /\ e # input.cutoff
    BY <1>2, <1>3, <1>4
  <1>7. ASSUME NEW m \in 1..T PROVE m < nextDue <=> DueDate(m) <= e
    <2>1. DueDate(m) \in Nat
      BY <1>2
    <2>2. CASE m < nextDue
      BY <1>2, <1>3, <1>6, <2>1, <2>2
    <2>3. CASE nextDue <= m
      <3>1. nextDue \in 1..T /\ ~(DueDate(nextDue) <= e) /\ DueDate(nextDue) \in Nat
        BY <1>1, <1>2, <2>3 DEF DueBy
      <3>2. DueDate(nextDue) <= DueDate(m)
        BY <1>2, <2>1, <2>3, <3>1
      <3> QED BY <1>2, <1>6, <2>1, <2>3, <3>1, <3>2
    <2> QED BY <1>2, <2>2, <2>3
  <1>8. \A x : Receipts(Left', x) = Receipts(Left, x) - (IF e = x THEN Amount(k) ELSE 0) /\ Receipts(Left, x) \in Int
    BY <1>2, <1>4, ReceiptsWithout, ReceiptsType
  <1>9. ASSUME NEW x \in (e + 1)..input.asOf PROVE NetReceipts(x) = Receipts(Left', x)
    <2>1. x \in (d + 1)..input.asOf /\ e # x
      BY <1>2, <1>6
    <2> QED BY <1>3, <1>8, <2>1
  <1>10. NetReceipts(e) \in Int
    BY <1>2, ReceiptsType DEF NetReceipts
  <1>11. CASE e = d
    <2> DEFINE a == AccruedDay(L[e - 1], e)
               z == NetReceipts(e) - Receipts(Left, e)
    <2>1. a \in Balances /\ Sound(a) /\ z \in Nat /\ state = Spread(a, z, Collectability(e))
      BY <1>6, <1>8, <1>10, <1>11 DEF Reached
    <2>2. NetReceipts(e) - Receipts(Left', e) = z + Amount(k) /\ z + Amount(k) >= 0
      BY <1>5, <1>8, <1>10, <2>1
    <2> HIDE DEF a, z
    <2>3. state' = Spread(state, Amount(k), Collectability(e))
      BY <1>1, <1>2, <1>5, AllocateSpreads
    <2>4. state' = Spread(a, z + Amount(k), Collectability(e))
      BY <1>5, <2>1, <2>3, SpreadTwice
    <2> HIDE DEF e, k
    <2>5. Reached(L, e, nextDue', Left', state')
      BY <1>1, <1>3, <1>4, <1>6, <1>7, <1>9, <2>1, <2>2, <2>4 DEF Reached, a
    <2> QED BY <1>6, <2>5
  <1>12. CASE e > d
    <2>1. e - 1 \in d..input.asOf /\ e - 1 \in Nat /\ e \in (d + 1)..input.asOf
      BY <1>2, <1>6, <1>12
    <2>2. \A m \in Left : Row(m).date > e - 1
      BY <1>2, <1>4, <1>6
    <2>3. ASSUME NEW m \in 1..T PROVE (m < nextDue <=> DueDate(m) <= e - 1) /\ DueDate(m) # e
      <3>1. DueDate(m) \in Nat
        BY <1>2
      <3>2. CASE m < nextDue
        BY <1>2, <1>3, <1>6, <1>12, <3>1, <3>2
      <3>3. CASE ~(m < nextDue)
        BY <1>2, <1>6, <1>7, <3>1, <3>3
      <3> QED BY <3>2, <3>3
    <2>4. L[e - 1] = state
      BY <1>2, <2>1, <2>2, <2>3, UpToDate
    <2>5. AccruedDay(L[e - 1], e) = state
      BY <2>3, <2>4, NothingDue
    <2>6. NetReceipts(e) - Receipts(Left', e) = Amount(k) /\ Amount(k) >= 0
      BY <1>3, <1>5, <1>8, <2>1
    <2>7. state' = Spread(state, Amount(k), Collectability(e))
      BY <1>1, <1>2, <1>5, AllocateSpreads
    <2> HIDE DEF e, k
    <2>8. Reached(L, e, nextDue', Left', state')
      BY <1>1, <1>2, <1>3, <1>4, <1>6, <1>7, <1>9, <2>5, <2>6, <2>7 DEF Reached
    <2> QED BY <1>6, <2>8
  <1> QED BY <1>2, <1>6, <1>11, <1>12

\* At the end of the loop the balances are those of the last day.
LEMMA FinishReaches ==
    ASSUME CInv, ContractInv, KeptInv, FinishLoop, NEW L, IsLedger(L),
           NEW d \in input.cutoff..input.asOf, Reached(L, d, nextDue, Left, state)
    PROVE  state = L[input.asOf]
  <1> DEFINE T == input.tenorMonths
  <1>1. phase = "apply" /\ effective = <<>> /\ ~DueBy(input.asOf)
    BY DEF FinishLoop, Through
  <1>2. /\ TypeOK /\ Sound(state) /\ T \in Nat /\ nextDue \in Nat \ {0} /\ Len(schedule) = T
        /\ \A m \in 1..T : DueDate(m) \in Nat
        /\ \A m, n \in 1..T : m < n => DueDate(m) < DueDate(n)
        /\ input.cutoff \in Nat /\ input.asOf \in Nat /\ d \in Nat
    BY <1>1, LoopFacts
  <1>3. \A m \in 1..T : m < nextDue <=> DueDate(m) <= d
    BY DEF Reached
  <1>4. Left = {}
    BY <1>1 DEF Left
  <1>5. ASSUME NEW m \in 1..T PROVE m < nextDue <=> DueDate(m) <= input.asOf
    <2>1. DueDate(m) \in Nat
      BY <1>2
    <2>2. CASE m < nextDue
      BY <1>2, <1>3, <2>1, <2>2
    <2>3. CASE nextDue <= m
      <3>1. nextDue \in 1..T /\ ~(DueDate(nextDue) <= input.asOf) /\ DueDate(nextDue) \in Nat
        BY <1>1, <1>2, <2>3 DEF DueBy
      <3>2. DueDate(nextDue) <= DueDate(m)
        BY <1>2, <2>1, <2>3, <3>1
      <3> QED BY <1>2, <2>1, <2>3, <3>1, <3>2
    <2> QED BY <1>2, <2>2, <2>3
  <1>6. input.asOf \in d..input.asOf
    BY <1>2
  <1> QED BY <1>2, <1>4, <1>5, <1>6, UpToDate

\* The loop starts at the cutoff.
LEMMA SkipReaches ==
    ASSUME CInv, ContractInv, KeptInv, OpeningInv, phase = "skip", ~DueBy(input.cutoff), NEW L, IsLedger(L)
    PROVE  \E d \in input.cutoff..input.asOf : Reached(L, d, nextDue, Left, state)
  <1> DEFINE T == input.tenorMonths
             c == input.cutoff
  <1>1. /\ TypeOK /\ ValidInstallments /\ c < input.asOf /\ Len(schedule) = T /\ pending = {}
        /\ Left \subseteq Window /\ state = Opened /\ nextDue \in Nat \ {0} /\ nextDue <= T + 1
        /\ \A n \in 1..(nextDue - 1) : DueDate(n) <= c
        /\ \A x \in (c + 1)..input.asOf : NetReceipts(x) = Receipts(Left \cup pending, x)
    BY DEF CInv, ScanInv, ContractInv, KeptInv, OpeningInv, Working, TypeOK
  <1>2. c \in Nat /\ input.asOf \in Nat /\ T \in Int
    BY <1>1 DEF TypeOK, CalculationInputs, Dates
  <1>3. /\ \A n \in 1..T : DueDate(n) \in Nat
        /\ \A m, n \in 1..T : m < n => DueDate(m) < DueDate(n)
    BY <1>1, DueDatesIncrease
  <1>4. ASSUME NEW n \in 1..T PROVE n < nextDue <=> DueDate(n) <= c
    <2>1. DueDate(n) \in Nat
      BY <1>3
    <2>2. CASE n < nextDue
      BY <1>1, <1>2, <2>1, <2>2
    <2>3. CASE nextDue <= n
      <3>1. nextDue \in 1..T /\ ~(DueDate(nextDue) <= c) /\ DueDate(nextDue) \in Nat
        BY <1>1, <1>2, <1>3, <2>3 DEF DueBy
      <3>2. DueDate(nextDue) <= DueDate(n)
        BY <1>1, <1>2, <1>3, <2>1, <2>3, <3>1
      <3> QED BY <1>1, <1>2, <2>1, <2>3, <3>1, <3>2
    <2> QED BY <1>1, <1>2, <2>2, <2>3
  <1>5. \A k \in Left : Row(k).date >= c
    <2>1. \A k \in Left : k \in DOMAIN input.repayments /\ Row(k).date > c
      BY <1>1 DEF Window, InWindow
    <2>2. \A k \in Left : Row(k).date \in Nat
      BY <1>1, <2>1, RowTypes DEF Repayments, Dates
    <2> QED BY <1>2, <2>1, <2>2
  <1>6. \A x \in (c + 1)..input.asOf : NetReceipts(x) = Receipts(Left, x)
    <2>1. Left \cup pending = Left
      BY <1>1
    <2> QED BY <1>1, <2>1
  <1>7. state = L[c]
    BY <1>1 DEF IsLedger
  <1>8. Reached(L, c, nextDue, Left, state)
    BY <1>1, <1>4, <1>5, <1>6, <1>7 DEF Reached
  <1> QED BY <1>1, <1>2, <1>8

-----------------------------------------------------------------------------
(***************************************************************************)
(* The steps keep to the ledger.                                           *)
(***************************************************************************)
\* The rows built are those of the ledger (calculator.go BuildSchedule).
LEMMA ContractStep == CInv /\ ContractInv /\ [Next]_vars => ContractInv'
  <1> SUFFICES ASSUME CInv, ContractInv, [Next]_vars PROVE ContractInv'
    OBVIOUS
  <1>0. TypeOK /\ input' = input
    BY InputIsFixed DEF CInv
  <1>1. /\ ValidContract' <=> ValidContract
        /\ ValidInstallments' <=> ValidInstallments
        /\ \A n : Scheduled(n)' = Scheduled(n)
    BY <1>0, InputTerms, ValidInstallmentsFixed
  <1>s. /\ schedule \in Seq(Int) /\ balance \in Int /\ input.contractualPrincipal \in Int
        /\ input.principalPerPeriod \in Int /\ input.tenorMonths \in Int
        /\ input.cutoff \in Nat /\ input.asOf \in Nat
    BY <1>0 DEF TypeOK, CalculationInputs, Dates
  <1>2. CASE Validate
    <2>1. schedule = <<>> /\ balance = input.contractualPrincipal /\ UNCHANGED <<schedule, balance>>
      BY <1>2 DEF Validate, CInv, TableInv, StartInv, tableVars
    <2>2. phase' \in {"failed", "done", "schedule"}
      BY <1>2 DEF Validate, FailWith, FinishCalculation
    <2>3. phase' \in {"done", "schedule"} => input.cutoff <= input.asOf
      BY <1>2, <1>s DEF Validate, FailWith
    <2>4. phase' = "schedule" => ValidContract /\ ValidInstallments /\ input.cutoff < input.asOf
      BY <1>2, <1>s DEF Validate, FailWith, FinishCalculation
    <2>5. input.contractualPrincipal = input.contractualPrincipal - 0 * input.principalPerPeriod
      BY <1>s
    <2>6. Len(<<>>) = 0 /\ DOMAIN <<>> = {}
      OBVIOUS
    <2> QED BY <1>0, <1>1, <2>1, <2>2, <2>3, <2>4, <2>5, <2>6 DEF ContractInv, Working
  <1>3. CASE BuildRow
    <2> DEFINE N == Len(schedule)
               p == input.principalPerPeriod
               amount == IF N + 1 = input.tenorMonths THEN balance ELSE p
    <2>1. /\ phase = "schedule" /\ N < input.tenorMonths /\ N \in Nat /\ p \in Int
          /\ balance = input.contractualPrincipal - N * p
          /\ ValidContract /\ ValidInstallments /\ input.cutoff < input.asOf /\ input.cutoff <= input.asOf
          /\ \A n \in 1..N : schedule[n] = Scheduled(n)
      BY <1>3, <1>s DEF BuildRow, ContractInv, Working
    <2>2. CASE phase' = "failed"
      BY <2>2 DEF ContractInv, Working
    <2>3. CASE phase' = phase /\ schedule' = Append(schedule, amount) /\ balance' = balance - amount
      <3>1. /\ N + 1 \in Int /\ (N + 1) - 1 = N /\ amount = Scheduled(N + 1) /\ amount \in Int
        BY <1>s, <2>1 DEF Scheduled
      <3>2. N + 1 < input.tenorMonths => balance - amount = input.contractualPrincipal - (N + 1) * p
        <4>1. (N + 1) * p = N * p + p /\ N * p \in Int
          BY <2>1
        <4>2. N + 1 < input.tenorMonths => amount = p
          BY <1>s, <2>1
        <4> HIDE DEF p, N, amount
        <4> QED BY <1>s, <2>1, <4>1, <4>2
      <3> HIDE DEF amount
      <3>3. /\ Len(schedule') = N + 1 /\ DOMAIN schedule' = 1..(N + 1)
            /\ \A n \in 1..N : schedule'[n] = schedule[n]
            /\ schedule'[N + 1] = amount
        BY <1>s, <2>3, <3>1, AppendProperties
      <3>4. \A n \in DOMAIN schedule' : schedule'[n] = Scheduled(n)
        <4>1. \A n \in 1..(N + 1) : n \in 1..N \/ n = N + 1
          BY <2>1
        <4> HIDE DEF N
        <4> QED BY <2>1, <3>1, <3>3, <4>1
      <3>5. phase' = "schedule"
        BY <2>1, <2>3
      <3> HIDE DEF N, p
      <3> QED BY <1>0, <1>1, <2>1, <2>3, <3>2, <3>3, <3>4, <3>5 DEF ContractInv, Working, p
    <2> QED BY <1>3, <2>2, <2>3 DEF BuildRow, FailWith
  <1>4. CASE ScheduleBuilt
    BY <1>0, <1>1, <1>4 DEF ScheduleBuilt, ContractInv, Working, tableVars
  <1>5. ASSUME phase \in {"timeline", "repayments", "skip", "apply"}, schedule' = schedule,
               phase' \in {phase, "repayments", "skip", "apply", "done", "failed"}
        PROVE  ContractInv'
    BY <1>0, <1>1, <1>5 DEF ContractInv, Working
  <1>6. CASE ValidateTimeline \/ (\E k \in pending : ScanRepayment(k)) \/ RepaymentsScanned
    <2>1. /\ phase \in {"timeline", "repayments", "skip", "apply"} /\ schedule' = schedule
          /\ phase' \in {phase, "repayments", "skip", "apply", "done", "failed"}
      BY <1>6 DEF ValidateTimeline, ScanRepayment, RejectRow, Take, RepaymentsScanned, FailWith, tableVars
    <2> QED BY <1>5, <2>1
  <1>7. CASE SkipPastDue \/ AccrueDue \/ ApplyRepayment \/ FinishLoop
    <2>1. /\ phase \in {"timeline", "repayments", "skip", "apply"} /\ schedule' = schedule
          /\ phase' \in {phase, "repayments", "skip", "apply", "done", "failed"}
      BY <1>7 DEF SkipPastDue, AccrueDue, ApplyRepayment, FinishLoop, FinishCalculation, FailWith, tableVars
    <2> QED BY <1>5, <2>1
  <1>8. CASE UNCHANGED vars
    BY <1>0, <1>1, <1>8 DEF vars, ContractInv
  <1> QED BY <1>2, <1>3, <1>4, <1>6, <1>7, <1>8 DEF Next, Returned

\* Until the loop the balances are the opening ones (calculator.go Calculate).
LEMMA OpeningStep == CInv /\ ContractInv /\ OpeningInv /\ [Next]_vars => OpeningInv'
  <1> SUFFICES ASSUME CInv, ContractInv, OpeningInv, [Next]_vars PROVE OpeningInv'
    OBVIOUS
  <1>0. TypeOK /\ input' = input
    BY InputIsFixed DEF CInv
  <1>1. (\A n : DueDate(n)' = DueDate(n)) /\ Opened' = Opened
    BY <1>0, InputTerms, DueDateFixed
  <1>2. ASSUME phase \in {"validate", "schedule", "timeline", "repayments"}, state' = state, nextDue' = nextDue,
               phase' \in {phase, "schedule", "timeline", "repayments", "skip", "done", "failed"}
        PROVE  OpeningInv'
    <2>1. state = Opened /\ nextDue = 1
      BY <1>2 DEF OpeningInv
    <2>2. phase' = "skip" => nextDue <= input.tenorMonths + 1
      <3>1. phase \in {"schedule", "timeline", "repayments"}
              => input.tenorMonths > 0 /\ input.tenorMonths \in Int
        BY <1>0 DEF ContractInv, Working, ValidContract, TypeOK, CalculationInputs
      <3>2. phase' = "skip" => phase = "repayments"
        BY <1>2 DEF Next, Validate, BuildRow, ScheduleBuilt, ValidateTimeline, ScanRepayment, RejectRow, Take,
                    RepaymentsScanned, SkipPastDue, AccrueDue, ApplyRepayment, FinishLoop, FinishCalculation,
                    FailWith, Returned, vars
      <3> QED BY <2>1, <3>1, <3>2
    <2>3. 1..(nextDue - 1) = {}
      BY <2>1
    <2> QED BY <1>0, <1>1, <1>2, <2>1, <2>2, <2>3 DEF OpeningInv
  <1>3. CASE Validate \/ BuildRow \/ ScheduleBuilt \/ ValidateTimeline \/ RepaymentsScanned
             \/ (\E k \in pending : ScanRepayment(k))
    <2>1. /\ phase \in {"validate", "schedule", "timeline", "repayments"} /\ state' = state /\ nextDue' = nextDue
          /\ phase' \in {phase, "schedule", "timeline", "repayments", "skip", "done", "failed"}
      BY <1>3 DEF Validate, BuildRow, ScheduleBuilt, ValidateTimeline, ScanRepayment, RejectRow, Take,
                  RepaymentsScanned, FinishCalculation, FailWith, loopVars
    <2> QED BY <1>2, <2>1
  <1>4. CASE SkipPastDue
    <2>1. /\ phase = "skip" /\ state' = state /\ state = Opened /\ nextDue <= input.tenorMonths + 1
          /\ \A n \in 1..(nextDue - 1) : DueDate(n) <= input.cutoff
      BY <1>4 DEF SkipPastDue, OpeningInv
    <2>2. CASE DueBy(input.cutoff) /\ nextDue' = nextDue + 1 /\ phase' = phase
      <3>1. /\ Len(schedule) = input.tenorMonths /\ nextDue \in Nat /\ input.tenorMonths \in Int
        BY <1>0, <2>1 DEF ContractInv, TypeOK, CalculationInputs
      <3>2. nextDue + 1 <= input.tenorMonths + 1 /\ DueDate(nextDue) <= input.cutoff
        BY <2>2, <3>1 DEF DueBy
      <3>3. \A n \in 1..nextDue : n \in 1..(nextDue - 1) \/ n = nextDue
        BY <3>1
      <3>4. \A n \in 1..nextDue : DueDate(n) <= input.cutoff
        BY <2>1, <3>2, <3>3
      <3>5. nextDue' - 1 = nextDue
        BY <2>2, <3>1
      <3> QED BY <1>0, <1>1, <2>1, <2>2, <3>2, <3>4, <3>5 DEF OpeningInv
    <2>3. CASE phase' = "apply"
      BY <2>3 DEF OpeningInv
    <2> QED BY <1>4, <2>2, <2>3 DEF SkipPastDue
  <1>5. CASE AccrueDue \/ ApplyRepayment \/ FinishLoop
    <2>1. phase' \in {"apply", "done", "failed"}
      BY <1>5 DEF AccrueDue, ApplyRepayment, FinishLoop, FinishCalculation, FailWith
    <2> QED BY <2>1 DEF OpeningInv
  <1>6. CASE UNCHANGED vars
    BY <1>0, <1>1, <1>6 DEF vars, OpeningInv
  <1> QED BY <1>3, <1>4, <1>5, <1>6 DEF Next, Returned

\* The rows looked at, as a set, and appended.
LEMMA LeftAppend ==
    ASSUME TypeOK, NEW k \in DOMAIN input.repayments, effective' = Append(effective, k)
    PROVE  /\ Left' = Left \cup {k} /\ DOMAIN effective' = 1..(Len(effective) + 1)
           /\ DOMAIN effective = 1..Len(effective) /\ Len(effective) \in Nat
           /\ \A i \in 1..Len(effective) : effective'[i] = effective[i] /\ effective[i] \in Left
           /\ effective'[Len(effective) + 1] = k
  <1> DEFINE N == Len(effective)
  <1>1. effective \in Seq(DOMAIN input.repayments)
    BY DEF TypeOK
  <1>2. /\ DOMAIN effective = 1..N /\ N \in Nat /\ DOMAIN effective' = 1..(N + 1)
        /\ \A i \in 1..N : effective'[i] = effective[i]
        /\ effective'[N + 1] = k
    BY <1>1, AppendProperties
  <1>3. \A i \in 1..(N + 1) : i \in 1..N \/ i = N + 1
    BY <1>2
  <1>4. 1..N \subseteq 1..(N + 1) /\ N + 1 \in 1..(N + 1)
    BY <1>2
  <1> HIDE DEF N
  <1>5. Left' = {effective'[i] : i \in 1..(N + 1)} /\ Left = {effective[i] : i \in 1..N}
    BY <1>2 DEF Left
  <1>6. Left' = Left \cup {k}
    BY <1>2, <1>3, <1>4, <1>5
  <1> QED BY <1>2, <1>5, <1>6 DEF N

\* No receipt of a day is lost by the pairing of reversals (calculator.go
\* effectiveRepayments).
LEMMA KeptStep == CInv /\ KeptInv /\ [Next]_vars => KeptInv'
  <1> SUFFICES ASSUME CInv, KeptInv, [Next]_vars PROVE KeptInv'
    OBVIOUS
  <1>0. TypeOK /\ input' = input /\ ScanInv
    BY InputIsFixed DEF CInv
  <1>1. /\ \A k, m : Before(k, m)' <=> Before(k, m)
        /\ Window' = Window
        /\ \A x : NetReceipts(x)' = NetReceipts(x)
        /\ \A x : Receipts(Left \cup pending, x)' = Receipts(Left' \cup pending', x)
    BY <1>0, InputTerms, ReceiptsFixed
  <1>d. input.cutoff \in Nat /\ input.asOf \in Nat /\ pending \subseteq DOMAIN input.repayments
    BY <1>0 DEF TypeOK, CalculationInputs, Dates
  <1> DEFINE days == (input.cutoff + 1)..input.asOf
  <1>2. CASE phase' \in {"failed", "done"}
    BY <1>2 DEF KeptInv
  <1>3. CASE Validate \/ BuildRow \/ ScheduleBuilt
    <2>1. /\ phase \in {"validate", "schedule", "timeline"} /\ effective' = effective
          /\ phase' \in {"schedule", "timeline", "failed", "done"}
      BY <1>3 DEF Validate, BuildRow, ScheduleBuilt, FinishCalculation, FailWith, rowVars
    <2> QED BY <2>1 DEF KeptInv
  <1>4. CASE ValidateTimeline
    <2>1. CASE phase' = "failed"
      BY <1>2, <2>1
    <2>2. CASE phase' = "repayments" /\ pending' = Window
      <3>1. effective' = <<>> /\ Left' = {}
        BY <1>4 DEF ValidateTimeline, KeptInv, Left
      <3>2. Left' \cup pending' = Window /\ DOMAIN effective' = {}
        BY <2>2, <3>1
      <3>3. \A x \in days : NetReceipts(x) = Receipts(Window, x)
        BY <1>0, ReceiptsOfWindow
      <3> QED BY <1>0, <1>1, <2>2, <3>1, <3>2, <3>3 DEF KeptInv
    <2> QED BY <1>4, <2>1, <2>2 DEF ValidateTimeline, FailWith, Window, Row
  <1>5. ASSUME NEW k \in pending, ScanRepayment(k) PROVE KeptInv'
    <2>1. /\ phase = "repayments" /\ IsFirst(k, pending) /\ pending \subseteq Window
          /\ \A o \in Window \ pending : \A m \in pending : Before(o, m)
          /\ Left \subseteq Window \ pending
          /\ \A i, j \in DOMAIN effective : i < j => Before(effective[i], effective[j])
          /\ \A x \in days : NetReceipts(x) = Receipts(Left \cup pending, x)
      BY <1>0, <1>5 DEF ScanRepayment, ScanInv, KeptInv
    <2>2. k \in DOMAIN input.repayments /\ Row(k).total \in Int /\ Amount(k) \in Int
      BY <1>0, <1>d, RowTypes DEF Repayments
    <2>3. \A x : Receipts(Left \cup pending, x) \in Int
      BY <1>0, ReceiptsType
    <2>4. ASSUME phase' = phase, pending' \subseteq pending, effective' = effective,
                 \A x \in days : Receipts(Left \cup pending', x) = Receipts(Left \cup pending, x)
          PROVE  KeptInv'
      <3>1. Left' = Left
        BY <2>4 DEF Left
      <3>2. \A x \in days : NetReceipts(x) = Receipts(Left' \cup pending', x)
        BY <2>1, <2>4, <3>1
      <3> QED BY <1>0, <1>1, <2>1, <2>4, <3>1, <3>2 DEF KeptInv
    <2>5. CASE RejectRow(k)
      BY <1>2, <2>5 DEF RejectRow, FailWith
    <2>6. CASE /\ Row(k).total = 0 /\ Row(k).principal = 0 /\ Row(k).interest = 0
               /\ pending' = pending \ {k} /\ phase' = phase /\ effective' = effective
      <3>1. Amount(k) = 0 /\ Left \cup pending' = (Left \cup pending) \ {k} /\ k \in Left \cup pending
        BY <1>5, <2>1, <2>6 DEF Amount
      <3>2. \A x : Receipts(Left \cup pending', x) = Receipts(Left \cup pending, x)
        <4> DEFINE A == Left \cup pending
        <4>1. SUFFICES ASSUME NEW x PROVE Receipts(A \ {k}, x) = Receipts(A, x)
          BY <3>1
        <4>2. Receipts(A, x) \in Int /\ k \in A
          BY <2>3, <3>1
        <4> HIDE DEF A
        <4>3. Receipts(A \ {k}, x) = Receipts(A, x) - (IF Row(k).date = x THEN Amount(k) ELSE 0)
          BY <1>0, <2>2, <4>2, ReceiptsWithout
        <4> QED BY <3>1, <4>2, <4>3
      <3> QED BY <2>4, <2>6, <3>2
    <2>7. ASSUME Accepted(k), NEW m \in pending \ {k}, ReversalCandidate(k, m),
                 pending' = pending \ ({k} \cup {o \in pending \ {k} : ReversalCandidate(k, o)}),
                 phase' = phase, effective' = effective
          PROVE  KeptInv'
      <3>1. m \in DOMAIN input.repayments /\ Row(m).date = Row(k).date /\ ExactInverse(k, m)
        BY <1>d, <2>7 DEF Accepted
      <3>2. Amount(m) \in Int /\ Row(m).principal \in Int /\ Row(m).interest \in Int
            /\ Row(k).principal \in Int /\ Row(k).interest \in Int
        BY <1>0, <2>2, <3>1, RowTypes DEF Repayments
      <3>3. Amount(m) = 0 - Amount(k)
        BY <3>1, <3>2 DEF ExactInverse, Amount
      <3>4. ASSUME NEW o \in pending \ {k}, ReversalCandidate(k, o) PROVE o = m
        <4>1. SUFFICES ASSUME o # m PROVE FALSE
          OBVIOUS
        <4>2. Before(o, m) /\ Before(m, o)
          BY <2>7, <3>4, <4>1 DEF ReversalCandidate, IsFirst
        <4>3. /\ Row(o).date \in Nat /\ Row(m).date \in Nat /\ Row(o).order \in Int /\ Row(m).order \in Int
              /\ o \in Int /\ m \in Int
          <5>1. DOMAIN input.repayments \subseteq Int /\ o \in DOMAIN input.repayments
            BY <1>0, <1>d, <3>4 DEF TypeOK, CalculationInputs
          <5> QED BY <1>0, <3>1, <5>1, RowTypes DEF Repayments, Dates
        <4> QED BY <4>2, <4>3 DEF Before
      <3>5. {o \in pending \ {k} : ReversalCandidate(k, o)} = {m}
        BY <2>7, <3>4
      <3> DEFINE A == Left \cup pending
                 B == A \ {k}
      <3>6. Left \cup pending' = B \ {m} /\ k \in A /\ m \in B
        BY <1>5, <2>1, <2>7, <3>5
      <3>7. ASSUME NEW x PROVE Receipts(B \ {m}, x) = Receipts(A, x)
        <4>1. Receipts(B, x) = Receipts(A, x) - (IF Row(k).date = x THEN Amount(k) ELSE 0)
          BY <1>0, <2>2, <3>6, ReceiptsWithout
        <4> HIDE DEF B
        <4>2. Receipts(B \ {m}, x) = Receipts(B, x) - (IF Row(m).date = x THEN Amount(m) ELSE 0)
          BY <1>0, <3>1, <3>6, ReceiptsWithout
        <4>3. Receipts(A, x) \in Int /\ Receipts(B, x) \in Int
          BY <1>0, ReceiptsType
        <4> QED BY <2>2, <3>1, <3>2, <3>3, <4>1, <4>2, <4>3
      <3>8. \A x \in days : Receipts(Left \cup pending', x) = Receipts(Left \cup pending, x)
        BY <3>6, <3>7
      <3>9. pending' \subseteq pending
        BY <2>7
      <3> QED BY <2>4, <2>7, <3>8, <3>9
    <2>8. CASE pending' = pending \ {k} /\ effective' = Append(effective, k) /\ phase' = phase
      <3> DEFINE N == Len(effective)
      <3>1. /\ Left' = Left \cup {k} /\ DOMAIN effective' = 1..(N + 1) /\ DOMAIN effective = 1..N /\ N \in Nat
            /\ \A i \in 1..N : effective'[i] = effective[i] /\ effective[i] \in Left
            /\ effective'[N + 1] = k
        BY <1>0, <2>2, <2>8, LeftAppend
      <3>2. Left' \cup pending' = Left \cup pending /\ Left' \subseteq Window \ pending'
        BY <1>5, <2>1, <2>8, <3>1
      <3>3. \A i \in 1..N : Before(effective[i], k)
        BY <1>5, <2>1, <3>1
      <3> HIDE DEF N
      <3>4. ASSUME NEW i \in 1..(N + 1), NEW j \in 1..(N + 1), i < j PROVE Before(effective'[i], effective'[j])
        <4>1. i \in 1..N /\ (j \in 1..N \/ j = N + 1)
          BY <3>1, <3>4
        <4> QED BY <2>1, <3>1, <3>3, <3>4, <4>1
      <3>5. \A x \in days : NetReceipts(x) = Receipts(Left' \cup pending', x)
        BY <2>1, <3>2
      <3>6. \A i, j \in DOMAIN effective' : i < j => Before(effective[i], effective[j])'
        <4>1. SUFFICES ASSUME NEW i \in DOMAIN effective', NEW j \in DOMAIN effective', i < j
                       PROVE  Before(effective[i], effective[j])'
          OBVIOUS
        <4>2. Before(effective'[i], effective'[j])
          BY <3>1, <3>4, <4>1
        <4>3. Before(effective[i], effective[j])' <=> Before(effective'[i], effective'[j])
          BY <1>0 DEF Before, Row
        <4> QED BY <4>2, <4>3
      <3> QED BY <1>0, <1>1, <2>1, <2>8, <3>2, <3>5, <3>6 DEF KeptInv
    <2>9. CASE Accepted(k) /\ Take(k)
      <3>1. CASE phase' = "failed"
        BY <1>2, <3>1
      <3>2. CASE /\ {o \in pending \ {k} : ReversalCandidate(k, o)} # {}
                 /\ pending' = pending \ ({k} \cup {o \in pending \ {k} : ReversalCandidate(k, o)})
                 /\ phase' = phase /\ effective' = effective
        BY <2>7, <2>9, <3>2
      <3> QED BY <2>8, <2>9, <3>1, <3>2 DEF Take, FailWith
    <2> QED BY <1>5, <2>5, <2>6, <2>9 DEF ScanRepayment
  <1>6. ASSUME effective' = effective, pending' = pending,
               phase' = phase \/ (phase = "repayments" /\ phase' = "skip") \/ (phase = "skip" /\ phase' = "apply")
        PROVE  KeptInv'
    <2>1. Left' = Left
      BY <1>6 DEF Left
    <2>2. \A i, j : Before(effective[i], effective[j])' <=> Before(effective[i], effective[j])
      BY <1>0, <1>6 DEF Before, Row
    <2>3. \A x : Receipts(Left \cup pending, x)' = Receipts(Left \cup pending, x)
      BY <1>1, <1>6, <2>1
    <2> QED BY <1>0, <1>1, <1>6, <2>1, <2>2, <2>3 DEF KeptInv
  <1>7. CASE RepaymentsScanned \/ SkipPastDue \/ AccrueDue
    BY <1>6, <1>7 DEF RepaymentsScanned, SkipPastDue, AccrueDue, rowVars
  <1>8. CASE ApplyRepayment
    <2> DEFINE N == Len(effective)
    <2>1. /\ phase = "apply" /\ phase' = phase /\ effective # <<>> /\ pending' = pending /\ effective' = Tail(effective)
      BY <1>8 DEF ApplyRepayment
    <2>2. Left' = Left \ {Head(effective)} /\ Left \subseteq Window \ pending
      BY <1>0, <2>1, FirstRow DEF Left, KeptInv
    <2>3. /\ DOMAIN effective = 1..N /\ N \in Nat /\ DOMAIN effective' = 1..(N - 1)
          /\ \A i \in 1..(N - 1) : effective'[i] = effective[i + 1]
      BY <1>0, <2>1 DEF TypeOK
    <2> HIDE DEF N
    <2>4. ASSUME NEW i \in DOMAIN effective', NEW j \in DOMAIN effective', i < j
          PROVE  Before(effective[i], effective[j])'
      <3>1. i + 1 \in 1..N /\ j + 1 \in 1..N /\ i + 1 < j + 1
        BY <2>3, <2>4
      <3>2. Before(effective[i + 1], effective[j + 1])
        BY <2>1, <2>3, <3>1 DEF KeptInv
      <3>3. Before(effective'[i], effective'[j])
        BY <2>3, <3>2
      <3> QED BY <1>0, <3>3 DEF Before, Row
    <2> QED BY <1>1, <2>1, <2>2, <2>4 DEF KeptInv
  <1>9. CASE FinishLoop
    BY <1>2, <1>9 DEF FinishLoop, FinishCalculation, FailWith
  <1>10. CASE UNCHANGED vars
    BY <1>6, <1>10 DEF vars
  <1> QED BY <1>3, <1>4, <1>5, <1>7, <1>8, <1>9, <1>10 DEF Next, Returned

\* Whatever the ledger, the loop keeps to it (calculator.go Calculate).
LEMMA LoopStep ==
    ASSUME CInv, ContractInv, KeptInv, OpeningInv, [Next]_vars, NEW L, IsLedger(L), LoopInv(L)
    PROVE  LoopInv(L)'
  <1>0. TypeOK /\ input' = input
    BY InputIsFixed DEF CInv
  <1>1. \A d : Reached(L, d, nextDue, Left, state)' <=> Reached(L, d, nextDue', Left', state')
    BY <1>0, ReachedFixed
  <1>2. ASSUME NEW d \in input.cutoff..input.asOf, Reached(L, d, nextDue', Left', state'), phase' = "apply"
        PROVE  LoopInv(L)'
    BY <1>0, <1>1, <1>2 DEF LoopInv
  <1>3. CASE phase' \notin {"apply", "done"}
    BY <1>3 DEF LoopInv
  <1>4. CASE Validate
    <2>1. CASE phase' = "done"
      <3>1. input.asOf = input.cutoff /\ phase = "validate" /\ state' = state
        BY <1>4, <2>1 DEF Validate, FailWith, loopVars
      <3>2. state' = L[input.asOf]
        BY <3>1 DEF OpeningInv, IsLedger
      <3> QED BY <1>0, <2>1, <3>2 DEF LoopInv
    <2>2. phase' \in {"failed", "done", "schedule"}
      BY <1>4 DEF Validate, FailWith, FinishCalculation
    <2> QED BY <1>3, <2>1, <2>2
  <1>5. CASE BuildRow \/ ScheduleBuilt \/ ValidateTimeline \/ RepaymentsScanned
             \/ (\E k \in pending : ScanRepayment(k))
    <2>1. phase' \notin {"apply", "done"}
      BY <1>5 DEF BuildRow, ScheduleBuilt, ValidateTimeline, RepaymentsScanned, ScanRepayment, RejectRow,
                  Take, FailWith
    <2> QED BY <1>3, <2>1
  <1>6. CASE SkipPastDue
    <2>1. phase = "skip" /\ phase' \in {"skip", "apply"} /\ state' = state /\ effective' = effective
      BY <1>6 DEF SkipPastDue, rowVars
    <2>2. CASE phase' = "apply"
      <3>1. ~DueBy(input.cutoff) /\ nextDue' = nextDue
        BY <1>6, <2>1, <2>2 DEF SkipPastDue
      <3>2. Left' = Left
        BY <2>1 DEF Left
      <3>3. PICK d \in input.cutoff..input.asOf : Reached(L, d, nextDue, Left, state)
        BY <2>1, <3>1, SkipReaches
      <3> QED BY <1>2, <2>1, <2>2, <3>1, <3>2, <3>3
    <2> QED BY <1>3, <2>1, <2>2
  <1>7. CASE AccrueDue
    <2>1. phase = "apply" /\ phase' = "apply"
      BY <1>7 DEF AccrueDue
    <2>2. PICK d \in input.cutoff..input.asOf : Reached(L, d, nextDue, Left, state)
      BY <2>1 DEF LoopInv
    <2>3. PICK e \in input.cutoff..input.asOf : Reached(L, e, nextDue', Left', state')
      BY <1>7, <2>2, AccrueReaches
    <2> QED BY <1>2, <2>1, <2>3
  <1>8. CASE ApplyRepayment
    <2>1. phase = "apply" /\ phase' = "apply"
      BY <1>8 DEF ApplyRepayment
    <2>2. PICK d \in input.cutoff..input.asOf : Reached(L, d, nextDue, Left, state)
      BY <2>1 DEF LoopInv
    <2>3. PICK e \in input.cutoff..input.asOf : Reached(L, e, nextDue', Left', state')
      BY <1>8, <2>2, ApplyReaches
    <2> QED BY <1>2, <2>1, <2>3
  <1>9. CASE FinishLoop
    <2>1. phase = "apply" /\ phase' \in {"done", "failed"} /\ state' = state
      BY <1>9 DEF FinishLoop, FinishCalculation, FailWith, loopVars
    <2>2. PICK d \in input.cutoff..input.asOf : Reached(L, d, nextDue, Left, state)
      BY <2>1 DEF LoopInv
    <2>3. state = L[input.asOf]
      BY <1>9, <2>2, FinishReaches
    <2> QED BY <1>0, <2>1, <2>3 DEF LoopInv
  <1>10. CASE UNCHANGED vars
    <2>1. Left' = Left /\ UNCHANGED <<phase, nextDue, state, input>>
      BY <1>10 DEF vars, Left
    <2> QED BY <1>1, <2>1 DEF LoopInv
  <1> QED BY <1>4, <1>5, <1>6, <1>7, <1>8, <1>9, <1>10 DEF Next, Returned

\* A finished calculation has the balances of the daily ledger: accruing
\* lazily, allocating payment by payment, bucket by bucket, and pairing the
\* reversals comes to the same as closing every day (calculator.go Calculate,
\* accrueThrough, allocate, effectiveRepayments).
THEOREM MatchesTheDailyLedger == Spec => []MatchesDailyLedger
  <1> DEFINE LInv == ContractInv /\ KeptInv /\ OpeningInv /\ \A L : IsLedger(L) => LoopInv(L)
  <1>1. Init => LInv
    <2> SUFFICES ASSUME Init PROVE LInv
      OBVIOUS
    <2>1. ContractInv /\ KeptInv /\ OpeningInv
      BY DEF Init, ContractInv, KeptInv, OpeningInv, Opened, Working
    <2>2. \A L : LoopInv(L)
      BY DEF Init, LoopInv
    <2> QED BY <2>1, <2>2
  <1>2. CInv /\ LInv /\ [Next]_vars => LInv'
    <2> SUFFICES ASSUME CInv, LInv, [Next]_vars PROVE LInv'
      OBVIOUS
    <2>1. ContractInv' /\ KeptInv' /\ OpeningInv'
      BY ContractStep, KeptStep, OpeningStep
    <2>2. ASSUME NEW L, IsLedger(L)' PROVE LoopInv(L)'
      <3>1. IsLedger(L)
        BY <2>2, InputIsFixed, LedgerFixed
      <3> QED BY <3>1, LoopStep
    <2> QED BY <2>1, <2>2
  <1>3. CInv /\ LInv => MatchesDailyLedger
    <2> SUFFICES ASSUME CInv, LInv, phase = "done" PROVE state = DailyLedger[input.asOf]
      BY DEF MatchesDailyLedger
    <2>1. TypeOK /\ input.cutoff <= input.asOf
      BY DEF CInv, ContractInv, Working
    <2>2. LoopInv(DailyLedger)
      BY <2>1, DailyLedgerIs
    <2> QED BY <2>2 DEF LoopInv
  <1> HIDE DEF LInv
  <1> QED BY CalculationInvariance, <1>1, <1>2, <1>3, PTL DEF Spec
=============================================================================
