\* One calculation per initial state.
CONSTANT Inputs <- MCInputs
SPECIFICATION Spec
INVARIANTS EndingIsValid MoneyConserved ScheduleAddsUp MatchesDailyLedger
