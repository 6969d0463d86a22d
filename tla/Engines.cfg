\* Bills, assertions and programs from small sets, one message per behaviour.
SPECIFICATION Spec
CONSTANTS
  Malformed = Malformed
  Missing = Missing
  None = None
  Dynamic = Dynamic
  Precision = 3
  Cent = 10
  Names <- MCNames
  Receivers <- MCReceivers
  Elsewhere <- MCElsewhere
  CallNames = {"eval"}
  DangerousImports = {"subprocess"}
  Payloads <- MCPayloads
  Enabled = {"financial_transaction", "logic_assertion", "code_execution"}
INVARIANTS TypeOK VerifiedIsClose ExactWhenItFits KeyIdempotent
  ContradictionsExactly BindingsAreLeast HarmOnlyBorrowed
PROPERTIES EveryProgramDecided
\* A message that has its result is done with.
CHECK_DEADLOCK FALSE
