\* Every transaction of up to two commands, each with vector operands of
\* up to two arguments drawn from the gas coin, an input and a result.
CONSTANTS
  gas = gas
  input = input
  result = result
  Arguments <- MCArguments
  GasCoin = gas
  MaxArgs = 2
  MaxCommands = 2
SPECIFICATION Spec
INVARIANT
  ValidityMatchesReference
