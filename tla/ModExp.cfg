SPECIFICATION FairSpec
CONSTANTS
  Radix = 16
  Bases <- SomeBases
  Exps <- SomeExps
  Mods <- SomeMods
  Fixeds <- SomeFixeds
CHECK_DEADLOCK FALSE
INVARIANTS IInv LadderUniform PowCount
PROPERTIES ModPowSpec CallAnswered
