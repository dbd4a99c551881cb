SPECIFICATION Spec
CONSTANTS
  Words = 3
  Ticks = {{}, {0}, {1, 3}}
  Defects <- SomeDefects
  MaxResets = 1
INVARIANTS NoFalseAlarm ResultExact AliasFound
PROPERTIES ContinuedTest
