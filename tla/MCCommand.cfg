\* Up to four words of twelve.
SPECIFICATION Spec
CONSTANTS
  Nil = Nil
  DefaultNS = "default"
  MaxWords = 4
  Dashed <- MCDashed
  CommandLines <- MCLines
INVARIANTS
  ReadAsWritten
  ExitCodeAsDocumented
PROPERTIES
  Exits
