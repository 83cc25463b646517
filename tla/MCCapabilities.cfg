CONSTANTS
  a1 = a1
  a2 = a2
  future = future
  Args = {a1, a2}
  FutureKinds = {future}
  NotAString = NotAString
  Entries <- MCEntries
  Decls <- MCDecls
  MaxEntries = 2

SPECIFICATION Spec

INVARIANT BootIsExact
INVARIANT TypedSurvivesFfi
