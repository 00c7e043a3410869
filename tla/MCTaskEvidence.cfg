SPECIFICATION Spec
CONSTANTS
  Files = {a, b}
  Existing = {a}
  MaxRepairs = 1
  NoTest = NoTest
  MaxVersion = 3
  MaxTasks = 2
  MaxUnseen = 1
INVARIANTS
  CompletedIsVerified
  ChangesAreTracked
  RecordsAgree
  FailureIsAnnounced
