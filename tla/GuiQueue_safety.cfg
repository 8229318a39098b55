SPECIFICATION FairSpec
CONSTANTS
  MaxSubmits = 2
  MayPanic = TRUE
  MayEdit = TRUE
INVARIANTS
  TypeOK
  OneWorker
  JobInOnePlace
  QueueIsServed
PROPERTIES
  SubmissionIsAnswered
