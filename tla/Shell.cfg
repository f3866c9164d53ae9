CONSTANTS
  MaxJobs = 2
  MaxStages = 3
  PipeSize = 1
  Input = 1
  Lines <- MCLines
SPECIFICATION FairSpec
INVARIANTS Wired PromptWaits
PROPERTIES PipelinesEnd ZombiesReaped
