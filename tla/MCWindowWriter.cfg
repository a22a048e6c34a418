CONSTANTS
  t1 = t1
  t2 = t2
  Trials <- TwoTrials
  Capacity = 2
  MaxJobs = 4
  Faults <- AllButStat
SPECIFICATION FairSpec
INVARIANTS PublishedComplete ResultsTruthful
PROPERTIES ImplementsTrialStore EveryJobAnswered WorkerExits
