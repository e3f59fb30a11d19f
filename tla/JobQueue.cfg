\* Two workers, one with --max-jobs; two deaths, so that a claim can go stale
\* twice; the host may be suspended at any moment.
SPECIFICATION FairSpec
CONSTANTS
  Workers = {w1, w2}
  Nobody = Nobody
  MaxJobs = 2
  MaxAge = 3
  Timeout = 2
  Slack = 1
  MaxDeaths = 2
  Limit <- OneLeaves
INVARIANTS HolderOwnsRow
PROPERTIES ImplementsQueue EveryJobFinishes
