\* One topic, two messages, two subscribers, with any two failures of every kind
\* one invocation at a time can meet, refining Fanout with fairness. No membership
\* changes and no symmetry: liveness is checked.
SPECIFICATION FairSpec
CONSTANTS
    Topics = {t1}
    Msgs = {m1, m2}
    TopicOf <- OneTopic
    Subs = {1, 2}
    Runs = {r1}
    Concurrency = 2
    BatchSize = 2
    MaxAttempts = 2
    Faults = {"page", "claim", "unconfirmedClaim", "send", "unanswered", "release",
              "reap", "requeue", "unconfirmedRequeue", "kill", "expire"}
    MaxFaults = 2
    MaxLog = 3
    MaxChurn = 0
INVARIANTS TypeOK DuplicatesExplained LossExplained OrderUnlessRequeued
PROPERTIES ImplementsFanout
CHECK_DEADLOCK FALSE
