\* Two topics in one batch, and a retry that overlaps the invocation the poller
\* lost sight of, while a subscriber joins and leaves.
SPECIFICATION Spec
CONSTANTS
    Topics = {t1, t2}
    Msgs = {m1, m2}
    TopicOf <- OneTopicEach
    Subs = {1}
    Runs = {r1, r2}
    Concurrency = 2
    BatchSize = 2
    MaxAttempts = 2
    Faults = {"send", "kill", "abandon", "reap"}
    MaxFaults = 2
    MaxLog = 2
    MaxChurn = 1
SYMMETRY Symmetry
INVARIANTS DuplicatesExplained LossExplained 
CHECK_DEADLOCK FALSE
