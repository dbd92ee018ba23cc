\* No failures at all: a topic of two pages and an invocation out of time.
SPECIFICATION Spec
CONSTANTS
    Topics = {t1}
    Msgs = {m1, m2}
    TopicOf <- OneTopic
    Subs = {1, 2}
    Runs = {r1}
    Concurrency = 2
    BatchSize = 2
    MaxAttempts = 1
    Faults = {}
    MaxFaults = 0
    MaxLog = 3
    MaxChurn = 0
INVARIANTS OrderPerTopic
CHECK_DEADLOCK FALSE
