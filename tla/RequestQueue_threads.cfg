SPECIFICATION FairSpec
CONSTANTS
    Producers = {p1, p2}
    Consumers = {loop}
    Values = {a, b, c}
    NULL = NULL
    REQUEST_QUEUE_CAP = 4
    PushPolicies = {"BLOCKING", "NONBLOCKING"}
    PopPolicies = {"BLOCKING", "NONBLOCKING"}
INVARIANTS SlotsMatchWindow
PROPERTIES RefinesFifo PushReturns
