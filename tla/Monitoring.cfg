SPECIFICATION MonitoringSpec
CONSTANTS
    Handlers = {h1, h2}
    Demos = {d1, d2}
    Consumer = Consumer
    Limit = 1
    EmitLimit = 2
    MaxRetries = 1
    MaxEvents = 2
    MaxCheckpoints = 1
    Requests = {r1, r2}
    TaskManagerIds = {tm1}
    MaxOutages = 2
    Clients = {c1, c2}
    JobIds = {j1, j2}
INVARIANTS ListsKeepNewest SessionIsOwn
PROPERTIES DemoEnds PageCatchesUp LeaversAreForgotten
CHECK_DEADLOCK FALSE
