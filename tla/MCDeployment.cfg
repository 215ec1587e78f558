SPECIFICATION Spec
CHECK_DEADLOCK FALSE
CONSTANTS
    Script <- MCScript
    Items = {"laptop"}
    Processes = {"api", "worker"}
    DbModules = 2
    Tasks = {t1}
    MaxFailures = 1
INVARIANT
    ScriptsDoWhatTheyReport
PROPERTIES
    PendingGetsOut
    SignalledWorkerExits
