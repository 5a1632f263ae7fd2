CONSTANTS
    r1 = r1
    Requests <- OneRequest
    Replicas = 1
    HealthRecent = 1
    HealthTTL = 2
    Grace = 1
    MaxLeases = 1
    Rows <- PlainRow
SPECIFICATION Spec
PROPERTIES
    KeptWhileRunning
