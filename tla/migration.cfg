\* Starts on four databases, by two processes, cut off anywhere.
SPECIFICATION Spec

CONSTANTS
    Processes = {blue, green}
    NoProcess = NoProcess
    Databases <- MCDatabases
    PaymentIds = {1, 2}
    TestIds = {1}
    ReceiptIds = {1, 2}
    Keys = {"k"}
    NoKey = NoKey
    MaxStops = 2

CHECK_DEADLOCK FALSE

INVARIANTS
    MigrationInv

PROPERTIES
    StartsSucceed
