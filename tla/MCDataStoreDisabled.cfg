SPECIFICATION Spec
CONSTANTS
    Names = {"power", "events"}
    MbBytes = 1
    RecordBytes = 2
    DayMs = 1
    Storages = {5, 7}
    RecordCaps = {1, 3}
    CollectionCaps = {1, 2}
    Offered <- MCOffered
    Retentions = {0, 1}
    Points = {1, 2}
    MaxRecords = 3
    Given = {0}
    MaxTime = 2
PROPERTIES
    DisabledStoreIsPreserved
