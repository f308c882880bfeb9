SPECIFICATION LiveSpec
CONSTANTS
    Group = {1, 2}
    Record <- MCLiveRecord
    MaxTs = 2
    MaxFloor = 0
    Start <- MCStart
    NoHistory = {}
    MaxBytesPerScan = 1
    BufferBytes = 2
PROPERTIES
    EveryRecordReleased
