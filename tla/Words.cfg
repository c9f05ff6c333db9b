SPECIFICATION AllSpec
CONSTANTS
    FieldValues <- MCFieldValues
    MaxFields = 2
    Descriptors <- MCDescriptors
    RegOffsets <- MCRegOffsets
    WordValues <- MCWordValues
    DmaAddrs <- MCDmaAddrs
    Counts <- MCCounts
    MaxPackets = 3
    Base = 2
    Size = 9
    Offsets = {0, 1, 4, 5, 6}
    Datas <- MCDatas
    Sizes = {0, 3, 5, 8}
    Values = {9, 150, 300}
    Preloaded <- MCPreloaded
INVARIANTS
    WordsTypeOK
    HeaderIsItsFields
    DescriptorArrives
    PacketsReadBack
    IdleMeansPortsAndSyncRest
    WriteTouchesOnlyItsWords
    RoundTrip
CHECK_DEADLOCK FALSE
