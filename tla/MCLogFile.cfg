SPECIFICATION SpecWalk
CONSTANTS
    roll_size_ = 4
    flush_interval_ = 1
    check_every_n_ = 3
    kRollPerSeconds_ = 3
    LineLengths = {1, 3}
    MaxStepBack = 4
    MaxTime = 7
    LineLimit = 6
    BufferSize = 2
    kBuffSize = 2
    MaxSize = 3
    Lengths = {1, 4}
    MaxBytes = 9
    MaxFailures = 3
INVARIANTS FilesAreNew FewStrays OnlyFailuresLose ReaderSeesTheFile
PROPERTIES OversizeOnlyInOneSecond FlushedInTime
