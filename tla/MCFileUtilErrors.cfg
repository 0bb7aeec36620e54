SPECIFICATION Spec
CONSTANTS
    BufferSize = 2
    kBuffSize = 2
    MaxSize = 3
    Lengths = {1, 4}
    MaxBytes = 6
    MaxFailures = 2
INVARIANTS ReadErrorIsReturned
