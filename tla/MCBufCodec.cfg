\* A byte has two values, so that u32 has 16 and u64 has 256.  The values put
\* include zero, the largest, and values whose bytes differ from end to end.
CONSTANTS
    Base = 2
    Capacity = 21
    Values32 = {0, 1, 6, 15}
    Values64 = {1, 128, 255}
    Slices <- MCSlices
    MaxFields = 3
SPECIFICATION Spec
INVARIANT TypeOK
INVARIANT RoundTrip
INVARIANT PointersAgree
\* A full buffer that was read to its end is left alone.
CHECK_DEADLOCK FALSE
