\* Three threads that read and two that write, one of them does both.
SPECIFICATION Spec
CONSTANTS
    Readers = {r1, r2, b}
    Writers = {b, w1}
INVARIANTS Exclusive CountersExact NoLostWakeup
PROPERTIES WriteProgress ReadProgress
