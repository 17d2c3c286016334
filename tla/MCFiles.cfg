\* Names, open files, file contents and ports, one at a time.
SPECIFICATION Spec
CONSTANTS
    s1 = s1
    s2 = s2
    s3 = s3
    Nil = Nil
    Off = Off
SYMMETRY Symmetry
INVARIANTS
    LookupCorrect
    OpenFilesCounted
    PortsExact
PROPERTY ImplementsByteFile
\* A kernel that has used freed memory is not followed further, and without
\* tasks there is nothing left to do.
CHECK_DEADLOCK FALSE
