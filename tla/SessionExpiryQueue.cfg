CONSTANTS
    Session = {s1, s2, s3}
    Timeout = {0, 2, 3}
    expiration_interval = 2
    MaxTime = 7
SPECIFICATION Spec
SYMMETRY Symmetry
INVARIANTS
    TypeOK
    BucketsMirror
    NeverExpiredEarly
    ExpiredWithinInterval
