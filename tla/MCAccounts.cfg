SPECIFICATION Spec
CONSTANTS
    Emails = {ana, bia}
    Subjects = {s1, s2}
    Requests = {r1, r2, r3}
    Reliable = FALSE
    None = None
SYMMETRY Symmetric
INVARIANTS TypeOK SignInsTruthful ConflictsTruthful SplitOnlyByOverlap
    AdmissionsTruthful SessionsLast
PROPERTY BookSpec
