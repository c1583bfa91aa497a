SPECIFICATION Spec
CONSTANTS
    Emails = {ana}
    Subjects = {s1}
    Requests = {r1, r2}
    Reliable = TRUE
    None = None
INVARIANT LogoutEndsSession
