---------------------------- MODULE AccountBook ----------------------------
(***************************************************************************)
(* What sign-up and sign-in promise, without requests, transactions or     *)
(* failures: accounts that keep their secret and their Google link for     *)
(* good, and sessions that begin once, for an account, and end for good.   *)
(***************************************************************************)
CONSTANTS Emails, Subjects, Secrets, Tokens, None

VARIABLES
    accounts,   \* the emails that have an account
    secrets,    \* secrets[e]: the password of e's account, None without
    links,      \* links[s]: the account of Google user s, None without
    sessions,   \* sessions that can be used, token and user
    issued      \* tokens that ever had a session

Init ==
    /\ accounts = {}
    /\ secrets = [e \in Emails |-> None]
    /\ links = [s \in Subjects |-> None]
    /\ sessions = {}
    /\ issued = {}

SignUp(e, p) ==
    /\ e \notin accounts
    /\ accounts' = accounts \cup {e}
    /\ secrets' = [secrets EXCEPT ![e] = p]
    /\ UNCHANGED <<links, sessions, issued>>

\* A Google user keeps the account it was linked to first.
SignUpWithGoogle(s, e) ==
    /\ accounts' = accounts \cup {e}
    /\ links' = [links EXCEPT ![s] = IF @ = None THEN e ELSE @]
    /\ UNCHANGED <<secrets, sessions, issued>>

Issue(t, e) ==
    /\ t \notin issued
    /\ e \in accounts
    /\ sessions' = sessions \cup {[token |-> t, user |-> e]}
    /\ issued' = issued \cup {t}
    /\ UNCHANGED <<accounts, secrets, links>>

End(t) ==
    /\ sessions' = {s \in sessions : s.token # t}
    /\ UNCHANGED <<accounts, secrets, links, issued>>

Next ==
    \/ \E e \in Emails, p \in Secrets : SignUp(e, p)
    \/ \E s \in Subjects, e \in Emails : SignUpWithGoogle(s, e)
    \/ \E t \in Tokens, e \in Emails : Issue(t, e)
    \/ \E t \in Tokens : End(t)

Spec == Init /\ [][Next]_<<accounts, secrets, links, sessions, issued>>
=============================================================================
