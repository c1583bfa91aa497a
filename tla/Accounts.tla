------------------------------ MODULE Accounts ------------------------------
(***************************************************************************)
(* Accounts and sessions: Server.register, login, googleCallback with      *)
(* upsertGoogleUser and createSession, requireAuth in front of every other *)
(* handler, and logout.                                                    *)
(*                                                                         *)
(* An account is named by its email, which is unique and never changes; a  *)
(* password by the registration that brings it; a token, drawn at random,  *)
(* by the sign-in that draws it.                                           *)
(***************************************************************************)
EXTENDS Naturals

CONSTANTS
    Emails, Subjects,   \* Subjects: users of Google
    Requests,
    Reliable,           \* no call fails
    None

ASSUME NoneAssumption == None \notin Emails \cup Requests
ASSUME ReliableAssumption == Reliable \in BOOLEAN

VARIABLES
    kind,       \* kind[r]: "register", "login", "callback", or "guarded" for a
                \* request behind requireAuth, logout or other
    pc,         \* pc[r]: the call the handler makes next
    reply,      \* reply[r]: the answer, "none" also for errors but a conflict
    email,      \* email[r]: in the body, or as Google tells it
    given,      \* given[r]: the password of a login, None for a wrong one
    subject,    \* subject[r]: the Google user of a callback
    cookie, bearer, \* the tokens a guarded request carries
    who,        \* who[r]: the user the handler acts for
    accounts,   \* rows of users
    hash,       \* hash[e]: password_hash of e, None for NULL
    links,      \* rows of auth_identities: links[s] is the user of s
    linking,    \* the requests whose transaction inserts the row of its subject
    sessions,   \* rows of sessions, by token
    expired,    \* the tokens whose expires_at has passed
    before,     \* history, before[r]: callbacks over when r looked for its user
    gone        \* history, gone[r]: tokens without a session when r came in

body == <<kind, email, given, subject, cookie, bearer, gone>>
users == <<accounts, hash, links>>
vars == <<pc, reply, body, who, users, linking, sessions, expired, before>>

Over == {r \in Requests : kind[r] = "callback" /\ pc[r] \in {"session", "done"}}
Issued == {t \in Requests : kind[t] # "guarded" /\ reply[t] = "ok"}
Live == sessions \ expired
Token(r) == IF cookie[r] # None THEN cookie[r] ELSE bearer[r]

\* The row of e is inserted or locked by a transaction that is open.
Held(e) == \E r \in Requests : pc[r] \in {"link", "commit"} /\ email[r] = e

Goto(r, l) == pc' = [pc EXCEPT ![r] = l]
Answer(r, a) == Goto(r, "done") /\ reply' = [reply EXCEPT ![r] = a]
Error(r) == Goto(r, "done") /\ UNCHANGED reply

Init ==
    /\ pc = [r \in Requests |-> "idle"]
    /\ reply = [r \in Requests |-> "none"]
    /\ kind = [r \in Requests |-> "none"]
    /\ email = [r \in Requests |-> None]
    /\ given = [r \in Requests |-> None]
    /\ subject = [r \in Requests |-> None]
    /\ cookie = [r \in Requests |-> None]
    /\ bearer = [r \in Requests |-> None]
    /\ who = [r \in Requests |-> None]
    /\ accounts = {}
    /\ hash = [e \in Emails |-> None]
    /\ links = [s \in Subjects |-> None]
    /\ linking = {}
    /\ sessions = {}
    /\ expired = {}
    /\ before = [r \in Requests |-> {}]
    /\ gone = [r \in Requests |-> {}]

-----------------------------------------------------------------------------
(* Requests that come in; one the limiter or a check on the body refuses   *)
(* changes nothing and is left out.                                        *)

Received(r, k, step) ==
    /\ pc[r] = "idle"
    /\ Goto(r, step)
    /\ kind' = [kind EXCEPT ![r] = k]
    /\ UNCHANGED <<reply, who, users, linking, sessions, expired, before>>

ReceiveRegister(r) ==
    /\ Received(r, "register", "insert")
    /\ \E e \in Emails : email' = [email EXCEPT ![r] = e]
    /\ UNCHANGED <<given, subject, cookie, bearer, gone>>

\* A password is known by the registration that chose it.
ReceiveLogin(r) ==
    /\ Received(r, "login", "verify")
    /\ \E e \in Emails : email' = [email EXCEPT ![r] = e]
    /\ \E p \in {q \in Requests : kind[q] = "register"} \cup {None} :
          given' = [given EXCEPT ![r] = p]
    /\ UNCHANGED <<subject, cookie, bearer, gone>>

\* A Google user may change its email between two sign-ins.
fetchGoogleProfile(r) ==
    /\ \E e \in Emails : email' = [email EXCEPT ![r] = e]
    /\ \E s \in Subjects : subject' = [subject EXCEPT ![r] = s]

\* With the state and a code that is good, and a verified, allowed email.
ReceiveCallback(r) ==
    /\ Received(r, "callback", "lookup")
    /\ fetchGoogleProfile(r)
    /\ UNCHANGED <<given, cookie, bearer, gone>>

ReceiveGuarded(r) ==
    /\ Received(r, "guarded", "check")
    /\ \E t, b \in Issued \cup {None} :
          /\ <<t, b>> # <<None, None>>
          /\ cookie' = [cookie EXCEPT ![r] = t]
          /\ bearer' = [bearer EXCEPT ![r] = b]
    /\ gone' = [gone EXCEPT ![r] = Issued \ Live]
    /\ UNCHANGED <<email, given, subject>>

-----------------------------------------------------------------------------
(* register: one INSERT, which waits while an open transaction holds the   *)
(* email and is rejected when a committed row has it.                      *)

Registered(r) ==
    /\ pc[r] = "insert"
    /\ email[r] \notin accounts
    /\ ~ Held(email[r])
    /\ accounts' = accounts \cup {email[r]}
    /\ hash' = [hash EXCEPT ![email[r]] = r]
    /\ UNCHANGED <<body, links, linking, sessions, expired, before>>

CreatePasswordUser(r) ==
    /\ Registered(r)
    /\ who' = [who EXCEPT ![r] = email[r]]
    /\ Goto(r, "session")
    /\ UNCHANGED reply

CreateUnacknowledged(r) ==
    /\ ~ Reliable
    /\ Registered(r)
    /\ Error(r)
    /\ UNCHANGED who

RejectEagerly(r) == \* without waiting for the transaction that holds the email
    /\ pc[r] = "insert"
    /\ email[r] \in accounts \/ Held(email[r])
    /\ Answer(r, "conflict")
    /\ UNCHANGED <<body, who, users, linking, sessions, expired, before>>

RejectInsert(r) ==
    /\ pc[r] = "insert"
    /\ email[r] \in accounts
    /\ Answer(r, "conflict")
    /\ UNCHANGED <<body, who, users, linking, sessions, expired, before>>

-----------------------------------------------------------------------------
(* login.                                                                  *)

VerifyAnyHash(r) == \* any password, if the account has one
    /\ pc[r] = "verify"
    /\ hash[email[r]] # None
    /\ who' = [who EXCEPT ![r] = email[r]]
    /\ Goto(r, "session")
    /\ UNCHANGED <<reply, body, users, linking, sessions, expired, before>>

VerifyPassword(r) ==
    /\ pc[r] = "verify"
    /\ hash[email[r]] # None
    /\ hash[email[r]] = given[r]
    /\ who' = [who EXCEPT ![r] = email[r]]
    /\ Goto(r, "session")
    /\ UNCHANGED <<reply, body, users, linking, sessions, expired, before>>

\* No account, no password or another one; and a failed query too, because the
\* test for it comes after the one for an invalid hash.
RefuseLogin(r) ==
    /\ pc[r] = "verify"
    /\ hash[email[r]] = None \/ hash[email[r]] # given[r] \/ ~ Reliable
    /\ Error(r)
    /\ UNCHANGED <<body, who, users, linking, sessions, expired, before>>

-----------------------------------------------------------------------------
(* upsertGoogleUser: a transaction, whose rows are seen when it commits.   *)

FoundByEmail(r) == IF email[r] \in accounts THEN email[r] ELSE None \* by the wrong key

Found(r) == links[subject[r]]

GetGoogleUserBySubject(r) ==
    /\ pc[r] = "lookup"
    /\ before' = [before EXCEPT ![r] = Over]
    /\ who' = [who EXCEPT ![r] = Found(r)]
    /\ Goto(r, IF Found(r) = None THEN "upsert" ELSE "finish")
    /\ UNCHANGED <<reply, body, users, linking, sessions, expired>>

\* The commit of a transaction that only looked.
Finish(r) ==
    /\ pc[r] = "finish"
    /\ Goto(r, "session")
    /\ UNCHANGED <<reply, body, who, users, linking, sessions, expired, before>>

\* ON CONFLICT (email) DO UPDATE: the row is inserted, or locked until the end.
UpsertGoogleUserByEmail(r) ==
    /\ pc[r] = "upsert"
    /\ ~ Held(email[r])
    /\ who' = [who EXCEPT ![r] = email[r]]
    /\ Goto(r, "link")
    /\ UNCHANGED <<reply, body, users, linking, sessions, expired, before>>

LinkOverwriting(r) == \* DO UPDATE SET user_id
    /\ pc[r] = "link"
    /\ \A h \in Requests : pc[h] = "commit" /\ h \in linking => subject[h] # subject[r]
    /\ linking' = linking \cup {r}
    /\ Goto(r, "commit")
    /\ UNCHANGED <<reply, body, who, users, sessions, expired, before>>

\* ON CONFLICT DO NOTHING, once no other transaction holds the subject.
LinkGoogleIdentity(r) ==
    /\ pc[r] = "link"
    /\ \A h \in Requests : pc[h] = "commit" /\ h \in linking => subject[h] # subject[r]
    /\ linking' = IF links[subject[r]] = None THEN linking \cup {r} ELSE linking
    /\ Goto(r, "commit")
    /\ UNCHANGED <<reply, body, who, users, sessions, expired, before>>

CommittedNothing(r) == \* the session is made before the commit, which is lost
    /\ pc[r] = "commit"
    /\ UNCHANGED <<body, who, users, linking, sessions, expired, before>>

Committed(r) ==
    /\ pc[r] = "commit"
    /\ accounts' = accounts \cup {email[r]}
    /\ links' = IF r \in linking THEN [links EXCEPT ![subject[r]] = email[r]] ELSE links
    /\ UNCHANGED <<body, who, hash, linking, sessions, expired, before>>

Commit(r) == Committed(r) /\ Goto(r, "session") /\ UNCHANGED reply

CommitUnacknowledged(r) == ~ Reliable /\ Committed(r) /\ Error(r)

-----------------------------------------------------------------------------
(* createSession, and the answer with the token as cookie and in the body. *)

CreateSession(r) ==
    /\ pc[r] = "session"
    /\ sessions' = sessions \cup {r}
    /\ \/ Answer(r, "ok")
       \/ ~ Reliable /\ Error(r)   \* the answer of the database is lost
    /\ UNCHANGED <<body, who, users, linking, expired, before>>

\* expires_at passes.  The row stays.
Expire(r) ==
    /\ r \in Live
    /\ expired' = expired \cup {r}
    /\ UNCHANGED <<pc, reply, body, who, users, linking, sessions, before>>

-----------------------------------------------------------------------------
(* requireAuth and what follows it.                                        *)

AdmitExpired(r) == \* without expires_at > now()
    /\ pc[r] = "check"
    /\ Token(r) \in sessions
    /\ who' = [who EXCEPT ![r] = who[Token(r)]]
    /\ \/ Answer(r, "ok")
       \/ Goto(r, "delete") /\ UNCHANGED reply   \* logout
    /\ UNCHANGED <<body, users, linking, sessions, expired, before>>

Admit(r) ==
    /\ pc[r] = "check"
    /\ Token(r) \in Live
    /\ who' = [who EXCEPT ![r] = who[Token(r)]]
    /\ \/ Answer(r, "ok")
       \/ Goto(r, "delete") /\ UNCHANGED reply   \* logout
    /\ UNCHANGED <<body, users, linking, sessions, expired, before>>

TurnAway(r) ==
    /\ pc[r] = "check"
    /\ Token(r) \notin Live
    /\ Error(r)
    /\ UNCHANGED <<body, who, users, linking, sessions, expired, before>>

DeleteSessionsOfUser(r) == \* WHERE user_id in place of token_hash
    /\ pc[r] = "delete"
    /\ sessions' = IF cookie[r] = None THEN sessions
                   ELSE {t \in sessions : who[t] # who[r]}
    /\ Answer(r, "out")
    /\ UNCHANGED <<body, who, users, linking, expired, before>>

\* The session of the cookie is deleted, none for a bearer; an error is dropped.
DeleteSessionByTokenHash(r) ==
    /\ pc[r] = "delete"
    /\ \/ sessions' = sessions \ {cookie[r]}
       \/ ~ Reliable /\ UNCHANGED sessions
    /\ \/ Answer(r, "out")
       \/ ~ Reliable /\ Error(r)   \* the process stops
    /\ UNCHANGED <<body, who, users, linking, expired, before>>

-----------------------------------------------------------------------------
\* A call fails and the handler ends, its transaction rolled back.
Fail(r) ==
    /\ ~ Reliable
    /\ pc[r] \in {"insert", "lookup", "finish", "upsert", "link", "commit", "session",
                  "check"}
    /\ Error(r)
    /\ UNCHANGED <<body, who, users, linking, sessions, expired, before>>

Crash ==
    /\ ~ Reliable
    /\ \E r \in Requests : pc[r] \notin {"idle", "done"}
    /\ pc' = [r \in Requests |-> IF pc[r] = "idle" THEN "idle" ELSE "done"]
    /\ UNCHANGED <<reply, body, who, users, linking, sessions, expired, before>>

Served == (\A r \in Requests : pc[r] \in {"idle", "done"}) /\ UNCHANGED vars

Next ==
    \/ \E r \in Requests :
          \/ ReceiveRegister(r) \/ ReceiveLogin(r) \/ ReceiveCallback(r)
          \/ ReceiveGuarded(r)
          \/ CreatePasswordUser(r) \/ CreateUnacknowledged(r) \/ RejectInsert(r)
          \/ VerifyPassword(r) \/ RefuseLogin(r)
          \/ GetGoogleUserBySubject(r) \/ Finish(r) \/ UpsertGoogleUserByEmail(r)
          \/ LinkGoogleIdentity(r) \/ Commit(r) \/ CommitUnacknowledged(r)
          \/ CreateSession(r) \/ Expire(r)
          \/ Admit(r) \/ TurnAway(r) \/ DeleteSessionByTokenHash(r)
          \/ Fail(r)
    \/ Crash
    \/ Served

Spec == Init /\ [][Next]_vars

-----------------------------------------------------------------------------
(* Properties.                                                             *)

\* Type invariant, with the foreign keys of auth_identities and sessions.
TypeOK ==
    /\ kind \in [Requests -> {"none", "register", "login", "callback", "guarded"}]
    /\ pc \in [Requests -> {"idle", "insert", "verify", "lookup", "finish", "upsert",
                            "link", "commit", "session", "check", "delete", "done"}]
    /\ reply \in [Requests -> {"none", "ok", "out", "conflict"}]
    /\ email \in [Requests -> Emails \cup {None}]
    /\ given \in [Requests -> Requests \cup {None}]
    /\ subject \in [Requests -> Subjects \cup {None}]
    /\ cookie \in [Requests -> Requests \cup {None}]
    /\ bearer \in [Requests -> Requests \cup {None}]
    /\ who \in [Requests -> Emails \cup {None}]
    /\ accounts \subseteq Emails
    /\ hash \in [Emails -> Requests \cup {None}]
    /\ links \in [Subjects -> accounts \cup {None}]
    /\ linking \subseteq Requests
    /\ sessions \subseteq Requests /\ \A t \in sessions : who[t] \in accounts
    /\ expired \subseteq Requests
    /\ before \in [Requests -> SUBSET Requests]
    /\ gone \in [Requests -> SUBSET Requests]

\* Whoever a session lets in has shown to be its user: it registered the email
\* first, it knows the password the account was registered with, or Google says
\* that it has the email or is the user the account is linked to.
SignInsTruthful ==
    \A t \in sessions :
        \/ kind[t] = "register" /\ who[t] = email[t] /\ hash[who[t]] = t
        \/ kind[t] = "login" /\ who[t] = email[t]
              /\ hash[who[t]] = given[t] /\ given[t] # None
        \/ kind[t] = "callback" /\ who[t] \in {email[t], links[subject[t]]}

\* A registration is refused for a conflict only if the email has an account.
ConflictsTruthful ==
    \A r \in Requests : reply[r] = "conflict" => email[r] \in accounts

\* A Google user is always signed in as the account it is linked to, unless its
\* email changed and the sign-in that linked it overlapped.
SplitOnlyByOverlap ==
    \A r \in sessions : kind[r] = "callback" =>
        LET user == links[subject[r]] IN
        /\ user # None
        /\ \/ who[r] = user
           \/ \E h \in Requests :
                 /\ kind[h] = "callback" /\ subject[h] = subject[r]
                 /\ email[h] = user /\ email[r] # user
                 /\ h \notin before[r] /\ r \notin before[h]

\* A request is let in only as the user of the token it carries, cookie first,
\* and not if that had expired or been signed out before the request came in.
AdmissionsTruthful ==
    \A r \in Requests : kind[r] = "guarded" /\ who[r] # None =>
        /\ Token(r) \in Issued \ gone[r]
        /\ who[r] = who[Token(r)]

\* A session somebody knows of is taken away only by a logout that was let in
\* with it as its cookie.
SessionsLast ==
    \A t \in Issued \ sessions :
        \E r \in Requests :
            /\ kind[r] = "guarded" /\ pc[r] = "done" /\ reply[r] # "ok"
            /\ cookie[r] = t /\ who[r] = who[t]

\* A logout that is answered 204 has ended the session it was let in with
\* (docs/openapi.yaml).  Nothing is deleted for a bearer token.
LogoutEndsSession ==
    \A r \in Requests : reply[r] = "out" => Token(r) \notin sessions

\* The code implements AccountBook.
Book == INSTANCE AccountBook WITH
    Secrets <- Requests,
    Tokens <- Requests,
    secrets <- hash,
    sessions <- {[token |-> t, user |-> who[t]] : t \in sessions},
    issued <- sessions \cup Issued
BookSpec == Book!Spec
=============================================================================
