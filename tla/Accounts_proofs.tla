-------------------------- MODULE Accounts_proofs --------------------------
(***************************************************************************)
(* Theorems about Accounts, for any emails, Google users and requests.     *)
(***************************************************************************)
EXTENDS Accounts, TLAPS

SignInKinds == {"register", "login", "callback"}

\* The steps of each kind of request, and what it knows there.
FlowInv ==
    \A r \in Requests :
        /\ pc[r] = "idle" <=> kind[r] = "none"
        /\ pc[r] = "insert" => kind[r] = "register"
        /\ pc[r] = "verify" => kind[r] = "login"
        /\ pc[r] \in {"lookup", "finish", "upsert", "link", "commit"} => kind[r] = "callback"
        /\ pc[r] = "session" => kind[r] \in SignInKinds
        /\ pc[r] \in {"check", "delete"} => kind[r] = "guarded"
        /\ kind[r] \in SignInKinds => email[r] \in Emails
        /\ kind[r] = "callback" => subject[r] \in Subjects
        /\ reply[r] # "none" => pc[r] = "done"
        /\ pc[r] \in {"idle", "insert", "verify", "lookup", "upsert", "check"} =>
              who[r] = None

\* A request that is, or was, about to get a session has shown who it is.
SignedIn(t) == pc[t] = "session" \/ t \in sessions

Shown(t) ==
    \/ kind[t] = "register" /\ who[t] = email[t] /\ hash[who[t]] = t
    \/ kind[t] = "login" /\ who[t] = email[t]
          /\ hash[who[t]] = given[t] /\ given[t] # None
    \/ kind[t] = "callback" /\ who[t] \in {email[t], links[subject[t]]}

SignInInv ==
    /\ \A t \in sessions : pc[t] = "done" /\ kind[t] \in SignInKinds
    /\ \A t \in Requests : SignedIn(t) => who[t] \in accounts /\ Shown(t)
    /\ \A r \in Requests :
          /\ pc[r] = "finish" => who[r] = links[subject[r]] /\ who[r] # None
          /\ pc[r] \in {"link", "commit"} => who[r] = email[r]
    /\ \A e \in Emails : hash[e] # None => e \in accounts

\* One open transaction links a Google user, one without a link; the others
\* find the link.
LinkInv ==
    /\ \A r \in Requests :
          /\ r \in linking => pc[r] \in {"commit", "session", "done"}
          /\ pc[r] = "commit" => (r \in linking <=> links[subject[r]] = None)
          /\ kind[r] = "callback" /\ SignedIn(r) => links[subject[r]] # None
    /\ \A r, h \in Requests :
          r # h /\ pc[r] = "commit" /\ pc[h] = "commit" /\ r \in linking /\ h \in linking =>
             subject[r] # subject[h]

\* The request whose transaction linked r's Google user overlapped with r's.
Overlapped(r) ==
    \E h \in Requests :
        /\ h \in Over /\ subject[h] = subject[r]
        /\ email[h] = links[subject[r]]
        /\ h \notin before[r] /\ r \notin before[h]

\* Who did not find a link that is there now overlapped with its making.
OverlapInv ==
    \A r \in Requests :
        /\ before[r] \subseteq Over
        /\ kind[r] = "callback" /\ links[subject[r]] # None =>
              /\ pc[r] \in {"upsert", "link", "commit"} => Overlapped(r)
              /\ SignedIn(r) => \/ who[r] = links[subject[r]]
                                \/ who[r] = email[r] /\ Overlapped(r)

\* A guarded request carries tokens that were issued; what was over when it came
\* in stays over.
GuardInv ==
    \A r \in Requests :
        /\ gone[r] \subseteq Issued \ Live
        /\ kind[r] = "guarded" => {cookie[r], bearer[r]} \subseteq Issued \cup {None}
        /\ kind[r] = "guarded" => Token(r) # None
        /\ pc[r] = "delete" => who[r] # None

IInv ==
    /\ TypeOK
    /\ FlowInv
    /\ SignInInv
    /\ LinkInv
    /\ OverlapInv
    /\ GuardInv
    /\ ConflictsTruthful
    /\ AdmissionsTruthful
    /\ SessionsLast

-----------------------------------------------------------------------------
(* The invariant is inductive.                                             *)


\* No step leaves the types, or refers to a user that is not there.
LEMMA TypeOKNext ==
    TypeOK /\ FlowInv /\ SignInInv /\ [Next]_vars => TypeOK'
<1> SUFFICES ASSUME TypeOK, FlowInv, SignInInv, [Next]_vars
             PROVE  TypeOK'
    OBVIOUS
<1> USE NoneAssumption DEF TypeOK, FlowInv, SignInKinds, Goto, SignInInv, SignedIn,
        Shown, Live, Issued, Token
<1>1. ASSUME NEW r \in Requests, ReceiveRegister(r)
      PROVE  TypeOK'
    BY <1>1 DEF ReceiveRegister, Received, body, users
<1>2. ASSUME NEW r \in Requests, ReceiveLogin(r)
      PROVE  TypeOK'
    BY <1>2 DEF ReceiveLogin, Received, body, users
<1>3. ASSUME NEW r \in Requests, ReceiveCallback(r)
      PROVE  TypeOK'
    BY <1>3 DEF ReceiveCallback, Received, fetchGoogleProfile, body, users
<1>4. ASSUME NEW r \in Requests, ReceiveGuarded(r)
      PROVE  TypeOK'
    BY <1>4 DEF ReceiveGuarded, Received, body, users
<1>5. ASSUME NEW r \in Requests, CreatePasswordUser(r)
      PROVE  TypeOK'
    BY <1>5 DEF CreatePasswordUser, Registered, body, users
<1>6. ASSUME NEW r \in Requests, CreateUnacknowledged(r)
      PROVE  TypeOK'
    BY <1>6 DEF CreateUnacknowledged, Registered, Error, body, users
<1>7. ASSUME NEW r \in Requests, RejectInsert(r)
      PROVE  TypeOK'
    BY <1>7 DEF RejectInsert, Answer, body, users
<1>8. ASSUME NEW r \in Requests, VerifyPassword(r)
      PROVE  TypeOK'
    BY <1>8 DEF VerifyPassword, body, users
<1>9. ASSUME NEW r \in Requests, RefuseLogin(r)
      PROVE  TypeOK'
    BY <1>9 DEF RefuseLogin, Error, body, users
<1>10. ASSUME NEW r \in Requests, GetGoogleUserBySubject(r)
      PROVE  TypeOK'
    <2>1. UNCHANGED <<reply, body, users, linking, sessions, expired>>
        BY <1>10 DEF GetGoogleUserBySubject
    <2>2. /\ pc' = [pc EXCEPT ![r] = IF Found(r) = None THEN "upsert" ELSE "finish"]
          /\ pc[r] = "lookup"
        BY <1>10 DEF GetGoogleUserBySubject
    <2>3. before' = [before EXCEPT ![r] = Over] /\ Over \subseteq Requests
        BY <1>10 DEF GetGoogleUserBySubject, Over
    <2>4. who' = [who EXCEPT ![r] = Found(r)] /\ Found(r) \in Emails \cup {None}
        BY <1>10 DEF GetGoogleUserBySubject, Found
    <2>5. \A t \in sessions : who'[t] = who[t]
        BY <2>2, <2>4
    <2>6. QED
        BY <2>1, <2>2, <2>3, <2>4, <2>5 DEF body, users
<1>11. ASSUME NEW r \in Requests, Finish(r)
      PROVE  TypeOK'
    BY <1>11 DEF Finish, body, users
<1>12. ASSUME NEW r \in Requests, UpsertGoogleUserByEmail(r)
      PROVE  TypeOK'
    BY <1>12 DEF UpsertGoogleUserByEmail, body, users
<1>13. ASSUME NEW r \in Requests, LinkGoogleIdentity(r)
      PROVE  TypeOK'
    BY <1>13 DEF LinkGoogleIdentity, body, users
<1>14. ASSUME NEW r \in Requests, Commit(r)
      PROVE  TypeOK'
    BY <1>14 DEF Commit, Committed, body, users
<1>15. ASSUME NEW r \in Requests, CommitUnacknowledged(r)
      PROVE  TypeOK'
    BY <1>15 DEF CommitUnacknowledged, Committed, Error, body, users
<1>16. ASSUME NEW r \in Requests, CreateSession(r)
      PROVE  TypeOK'
    BY <1>16 DEF CreateSession, Answer, Error, body, users
<1>17. ASSUME NEW r \in Requests, Expire(r)
      PROVE  TypeOK'
    BY <1>17 DEF Expire, body, users
<1>18. ASSUME NEW r \in Requests, Admit(r)
      PROVE  TypeOK'
    BY <1>18 DEF Admit, Answer, body, users
<1>19. ASSUME NEW r \in Requests, TurnAway(r)
      PROVE  TypeOK'
    BY <1>19 DEF TurnAway, Error, body, users
<1>20. ASSUME NEW r \in Requests, DeleteSessionByTokenHash(r)
      PROVE  TypeOK'
    BY <1>20 DEF DeleteSessionByTokenHash, Answer, Error, body, users
<1>21. ASSUME NEW r \in Requests, Fail(r)
      PROVE  TypeOK'
    BY <1>21 DEF Fail, Error, body, users
<1>22. CASE Crash
    BY <1>22 DEF Crash, body, users
<1>23. CASE UNCHANGED vars
    BY <1>23 DEF vars, body, users
<1> HIDE DEF TypeOK, FlowInv, SignInKinds, Goto, SignInInv, SignedIn, Shown, Live,
        Issued, Token
<1>24. QED
    BY <1>1, <1>2, <1>3, <1>4, <1>5, <1>6, <1>7, <1>8, <1>9, <1>10, <1>11, <1>12,
       <1>13, <1>14, <1>15, <1>16, <1>17, <1>18, <1>19, <1>20, <1>21, <1>22, <1>23
    DEF Next, Served

\* Requests go through the steps of their kind.
LEMMA FlowInvNext ==
    TypeOK /\ FlowInv /\ SignInInv /\ [Next]_vars => FlowInv'
<1> SUFFICES ASSUME TypeOK, FlowInv, SignInInv, [Next]_vars
             PROVE  FlowInv'
    OBVIOUS
<1> USE NoneAssumption DEF TypeOK, FlowInv, SignInKinds, Goto, SignInInv, Live
<1>1. ASSUME NEW r \in Requests, ReceiveRegister(r)
      PROVE  FlowInv'
    BY <1>1 DEF ReceiveRegister, Received, body, users
<1>2. ASSUME NEW r \in Requests, ReceiveLogin(r)
      PROVE  FlowInv'
    BY <1>2 DEF ReceiveLogin, Received, body, users
<1>3. ASSUME NEW r \in Requests, ReceiveCallback(r)
      PROVE  FlowInv'
    BY <1>3 DEF ReceiveCallback, Received, fetchGoogleProfile, body, users
<1>4. ASSUME NEW r \in Requests, ReceiveGuarded(r)
      PROVE  FlowInv'
    BY <1>4 DEF ReceiveGuarded, Received, body, users
<1>5. ASSUME NEW r \in Requests, CreatePasswordUser(r)
      PROVE  FlowInv'
    BY <1>5 DEF CreatePasswordUser, Registered, body, users
<1>6. ASSUME NEW r \in Requests, CreateUnacknowledged(r)
      PROVE  FlowInv'
    BY <1>6 DEF CreateUnacknowledged, Registered, Error, body, users
<1>7. ASSUME NEW r \in Requests, RejectInsert(r)
      PROVE  FlowInv'
    BY <1>7 DEF RejectInsert, Answer, body, users
<1>8. ASSUME NEW r \in Requests, VerifyPassword(r)
      PROVE  FlowInv'
    BY <1>8 DEF VerifyPassword, body, users
<1>9. ASSUME NEW r \in Requests, RefuseLogin(r)
      PROVE  FlowInv'
    BY <1>9 DEF RefuseLogin, Error, body, users
<1>10. ASSUME NEW r \in Requests, GetGoogleUserBySubject(r)
      PROVE  FlowInv'
    BY <1>10 DEF GetGoogleUserBySubject, Found, body, users
<1>11. ASSUME NEW r \in Requests, Finish(r)
      PROVE  FlowInv'
    BY <1>11 DEF Finish, body, users
<1>12. ASSUME NEW r \in Requests, UpsertGoogleUserByEmail(r)
      PROVE  FlowInv'
    BY <1>12 DEF UpsertGoogleUserByEmail, body, users
<1>13. ASSUME NEW r \in Requests, LinkGoogleIdentity(r)
      PROVE  FlowInv'
    BY <1>13 DEF LinkGoogleIdentity, body, users
<1>14. ASSUME NEW r \in Requests, Commit(r)
      PROVE  FlowInv'
    BY <1>14 DEF Commit, Committed, body, users
<1>15. ASSUME NEW r \in Requests, CommitUnacknowledged(r)
      PROVE  FlowInv'
    BY <1>15 DEF CommitUnacknowledged, Committed, Error, body, users
<1>16. ASSUME NEW r \in Requests, CreateSession(r)
      PROVE  FlowInv'
    BY <1>16 DEF CreateSession, Answer, Error, body, users
<1>17. ASSUME NEW r \in Requests, Expire(r)
      PROVE  FlowInv'
    BY <1>17 DEF Expire, body, users
<1>18. ASSUME NEW r \in Requests, Admit(r)
      PROVE  FlowInv'
    BY <1>18 DEF Admit, Answer, body, users
<1>19. ASSUME NEW r \in Requests, TurnAway(r)
      PROVE  FlowInv'
    BY <1>19 DEF TurnAway, Error, body, users
<1>20. ASSUME NEW r \in Requests, DeleteSessionByTokenHash(r)
      PROVE  FlowInv'
    BY <1>20 DEF DeleteSessionByTokenHash, Answer, Error, body, users
<1>21. ASSUME NEW r \in Requests, Fail(r)
      PROVE  FlowInv'
    BY <1>21 DEF Fail, Error, body, users
<1>22. CASE Crash
    BY <1>22 DEF Crash, body, users
<1>23. CASE UNCHANGED vars
    BY <1>23 DEF vars, body, users
<1> HIDE DEF TypeOK, FlowInv, SignInKinds, Goto, SignInInv, Live
<1>24. QED
    BY <1>1, <1>2, <1>3, <1>4, <1>5, <1>6, <1>7, <1>8, <1>9, <1>10, <1>11, <1>12,
       <1>13, <1>14, <1>15, <1>16, <1>17, <1>18, <1>19, <1>20, <1>21, <1>22, <1>23
    DEF Next, Served

\* Sign-ins stay shown: passwords and links do not change.
LEMMA SignInInvNext ==
    TypeOK /\ FlowInv /\ SignInInv /\ LinkInv /\ [Next]_vars => SignInInv'
<1> SUFFICES ASSUME TypeOK, FlowInv, SignInInv, LinkInv, [Next]_vars
             PROVE  SignInInv'
    OBVIOUS
<1> USE NoneAssumption DEF TypeOK, FlowInv, SignInKinds, Goto, SignInInv, SignedIn,
        Shown, LinkInv, Live
<1>1. ASSUME NEW r \in Requests, ReceiveRegister(r)
      PROVE  SignInInv'
    BY <1>1 DEF ReceiveRegister, Received, body, users
<1>2. ASSUME NEW r \in Requests, ReceiveLogin(r)
      PROVE  SignInInv'
    BY <1>2 DEF ReceiveLogin, Received, body, users
<1>3. ASSUME NEW r \in Requests, ReceiveCallback(r)
      PROVE  SignInInv'
    BY <1>3 DEF ReceiveCallback, Received, fetchGoogleProfile, body, users
<1>4. ASSUME NEW r \in Requests, ReceiveGuarded(r)
      PROVE  SignInInv'
    BY <1>4 DEF ReceiveGuarded, Received, body, users
<1>5. ASSUME NEW r \in Requests, CreatePasswordUser(r)
      PROVE  SignInInv'
    BY <1>5 DEF CreatePasswordUser, Registered, body, users
<1>6. ASSUME NEW r \in Requests, CreateUnacknowledged(r)
      PROVE  SignInInv'
    BY <1>6 DEF CreateUnacknowledged, Registered, Error, body, users
<1>7. ASSUME NEW r \in Requests, RejectInsert(r)
      PROVE  SignInInv'
    BY <1>7 DEF RejectInsert, Answer, body, users
<1>8. ASSUME NEW r \in Requests, VerifyPassword(r)
      PROVE  SignInInv'
    BY <1>8 DEF VerifyPassword, body, users
<1>9. ASSUME NEW r \in Requests, RefuseLogin(r)
      PROVE  SignInInv'
    BY <1>9 DEF RefuseLogin, Error, body, users
<1>10. ASSUME NEW r \in Requests, GetGoogleUserBySubject(r)
      PROVE  SignInInv'
    BY <1>10 DEF GetGoogleUserBySubject, Found, body, users
<1>11. ASSUME NEW r \in Requests, Finish(r)
      PROVE  SignInInv'
    BY <1>11 DEF Finish, body, users
<1>12. ASSUME NEW r \in Requests, UpsertGoogleUserByEmail(r)
      PROVE  SignInInv'
    BY <1>12 DEF UpsertGoogleUserByEmail, body, users
<1>13. ASSUME NEW r \in Requests, LinkGoogleIdentity(r)
      PROVE  SignInInv'
    BY <1>13 DEF LinkGoogleIdentity, body, users
<1>14. ASSUME NEW r \in Requests, Commit(r)
      PROVE  SignInInv'
    BY <1>14 DEF Commit, Committed, body, users
<1>15. ASSUME NEW r \in Requests, CommitUnacknowledged(r)
      PROVE  SignInInv'
    BY <1>15 DEF CommitUnacknowledged, Committed, Error, body, users
<1>16. ASSUME NEW r \in Requests, CreateSession(r)
      PROVE  SignInInv'
    BY <1>16 DEF CreateSession, Answer, Error, body, users
<1>17. ASSUME NEW r \in Requests, Expire(r)
      PROVE  SignInInv'
    BY <1>17 DEF Expire, body, users
<1>18. ASSUME NEW r \in Requests, Admit(r)
      PROVE  SignInInv'
    BY <1>18 DEF Admit, Answer, body, users
<1>19. ASSUME NEW r \in Requests, TurnAway(r)
      PROVE  SignInInv'
    BY <1>19 DEF TurnAway, Error, body, users
<1>20. ASSUME NEW r \in Requests, DeleteSessionByTokenHash(r)
      PROVE  SignInInv'
    BY <1>20 DEF DeleteSessionByTokenHash, Answer, Error, body, users
<1>21. ASSUME NEW r \in Requests, Fail(r)
      PROVE  SignInInv'
    BY <1>21 DEF Fail, Error, body, users
<1>22. CASE Crash
    BY <1>22 DEF Crash, body, users
<1>23. CASE UNCHANGED vars
    BY <1>23 DEF vars, body, users
<1> HIDE DEF TypeOK, FlowInv, SignInKinds, Goto, SignInInv, SignedIn, Shown,
        LinkInv, Live
<1>24. QED
    BY <1>1, <1>2, <1>3, <1>4, <1>5, <1>6, <1>7, <1>8, <1>9, <1>10, <1>11, <1>12,
       <1>13, <1>14, <1>15, <1>16, <1>17, <1>18, <1>19, <1>20, <1>21, <1>22, <1>23
    DEF Next, Served

\* A Google user is linked once.
LEMMA LinkInvNext ==
    TypeOK /\ FlowInv /\ SignInInv /\ LinkInv /\ [Next]_vars => LinkInv'
<1> SUFFICES ASSUME TypeOK, FlowInv, SignInInv, LinkInv, [Next]_vars
             PROVE  LinkInv'
    OBVIOUS
<1> USE NoneAssumption DEF TypeOK, FlowInv, SignInKinds, Goto, SignInInv, SignedIn,
        LinkInv
<1>1. ASSUME NEW r \in Requests, ReceiveRegister(r)
      PROVE  LinkInv'
    BY <1>1 DEF ReceiveRegister, Received, body, users
<1>2. ASSUME NEW r \in Requests, ReceiveLogin(r)
      PROVE  LinkInv'
    BY <1>2 DEF ReceiveLogin, Received, body, users
<1>3. ASSUME NEW r \in Requests, ReceiveCallback(r)
      PROVE  LinkInv'
    BY <1>3 DEF ReceiveCallback, Received, fetchGoogleProfile, body, users
<1>4. ASSUME NEW r \in Requests, ReceiveGuarded(r)
      PROVE  LinkInv'
    BY <1>4 DEF ReceiveGuarded, Received, body, users
<1>5. ASSUME NEW r \in Requests, CreatePasswordUser(r)
      PROVE  LinkInv'
    BY <1>5 DEF CreatePasswordUser, Registered, body, users
<1>6. ASSUME NEW r \in Requests, CreateUnacknowledged(r)
      PROVE  LinkInv'
    BY <1>6 DEF CreateUnacknowledged, Registered, Error, body, users
<1>7. ASSUME NEW r \in Requests, RejectInsert(r)
      PROVE  LinkInv'
    BY <1>7 DEF RejectInsert, Answer, body, users
<1>8. ASSUME NEW r \in Requests, VerifyPassword(r)
      PROVE  LinkInv'
    BY <1>8 DEF VerifyPassword, body, users
<1>9. ASSUME NEW r \in Requests, RefuseLogin(r)
      PROVE  LinkInv'
    BY <1>9 DEF RefuseLogin, Error, body, users
<1>10. ASSUME NEW r \in Requests, GetGoogleUserBySubject(r)
      PROVE  LinkInv'
    BY <1>10 DEF GetGoogleUserBySubject, Found, body, users
<1>11. ASSUME NEW r \in Requests, Finish(r)
      PROVE  LinkInv'
    BY <1>11 DEF Finish, body, users
<1>12. ASSUME NEW r \in Requests, UpsertGoogleUserByEmail(r)
      PROVE  LinkInv'
    BY <1>12 DEF UpsertGoogleUserByEmail, body, users
<1>13. ASSUME NEW r \in Requests, LinkGoogleIdentity(r)
      PROVE  LinkInv'
    <2>1. /\ UNCHANGED <<kind, subject, links, sessions>>
          /\ pc' = [pc EXCEPT ![r] = "commit"] /\ pc[r] = "link"
          /\ linking' = IF links[subject[r]] = None THEN linking \cup {r} ELSE linking
        BY <1>13 DEF LinkGoogleIdentity, body, users
    <2>2. \A h \in Requests : pc[h] = "commit" /\ h \in linking => subject[h] # subject[r]
        BY <1>13 DEF LinkGoogleIdentity
    <2>3. QED
        BY <2>1, <2>2
<1>14. ASSUME NEW r \in Requests, Commit(r)
      PROVE  LinkInv'
    BY <1>14 DEF Commit, Committed, body, users
<1>15. ASSUME NEW r \in Requests, CommitUnacknowledged(r)
      PROVE  LinkInv'
    BY <1>15 DEF CommitUnacknowledged, Committed, Error, body, users
<1>16. ASSUME NEW r \in Requests, CreateSession(r)
      PROVE  LinkInv'
    BY <1>16 DEF CreateSession, Answer, Error, body, users
<1>17. ASSUME NEW r \in Requests, Expire(r)
      PROVE  LinkInv'
    BY <1>17 DEF Expire, body, users
<1>18. ASSUME NEW r \in Requests, Admit(r)
      PROVE  LinkInv'
    BY <1>18 DEF Admit, Answer, body, users
<1>19. ASSUME NEW r \in Requests, TurnAway(r)
      PROVE  LinkInv'
    BY <1>19 DEF TurnAway, Error, body, users
<1>20. ASSUME NEW r \in Requests, DeleteSessionByTokenHash(r)
      PROVE  LinkInv'
    BY <1>20 DEF DeleteSessionByTokenHash, Answer, Error, body, users
<1>21. ASSUME NEW r \in Requests, Fail(r)
      PROVE  LinkInv'
    BY <1>21 DEF Fail, Error, body, users
<1>22. CASE Crash
    BY <1>22 DEF Crash, body, users
<1>23. CASE UNCHANGED vars
    BY <1>23 DEF vars, body, users
<1> HIDE DEF TypeOK, FlowInv, SignInKinds, Goto, SignInInv, SignedIn, LinkInv
<1>24. QED
    BY <1>1, <1>2, <1>3, <1>4, <1>5, <1>6, <1>7, <1>8, <1>9, <1>10, <1>11, <1>12,
       <1>13, <1>14, <1>15, <1>16, <1>17, <1>18, <1>19, <1>20, <1>21, <1>22, <1>23
    DEF Next, Served

\* A link that was missed was made by an overlapping transaction.
LEMMA OverlapInvNext ==
    TypeOK /\ FlowInv /\ SignInInv /\ LinkInv /\ OverlapInv /\ [Next]_vars
    => OverlapInv'
<1> SUFFICES ASSUME TypeOK, FlowInv, SignInInv, LinkInv, OverlapInv, [Next]_vars
             PROVE  OverlapInv'
    OBVIOUS
<1> USE NoneAssumption DEF TypeOK, FlowInv, SignInKinds, Goto, SignInInv, SignedIn,
        LinkInv, OverlapInv, Overlapped, Over
<1>1. ASSUME NEW r \in Requests, ReceiveRegister(r)
      PROVE  OverlapInv'
    BY <1>1 DEF ReceiveRegister, Received, body, users
<1>2. ASSUME NEW r \in Requests, ReceiveLogin(r)
      PROVE  OverlapInv'
    BY <1>2 DEF ReceiveLogin, Received, body, users
<1>3. ASSUME NEW r \in Requests, ReceiveCallback(r)
      PROVE  OverlapInv'
    <2>1. /\ UNCHANGED <<who, links, sessions, before>>
          /\ pc[r] = "idle" /\ pc' = [pc EXCEPT ![r] = "lookup"]
        BY <1>3 DEF ReceiveCallback, Received, fetchGoogleProfile, users
    <2>2. \A h \in Requests \ {r} :
             /\ pc'[h] = pc[h] /\ kind'[h] = kind[h]
             /\ email'[h] = email[h] /\ subject'[h] = subject[h]
        BY <1>3 DEF ReceiveCallback, Received, fetchGoogleProfile
    <2>3. r \notin sessions /\ pc'[r] = "lookup"
        BY <2>1
    <2>4. Over' = Over
        BY <2>1, <2>2
    <2> HIDE DEF Over
    <2>5. r \notin Over
        BY <2>1 DEF Over
    <2> SUFFICES ASSUME NEW q \in Requests
                 PROVE  /\ before'[q] \subseteq Over'
                        /\ kind'[q] = "callback" /\ links'[subject'[q]] # None =>
                              /\ pc'[q] \in {"upsert", "link", "commit"} => Overlapped(q)'
                              /\ (SignedIn(q))' =>
                                    \/ who'[q] = links'[subject'[q]]
                                    \/ who'[q] = email'[q] /\ Overlapped(q)'
        BY DEF OverlapInv
    <2>6. CASE q = r
        BY <2>1, <2>3, <2>4, <2>6
    <2>7. CASE q # r
        <3>1. Overlapped(q) => Overlapped(q)'
            BY <2>1, <2>2, <2>4, <2>5, <2>7
        <3> HIDE DEF Overlapped
        <3>2. QED
            BY <2>1, <2>2, <2>4, <2>7, <3>1
    <2>8. QED
        BY <2>6, <2>7
<1>4. ASSUME NEW r \in Requests, ReceiveGuarded(r)
      PROVE  OverlapInv'
    <2>1. /\ UNCHANGED <<email, subject, who, links, sessions, before>>
          /\ kind[r] = "none" /\ kind'[r] = "guarded"
          /\ \A q \in Requests \ {r} : pc'[q] = pc[q] /\ kind'[q] = kind[q]
        BY <1>4 DEF ReceiveGuarded, Received, users
    <2>2. Over' = Over
        BY <2>1
    <2> HIDE DEF Over
    <2>3. \A q \in Requests : Overlapped(q)' <=> Overlapped(q)
        BY <2>1, <2>2
    <2> HIDE DEF Overlapped
    <2>4. QED
        BY <2>1, <2>2, <2>3
<1>5. ASSUME NEW r \in Requests, CreatePasswordUser(r)
      PROVE  OverlapInv'
    BY <1>5 DEF CreatePasswordUser, Registered, body, users
<1>6. ASSUME NEW r \in Requests, CreateUnacknowledged(r)
      PROVE  OverlapInv'
    BY <1>6 DEF CreateUnacknowledged, Registered, Error, body, users
<1>7. ASSUME NEW r \in Requests, RejectInsert(r)
      PROVE  OverlapInv'
    BY <1>7 DEF RejectInsert, Answer, body, users
<1>8. ASSUME NEW r \in Requests, VerifyPassword(r)
      PROVE  OverlapInv'
    BY <1>8 DEF VerifyPassword, body, users
<1>9. ASSUME NEW r \in Requests, RefuseLogin(r)
      PROVE  OverlapInv'
    BY <1>9 DEF RefuseLogin, Error, body, users
<1>10. ASSUME NEW r \in Requests, GetGoogleUserBySubject(r)
      PROVE  OverlapInv'
    BY <1>10 DEF GetGoogleUserBySubject, Found, body, users
<1>11. ASSUME NEW r \in Requests, Finish(r)
      PROVE  OverlapInv'
    BY <1>11 DEF Finish, body, users
<1>12. ASSUME NEW r \in Requests, UpsertGoogleUserByEmail(r)
      PROVE  OverlapInv'
    <2>1. /\ UNCHANGED <<kind, email, subject, links, sessions, before>>
          /\ pc[r] = "upsert" /\ pc' = [pc EXCEPT ![r] = "link"]
          /\ who' = [who EXCEPT ![r] = email[r]]
        BY <1>12 DEF UpsertGoogleUserByEmail, body, users
    <2>2. Over' = Over
        BY <2>1
    <2> HIDE DEF Over
    <2>3. \A q \in Requests : Overlapped(q)' <=> Overlapped(q)
        BY <2>1, <2>2
    <2> HIDE DEF Overlapped
    <2>4. QED
        BY <2>1, <2>2, <2>3
<1>13. ASSUME NEW r \in Requests, LinkGoogleIdentity(r)
      PROVE  OverlapInv'
    BY <1>13 DEF LinkGoogleIdentity, body, users
<1>14. ASSUME NEW r \in Requests, Commit(r)
      PROVE  OverlapInv'
    BY <1>14 DEF Commit, Committed, body, users
<1>15. ASSUME NEW r \in Requests, CommitUnacknowledged(r)
      PROVE  OverlapInv'
    BY <1>15 DEF CommitUnacknowledged, Committed, Error, body, users
<1>16. ASSUME NEW r \in Requests, CreateSession(r)
      PROVE  OverlapInv'
    BY <1>16 DEF CreateSession, Answer, Error, body, users
<1>17. ASSUME NEW r \in Requests, Expire(r)
      PROVE  OverlapInv'
    BY <1>17 DEF Expire, body, users
<1>18. ASSUME NEW r \in Requests, Admit(r)
      PROVE  OverlapInv'
    <2>1. /\ UNCHANGED <<kind, email, subject, links, sessions, before>>
          /\ kind[r] = "guarded"
          /\ \A q \in Requests \ {r} : pc'[q] = pc[q] /\ who'[q] = who[q]
        BY <1>18 DEF Admit, Answer, body, users
    <2>2. Over' = Over
        BY <2>1
    <2> HIDE DEF Over
    <2>3. \A q \in Requests : Overlapped(q)' <=> Overlapped(q)
        BY <2>1, <2>2
    <2> HIDE DEF Overlapped
    <2>4. QED
        BY <2>1, <2>2, <2>3
<1>19. ASSUME NEW r \in Requests, TurnAway(r)
      PROVE  OverlapInv'
    BY <1>19 DEF TurnAway, Error, body, users
<1>20. ASSUME NEW r \in Requests, DeleteSessionByTokenHash(r)
      PROVE  OverlapInv'
    <2>1. /\ UNCHANGED <<kind, email, subject, who, links, before>>
          /\ pc[r] = "delete" /\ pc' = [pc EXCEPT ![r] = "done"]
        BY <1>20 DEF DeleteSessionByTokenHash, Answer, Error, body, users
    <2>2. sessions' \subseteq sessions
        BY <1>20 DEF DeleteSessionByTokenHash
    <2>3. Over' = Over
        BY <2>1
    <2>4. QED
        BY <2>1, <2>2, <2>3
<1>21. ASSUME NEW r \in Requests, Fail(r)
      PROVE  OverlapInv'
    BY <1>21 DEF Fail, Error, body, users
<1>22. CASE Crash
    BY <1>22 DEF Crash, body, users
<1>23. CASE UNCHANGED vars
    BY <1>23 DEF vars, body, users
<1> HIDE DEF TypeOK, FlowInv, SignInKinds, Goto, SignInInv, SignedIn, LinkInv,
        OverlapInv, Overlapped, Over
<1>24. QED
    BY <1>1, <1>2, <1>3, <1>4, <1>5, <1>6, <1>7, <1>8, <1>9, <1>10, <1>11, <1>12,
       <1>13, <1>14, <1>15, <1>16, <1>17, <1>18, <1>19, <1>20, <1>21, <1>22, <1>23
    DEF Next, Served

\* Tokens that are over stay over.
LEMMA GuardInvNext ==
    TypeOK /\ FlowInv /\ SignInInv /\ GuardInv /\ [Next]_vars => GuardInv'
<1> SUFFICES ASSUME TypeOK, FlowInv, SignInInv, GuardInv, [Next]_vars
             PROVE  GuardInv'
    OBVIOUS
<1> USE NoneAssumption DEF TypeOK, FlowInv, SignInKinds, Goto, SignInInv, SignedIn,
        GuardInv, Issued, Live, Token
<1>1. ASSUME NEW r \in Requests, ReceiveRegister(r)
      PROVE  GuardInv'
    BY <1>1 DEF ReceiveRegister, Received, body, users
<1>2. ASSUME NEW r \in Requests, ReceiveLogin(r)
      PROVE  GuardInv'
    BY <1>2 DEF ReceiveLogin, Received, body, users
<1>3. ASSUME NEW r \in Requests, ReceiveCallback(r)
      PROVE  GuardInv'
    BY <1>3 DEF ReceiveCallback, Received, fetchGoogleProfile, body, users
<1>4. ASSUME NEW r \in Requests, ReceiveGuarded(r)
      PROVE  GuardInv'
    BY <1>4 DEF ReceiveGuarded, Received, body, users
<1>5. ASSUME NEW r \in Requests, CreatePasswordUser(r)
      PROVE  GuardInv'
    BY <1>5 DEF CreatePasswordUser, Registered, body, users
<1>6. ASSUME NEW r \in Requests, CreateUnacknowledged(r)
      PROVE  GuardInv'
    BY <1>6 DEF CreateUnacknowledged, Registered, Error, body, users
<1>7. ASSUME NEW r \in Requests, RejectInsert(r)
      PROVE  GuardInv'
    BY <1>7 DEF RejectInsert, Answer, body, users
<1>8. ASSUME NEW r \in Requests, VerifyPassword(r)
      PROVE  GuardInv'
    BY <1>8 DEF VerifyPassword, body, users
<1>9. ASSUME NEW r \in Requests, RefuseLogin(r)
      PROVE  GuardInv'
    BY <1>9 DEF RefuseLogin, Error, body, users
<1>10. ASSUME NEW r \in Requests, GetGoogleUserBySubject(r)
      PROVE  GuardInv'
    BY <1>10 DEF GetGoogleUserBySubject, Found, body, users
<1>11. ASSUME NEW r \in Requests, Finish(r)
      PROVE  GuardInv'
    BY <1>11 DEF Finish, body, users
<1>12. ASSUME NEW r \in Requests, UpsertGoogleUserByEmail(r)
      PROVE  GuardInv'
    BY <1>12 DEF UpsertGoogleUserByEmail, body, users
<1>13. ASSUME NEW r \in Requests, LinkGoogleIdentity(r)
      PROVE  GuardInv'
    BY <1>13 DEF LinkGoogleIdentity, body, users
<1>14. ASSUME NEW r \in Requests, Commit(r)
      PROVE  GuardInv'
    BY <1>14 DEF Commit, Committed, body, users
<1>15. ASSUME NEW r \in Requests, CommitUnacknowledged(r)
      PROVE  GuardInv'
    BY <1>15 DEF CommitUnacknowledged, Committed, Error, body, users
<1>16. ASSUME NEW r \in Requests, CreateSession(r)
      PROVE  GuardInv'
    BY <1>16 DEF CreateSession, Answer, Error, body, users
<1>17. ASSUME NEW r \in Requests, Expire(r)
      PROVE  GuardInv'
    BY <1>17 DEF Expire, body, users
<1>18. ASSUME NEW r \in Requests, Admit(r)
      PROVE  GuardInv'
    BY <1>18 DEF Admit, Answer, body, users
<1>19. ASSUME NEW r \in Requests, TurnAway(r)
      PROVE  GuardInv'
    BY <1>19 DEF TurnAway, Error, body, users
<1>20. ASSUME NEW r \in Requests, DeleteSessionByTokenHash(r)
      PROVE  GuardInv'
    BY <1>20 DEF DeleteSessionByTokenHash, Answer, Error, body, users
<1>21. ASSUME NEW r \in Requests, Fail(r)
      PROVE  GuardInv'
    BY <1>21 DEF Fail, Error, body, users
<1>22. CASE Crash
    BY <1>22 DEF Crash, body, users
<1>23. CASE UNCHANGED vars
    BY <1>23 DEF vars, body, users
<1> HIDE DEF TypeOK, FlowInv, SignInKinds, Goto, SignInInv, SignedIn, GuardInv,
        Issued, Live, Token
<1>24. QED
    BY <1>1, <1>2, <1>3, <1>4, <1>5, <1>6, <1>7, <1>8, <1>9, <1>10, <1>11, <1>12,
       <1>13, <1>14, <1>15, <1>16, <1>17, <1>18, <1>19, <1>20, <1>21, <1>22, <1>23
    DEF Next, Served

\* An account is there for good.
LEMMA ConflictsTruthfulNext ==
    TypeOK /\ FlowInv /\ ConflictsTruthful /\ [Next]_vars => ConflictsTruthful'
<1> SUFFICES ASSUME TypeOK, FlowInv, ConflictsTruthful, [Next]_vars
             PROVE  ConflictsTruthful'
    OBVIOUS
<1> USE NoneAssumption DEF TypeOK, FlowInv, SignInKinds, Goto, ConflictsTruthful
<1>1. ASSUME NEW r \in Requests, ReceiveRegister(r)
      PROVE  ConflictsTruthful'
    BY <1>1 DEF ReceiveRegister, Received, body, users
<1>2. ASSUME NEW r \in Requests, ReceiveLogin(r)
      PROVE  ConflictsTruthful'
    BY <1>2 DEF ReceiveLogin, Received, body, users
<1>3. ASSUME NEW r \in Requests, ReceiveCallback(r)
      PROVE  ConflictsTruthful'
    BY <1>3 DEF ReceiveCallback, Received, fetchGoogleProfile, body, users
<1>4. ASSUME NEW r \in Requests, ReceiveGuarded(r)
      PROVE  ConflictsTruthful'
    BY <1>4 DEF ReceiveGuarded, Received, body, users
<1>5. ASSUME NEW r \in Requests, CreatePasswordUser(r)
      PROVE  ConflictsTruthful'
    BY <1>5 DEF CreatePasswordUser, Registered, body, users
<1>6. ASSUME NEW r \in Requests, CreateUnacknowledged(r)
      PROVE  ConflictsTruthful'
    BY <1>6 DEF CreateUnacknowledged, Registered, Error, body, users
<1>7. ASSUME NEW r \in Requests, RejectInsert(r)
      PROVE  ConflictsTruthful'
    BY <1>7 DEF RejectInsert, Answer, body, users
<1>8. ASSUME NEW r \in Requests, VerifyPassword(r)
      PROVE  ConflictsTruthful'
    BY <1>8 DEF VerifyPassword, body, users
<1>9. ASSUME NEW r \in Requests, RefuseLogin(r)
      PROVE  ConflictsTruthful'
    BY <1>9 DEF RefuseLogin, Error, body, users
<1>10. ASSUME NEW r \in Requests, GetGoogleUserBySubject(r)
      PROVE  ConflictsTruthful'
    BY <1>10 DEF GetGoogleUserBySubject, Found, body, users
<1>11. ASSUME NEW r \in Requests, Finish(r)
      PROVE  ConflictsTruthful'
    BY <1>11 DEF Finish, body, users
<1>12. ASSUME NEW r \in Requests, UpsertGoogleUserByEmail(r)
      PROVE  ConflictsTruthful'
    BY <1>12 DEF UpsertGoogleUserByEmail, body, users
<1>13. ASSUME NEW r \in Requests, LinkGoogleIdentity(r)
      PROVE  ConflictsTruthful'
    BY <1>13 DEF LinkGoogleIdentity, body, users
<1>14. ASSUME NEW r \in Requests, Commit(r)
      PROVE  ConflictsTruthful'
    BY <1>14 DEF Commit, Committed, body, users
<1>15. ASSUME NEW r \in Requests, CommitUnacknowledged(r)
      PROVE  ConflictsTruthful'
    BY <1>15 DEF CommitUnacknowledged, Committed, Error, body, users
<1>16. ASSUME NEW r \in Requests, CreateSession(r)
      PROVE  ConflictsTruthful'
    BY <1>16 DEF CreateSession, Answer, Error, body, users
<1>17. ASSUME NEW r \in Requests, Expire(r)
      PROVE  ConflictsTruthful'
    BY <1>17 DEF Expire, body, users
<1>18. ASSUME NEW r \in Requests, Admit(r)
      PROVE  ConflictsTruthful'
    BY <1>18 DEF Admit, Answer, body, users
<1>19. ASSUME NEW r \in Requests, TurnAway(r)
      PROVE  ConflictsTruthful'
    BY <1>19 DEF TurnAway, Error, body, users
<1>20. ASSUME NEW r \in Requests, DeleteSessionByTokenHash(r)
      PROVE  ConflictsTruthful'
    BY <1>20 DEF DeleteSessionByTokenHash, Answer, Error, body, users
<1>21. ASSUME NEW r \in Requests, Fail(r)
      PROVE  ConflictsTruthful'
    BY <1>21 DEF Fail, Error, body, users
<1>22. CASE Crash
    BY <1>22 DEF Crash, body, users
<1>23. CASE UNCHANGED vars
    BY <1>23 DEF vars, body, users
<1> HIDE DEF TypeOK, FlowInv, SignInKinds, Goto, ConflictsTruthful
<1>24. QED
    BY <1>1, <1>2, <1>3, <1>4, <1>5, <1>6, <1>7, <1>8, <1>9, <1>10, <1>11, <1>12,
       <1>13, <1>14, <1>15, <1>16, <1>17, <1>18, <1>19, <1>20, <1>21, <1>22, <1>23
    DEF Next, Served

\* Only live tokens admit, as their user.
LEMMA AdmissionsTruthfulNext ==
    TypeOK /\ FlowInv /\ SignInInv /\ GuardInv /\ AdmissionsTruthful /\ [Next]_vars
    => AdmissionsTruthful'
<1> SUFFICES ASSUME TypeOK, FlowInv, SignInInv, GuardInv, AdmissionsTruthful, [Next]_vars
             PROVE  AdmissionsTruthful'
    OBVIOUS
<1> USE NoneAssumption DEF TypeOK, FlowInv, SignInKinds, Goto, SignInInv, GuardInv,
        AdmissionsTruthful, Issued, Live, Token
<1>1. ASSUME NEW r \in Requests, ReceiveRegister(r)
      PROVE  AdmissionsTruthful'
    BY <1>1 DEF ReceiveRegister, Received, body, users
<1>2. ASSUME NEW r \in Requests, ReceiveLogin(r)
      PROVE  AdmissionsTruthful'
    BY <1>2 DEF ReceiveLogin, Received, body, users
<1>3. ASSUME NEW r \in Requests, ReceiveCallback(r)
      PROVE  AdmissionsTruthful'
    BY <1>3 DEF ReceiveCallback, Received, fetchGoogleProfile, body, users
<1>4. ASSUME NEW r \in Requests, ReceiveGuarded(r)
      PROVE  AdmissionsTruthful'
    BY <1>4 DEF ReceiveGuarded, Received, body, users
<1>5. ASSUME NEW r \in Requests, CreatePasswordUser(r)
      PROVE  AdmissionsTruthful'
    BY <1>5 DEF CreatePasswordUser, Registered, body, users
<1>6. ASSUME NEW r \in Requests, CreateUnacknowledged(r)
      PROVE  AdmissionsTruthful'
    BY <1>6 DEF CreateUnacknowledged, Registered, Error, body, users
<1>7. ASSUME NEW r \in Requests, RejectInsert(r)
      PROVE  AdmissionsTruthful'
    BY <1>7 DEF RejectInsert, Answer, body, users
<1>8. ASSUME NEW r \in Requests, VerifyPassword(r)
      PROVE  AdmissionsTruthful'
    BY <1>8 DEF VerifyPassword, body, users
<1>9. ASSUME NEW r \in Requests, RefuseLogin(r)
      PROVE  AdmissionsTruthful'
    BY <1>9 DEF RefuseLogin, Error, body, users
<1>10. ASSUME NEW r \in Requests, GetGoogleUserBySubject(r)
      PROVE  AdmissionsTruthful'
    BY <1>10 DEF GetGoogleUserBySubject, Found, body, users
<1>11. ASSUME NEW r \in Requests, Finish(r)
      PROVE  AdmissionsTruthful'
    BY <1>11 DEF Finish, body, users
<1>12. ASSUME NEW r \in Requests, UpsertGoogleUserByEmail(r)
      PROVE  AdmissionsTruthful'
    BY <1>12 DEF UpsertGoogleUserByEmail, body, users
<1>13. ASSUME NEW r \in Requests, LinkGoogleIdentity(r)
      PROVE  AdmissionsTruthful'
    BY <1>13 DEF LinkGoogleIdentity, body, users
<1>14. ASSUME NEW r \in Requests, Commit(r)
      PROVE  AdmissionsTruthful'
    BY <1>14 DEF Commit, Committed, body, users
<1>15. ASSUME NEW r \in Requests, CommitUnacknowledged(r)
      PROVE  AdmissionsTruthful'
    BY <1>15 DEF CommitUnacknowledged, Committed, Error, body, users
<1>16. ASSUME NEW r \in Requests, CreateSession(r)
      PROVE  AdmissionsTruthful'
    BY <1>16 DEF CreateSession, Answer, Error, body, users
<1>17. ASSUME NEW r \in Requests, Expire(r)
      PROVE  AdmissionsTruthful'
    BY <1>17 DEF Expire, body, users
<1>18. ASSUME NEW r \in Requests, Admit(r)
      PROVE  AdmissionsTruthful'
    BY <1>18 DEF Admit, Answer, body, users
<1>19. ASSUME NEW r \in Requests, TurnAway(r)
      PROVE  AdmissionsTruthful'
    BY <1>19 DEF TurnAway, Error, body, users
<1>20. ASSUME NEW r \in Requests, DeleteSessionByTokenHash(r)
      PROVE  AdmissionsTruthful'
    BY <1>20 DEF DeleteSessionByTokenHash, Answer, Error, body, users
<1>21. ASSUME NEW r \in Requests, Fail(r)
      PROVE  AdmissionsTruthful'
    BY <1>21 DEF Fail, Error, body, users
<1>22. CASE Crash
    BY <1>22 DEF Crash, body, users
<1>23. CASE UNCHANGED vars
    BY <1>23 DEF vars, body, users
<1> HIDE DEF TypeOK, FlowInv, SignInKinds, Goto, SignInInv, GuardInv,
        AdmissionsTruthful, Issued, Live, Token
<1>24. QED
    BY <1>1, <1>2, <1>3, <1>4, <1>5, <1>6, <1>7, <1>8, <1>9, <1>10, <1>11, <1>12,
       <1>13, <1>14, <1>15, <1>16, <1>17, <1>18, <1>19, <1>20, <1>21, <1>22, <1>23
    DEF Next, Served

\* Logout deletes the session it was let in with, and no other.
LEMMA SessionsLastNext ==
    TypeOK /\ FlowInv /\ SignInInv /\ GuardInv /\ AdmissionsTruthful /\ SessionsLast /\ [Next]_vars
    => SessionsLast'
<1> SUFFICES ASSUME TypeOK, FlowInv, SignInInv, GuardInv, AdmissionsTruthful, SessionsLast, [Next]_vars
             PROVE  SessionsLast'
    OBVIOUS
<1> USE NoneAssumption DEF TypeOK, FlowInv, SignInKinds, Goto, SignInInv, GuardInv,
        AdmissionsTruthful, SessionsLast, Issued, Token
<1>1. ASSUME NEW r \in Requests, ReceiveRegister(r)
      PROVE  SessionsLast'
    BY <1>1 DEF ReceiveRegister, Received, body, users
<1>2. ASSUME NEW r \in Requests, ReceiveLogin(r)
      PROVE  SessionsLast'
    BY <1>2 DEF ReceiveLogin, Received, body, users
<1>3. ASSUME NEW r \in Requests, ReceiveCallback(r)
      PROVE  SessionsLast'
    BY <1>3 DEF ReceiveCallback, Received, fetchGoogleProfile, body, users
<1>4. ASSUME NEW r \in Requests, ReceiveGuarded(r)
      PROVE  SessionsLast'
    BY <1>4 DEF ReceiveGuarded, Received, body, users
<1>5. ASSUME NEW r \in Requests, CreatePasswordUser(r)
      PROVE  SessionsLast'
    BY <1>5 DEF CreatePasswordUser, Registered, body, users
<1>6. ASSUME NEW r \in Requests, CreateUnacknowledged(r)
      PROVE  SessionsLast'
    BY <1>6 DEF CreateUnacknowledged, Registered, Error, body, users
<1>7. ASSUME NEW r \in Requests, RejectInsert(r)
      PROVE  SessionsLast'
    BY <1>7 DEF RejectInsert, Answer, body, users
<1>8. ASSUME NEW r \in Requests, VerifyPassword(r)
      PROVE  SessionsLast'
    BY <1>8 DEF VerifyPassword, body, users
<1>9. ASSUME NEW r \in Requests, RefuseLogin(r)
      PROVE  SessionsLast'
    BY <1>9 DEF RefuseLogin, Error, body, users
<1>10. ASSUME NEW r \in Requests, GetGoogleUserBySubject(r)
      PROVE  SessionsLast'
    BY <1>10 DEF GetGoogleUserBySubject, Found, body, users
<1>11. ASSUME NEW r \in Requests, Finish(r)
      PROVE  SessionsLast'
    BY <1>11 DEF Finish, body, users
<1>12. ASSUME NEW r \in Requests, UpsertGoogleUserByEmail(r)
      PROVE  SessionsLast'
    BY <1>12 DEF UpsertGoogleUserByEmail, body, users
<1>13. ASSUME NEW r \in Requests, LinkGoogleIdentity(r)
      PROVE  SessionsLast'
    BY <1>13 DEF LinkGoogleIdentity, body, users
<1>14. ASSUME NEW r \in Requests, Commit(r)
      PROVE  SessionsLast'
    BY <1>14 DEF Commit, Committed, body, users
<1>15. ASSUME NEW r \in Requests, CommitUnacknowledged(r)
      PROVE  SessionsLast'
    BY <1>15 DEF CommitUnacknowledged, Committed, Error, body, users
<1>16. ASSUME NEW r \in Requests, CreateSession(r)
      PROVE  SessionsLast'
    <2>1. /\ UNCHANGED <<kind, cookie, who>>
          /\ pc[r] = "session" /\ sessions' = sessions \cup {r}
          /\ \A q \in Requests \ {r} : pc'[q] = pc[q] /\ reply'[q] = reply[q]
        BY <1>16 DEF CreateSession, Answer, Error, body
    <2>2. Issued' \subseteq Issued \cup {r}
        BY <2>1
    <2> HIDE DEF Issued
    <2>3. QED
        BY <2>1, <2>2
<1>17. ASSUME NEW r \in Requests, Expire(r)
      PROVE  SessionsLast'
    BY <1>17 DEF Expire, body, users
<1>18. ASSUME NEW r \in Requests, Admit(r)
      PROVE  SessionsLast'
    <2>1. /\ UNCHANGED <<kind, cookie, sessions>>
          /\ pc[r] = "check" /\ kind[r] = "guarded"
          /\ \A q \in Requests \ {r} :
                pc'[q] = pc[q] /\ reply'[q] = reply[q] /\ who'[q] = who[q]
        BY <1>18 DEF Admit, Answer, body
    <2>2. Issued' = Issued /\ Issued \subseteq Requests \ {r}
        BY <2>1
    <2> HIDE DEF Issued
    <2>3. QED
        BY <2>1, <2>2
<1>19. ASSUME NEW r \in Requests, TurnAway(r)
      PROVE  SessionsLast'
    BY <1>19 DEF TurnAway, Error, body, users
<1>20. ASSUME NEW r \in Requests, DeleteSessionByTokenHash(r)
      PROVE  SessionsLast'
    BY <1>20 DEF DeleteSessionByTokenHash, Answer, Error, body, users
<1>21. ASSUME NEW r \in Requests, Fail(r)
      PROVE  SessionsLast'
    BY <1>21 DEF Fail, Error, body, users
<1>22. CASE Crash
    BY <1>22 DEF Crash, body, users
<1>23. CASE UNCHANGED vars
    BY <1>23 DEF vars, body, users
<1> HIDE DEF TypeOK, FlowInv, SignInKinds, Goto, SignInInv, GuardInv,
        AdmissionsTruthful, SessionsLast, Issued, Token
<1>24. QED
    BY <1>1, <1>2, <1>3, <1>4, <1>5, <1>6, <1>7, <1>8, <1>9, <1>10, <1>11, <1>12,
       <1>13, <1>14, <1>15, <1>16, <1>17, <1>18, <1>19, <1>20, <1>21, <1>22, <1>23
    DEF Next, Served

\* The invariant holds before the first request.
LEMMA Initially == Init => IInv
<1> SUFFICES ASSUME Init
             PROVE  IInv
    OBVIOUS
<1> USE NoneAssumption DEF Init
<1>1. TypeOK
    BY DEF TypeOK
<1>2. FlowInv /\ SignInInv
    BY DEF FlowInv, SignInInv, SignedIn, SignInKinds
<1>3. LinkInv
    BY DEF LinkInv, SignedIn
<1>4. OverlapInv
    BY DEF OverlapInv
<1>5. GuardInv /\ ConflictsTruthful /\ AdmissionsTruthful /\ SessionsLast
    BY DEF GuardInv, ConflictsTruthful, AdmissionsTruthful, SessionsLast, Issued
<1>6. QED
    BY <1>1, <1>2, <1>3, <1>4, <1>5 DEF IInv

\* The strengthened invariant of Accounts.
LEMMA Invariance == Spec => []IInv
<1>1. IInv /\ [Next]_vars => IInv'
    BY TypeOKNext, FlowInvNext, SignInInvNext, LinkInvNext, OverlapInvNext,
       GuardInvNext, ConflictsTruthfulNext, AdmissionsTruthfulNext, SessionsLastNext
    DEF IInv
<1>2. QED
    BY Initially, <1>1, PTL DEF Spec

\* The rows of users, auth_identities and sessions, and every request being
\* served, stay within their types; links and sessions refer to accounts.
THEOREM TypeCorrect == Spec => []TypeOK
<1>1. IInv => TypeOK
    BY DEF IInv
<1>2. QED
    BY Invariance, <1>1, PTL

\* createSession is reached only by a request that has shown to be the user:
\* by its registration, the password, or Google.
THEOREM SignInsAreTruthful == Spec => []SignInsTruthful
<1>1. IInv => SignInsTruthful
    BY DEF IInv, TypeOK, SignInInv, SignedIn, Shown, SignInsTruthful
<1>2. QED
    BY Invariance, <1>1, PTL

\* register answers 409 only for an email that has an account.
THEOREM ConflictsAreTrue == Spec => []ConflictsTruthful
<1>1. IInv => ConflictsTruthful
    BY DEF IInv
<1>2. QED
    BY Invariance, <1>1, PTL

\* upsertGoogleUser signs a Google user in as another account than the linked
\* one only if its transaction overlapped with the linking one.
THEOREM SplitsHaveCauses == Spec => []SplitOnlyByOverlap
<1>1. IInv => SplitOnlyByOverlap
    <2> SUFFICES ASSUME IInv, NEW r \in sessions, kind[r] = "callback"
                 PROVE  /\ links[subject[r]] # None
                        /\ \/ who[r] = links[subject[r]]
                           \/ \E h \in Requests :
                                 /\ kind[h] = "callback" /\ subject[h] = subject[r]
                                 /\ email[h] = links[subject[r]]
                                 /\ email[r] # links[subject[r]]
                                 /\ h \notin before[r] /\ r \notin before[h]
        BY DEF SplitOnlyByOverlap
    <2>1. r \in Requests /\ links[subject[r]] # None
        BY DEF IInv, TypeOK, LinkInv, SignedIn
    <2>2. who[r] = links[subject[r]] \/ (who[r] = email[r] /\ Overlapped(r))
        BY <2>1 DEF IInv, OverlapInv, SignedIn
    <2>3. QED
        BY <2>1, <2>2 DEF Overlapped, Over
<1>2. QED
    BY Invariance, <1>1, PTL

\* requireAuth lets a request in only as the user of its token, and not with a
\* token that was over before.
THEOREM AdmissionsAreTruthful == Spec => []AdmissionsTruthful
<1>1. IInv => AdmissionsTruthful
    BY DEF IInv
<1>2. QED
    BY Invariance, <1>1, PTL

\* A session is deleted only by a logout let in with it as its cookie.
THEOREM SessionsEndByLogout == Spec => []SessionsLast
<1>1. IInv => SessionsLast
    BY DEF IInv
<1>2. QED
    BY Invariance, <1>1, PTL

-----------------------------------------------------------------------------
(* Tokens and logouts.                                                     *)

\* A step leaves a request that was answered as it is, brings no expired token
\* back, and makes a session only for a request that is about to get one.
Settled ==
    /\ \A q \in Requests : pc[q] = "done" =>
          /\ pc'[q] = "done" /\ kind'[q] = kind[q] /\ cookie'[q] = cookie[q]
          /\ reply'[q] = reply[q] /\ who'[q] = who[q]
    /\ expired \subseteq expired'
    /\ sessions' \subseteq sessions \cup {q \in Requests : pc[q] = "session"}

LEMMA StepSettled == TypeOK /\ [Next]_vars => Settled
<1> SUFFICES ASSUME TypeOK, [Next]_vars PROVE Settled
    OBVIOUS
<1> USE DEF TypeOK, Settled, Goto
<1>1. ASSUME NEW r \in Requests, ReceiveRegister(r) PROVE Settled
    BY <1>1 DEF ReceiveRegister, Received, body, users
<1>2. ASSUME NEW r \in Requests, ReceiveLogin(r) PROVE Settled
    BY <1>2 DEF ReceiveLogin, Received, body, users
<1>3. ASSUME NEW r \in Requests, ReceiveCallback(r) PROVE Settled
    BY <1>3 DEF ReceiveCallback, Received, fetchGoogleProfile, body, users
<1>4. ASSUME NEW r \in Requests, ReceiveGuarded(r) PROVE Settled
    BY <1>4 DEF ReceiveGuarded, Received, body, users
<1>5. ASSUME NEW r \in Requests, CreatePasswordUser(r) PROVE Settled
    BY <1>5 DEF CreatePasswordUser, Registered, body, users
<1>6. ASSUME NEW r \in Requests, CreateUnacknowledged(r) PROVE Settled
    BY <1>6 DEF CreateUnacknowledged, Registered, Error, body, users
<1>7. ASSUME NEW r \in Requests, RejectInsert(r) PROVE Settled
    BY <1>7 DEF RejectInsert, Answer, body, users
<1>8. ASSUME NEW r \in Requests, VerifyPassword(r) PROVE Settled
    BY <1>8 DEF VerifyPassword, body, users
<1>9. ASSUME NEW r \in Requests, RefuseLogin(r) PROVE Settled
    BY <1>9 DEF RefuseLogin, Error, body, users
<1>10. ASSUME NEW r \in Requests, GetGoogleUserBySubject(r) PROVE Settled
    BY <1>10 DEF GetGoogleUserBySubject, body, users
<1>11. ASSUME NEW r \in Requests, Finish(r) PROVE Settled
    BY <1>11 DEF Finish, body, users
<1>12. ASSUME NEW r \in Requests, UpsertGoogleUserByEmail(r) PROVE Settled
    BY <1>12 DEF UpsertGoogleUserByEmail, body, users
<1>13. ASSUME NEW r \in Requests, LinkGoogleIdentity(r) PROVE Settled
    BY <1>13 DEF LinkGoogleIdentity, body, users
<1>14. ASSUME NEW r \in Requests, Commit(r) PROVE Settled
    BY <1>14 DEF Commit, Committed, body, users
<1>15. ASSUME NEW r \in Requests, CommitUnacknowledged(r) PROVE Settled
    BY <1>15 DEF CommitUnacknowledged, Committed, Error, body, users
<1>16. ASSUME NEW r \in Requests, CreateSession(r) PROVE Settled
    BY <1>16 DEF CreateSession, Answer, Error, body, users
<1>17. ASSUME NEW r \in Requests, Expire(r) PROVE Settled
    BY <1>17 DEF Expire, body, users
<1>18. ASSUME NEW r \in Requests, Admit(r) PROVE Settled
    BY <1>18 DEF Admit, Answer, body, users
<1>19. ASSUME NEW r \in Requests, TurnAway(r) PROVE Settled
    BY <1>19 DEF TurnAway, Error, body, users
<1>20. ASSUME NEW r \in Requests, DeleteSessionByTokenHash(r) PROVE Settled
    BY <1>20 DEF DeleteSessionByTokenHash, Answer, Error, body, users
<1>21. ASSUME NEW r \in Requests, Fail(r) PROVE Settled
    BY <1>21 DEF Fail, Error, body, users
<1>22. CASE Crash
    BY <1>22 DEF Crash, body, users
<1>23. CASE UNCHANGED vars
    BY <1>23 DEF vars, body, users
<1> HIDE DEF TypeOK, Settled, Goto
<1>24. QED
    BY <1>1, <1>2, <1>3, <1>4, <1>5, <1>6, <1>7, <1>8, <1>9, <1>10, <1>11,
       <1>12, <1>13, <1>14, <1>15, <1>16, <1>17, <1>18, <1>19, <1>20, <1>21, <1>22, <1>23
    DEF Next, Served

\* A token that expired or was signed out is over for good: no later sign-in,
\* crash or lost answer makes it admit anybody again.
OverForGood == Issued \ Live \subseteq (Issued \ Live)'

\* requireAuth answers 401 to such a token for ever.
THEOREM TokensEndForGood == Spec => [][OverForGood]_vars
<1>1. IInv /\ [Next]_vars => OverForGood
    <2> SUFFICES ASSUME IInv, [Next]_vars, NEW t \in Requests, t \in Issued, t \notin Live
                 PROVE  t \in Issued' /\ t \notin Live'
        BY DEF OverForGood, Issued
    <2>1. Settled
        BY StepSettled DEF IInv
    <2>2. pc[t] = "done" /\ reply[t] = "ok" /\ kind[t] # "guarded"
        BY DEF IInv, FlowInv, Issued
    <2>3. t \in Issued'
        BY <2>1, <2>2 DEF Settled, Issued
    <2>4. t \notin Live'
        BY <2>1, <2>2 DEF Settled, Live
    <2>5. QED
        BY <2>3, <2>4
<1>2. QED
    BY <1>1, Invariance, PTL DEF Spec

\* A token is its user's for good, also when its session is gone.
TokensKeepUsers == \A t \in Issued : who'[t] = who[t]

\* requireAuth never admits a token as one user now and as another later.
THEOREM TokensStayTheirUsers == Spec => [][TokensKeepUsers]_vars
<1>1. IInv /\ [Next]_vars => TokensKeepUsers
    BY StepSettled DEF IInv, FlowInv, Issued, Settled, TokensKeepUsers
<1>2. QED
    BY <1>1, Invariance, PTL DEF Spec

\* What the documented promise of logout (LogoutEndsSession) comes to: the session
\* is gone for good if the request carried it as its cookie.
CookieLogoutEnds ==
    \A r \in Requests : reply[r] = "out" /\ cookie[r] # None => cookie[r] \notin sessions

LogoutInv ==
    /\ CookieLogoutEnds
    /\ \A r \in Requests : reply[r] = "out" => kind[r] = "guarded"

LEMMA LogoutInvNext ==
    ASSUME Reliable
    PROVE  IInv /\ LogoutInv /\ [Next]_vars => LogoutInv'
<1> SUFFICES ASSUME IInv, LogoutInv, [Next]_vars, NEW r \in Requests, reply'[r] = "out"
             PROVE  /\ kind'[r] = "guarded"
                    /\ cookie'[r] # None => cookie'[r] \notin sessions'
    BY DEF LogoutInv, CookieLogoutEnds
<1>1. Settled
    BY StepSettled DEF IInv
<1>2. CASE reply[r] = "out"
    <2>1. /\ pc[r] = "done" /\ kind[r] = "guarded"
          /\ cookie[r] # None => cookie[r] \in Issued \ sessions
        BY <1>2 DEF IInv, FlowInv, GuardInv, LogoutInv, CookieLogoutEnds
    <2>2. \A t \in Issued : pc[t] # "session"
        BY DEF IInv, FlowInv, Issued
    <2>3. QED
        BY <1>1, <2>1, <2>2 DEF Settled
<1>3. CASE reply[r] # "out"
    <2>1. DeleteSessionByTokenHash(r)
        BY <1>3 DEF IInv, TypeOK, ReceiveRegister, Received, ReceiveLogin,
              ReceiveCallback, fetchGoogleProfile, ReceiveGuarded,
              CreatePasswordUser, Registered, CreateUnacknowledged,
              RejectInsert, VerifyPassword, RefuseLogin,
              GetGoogleUserBySubject, Finish, UpsertGoogleUserByEmail,
              LinkGoogleIdentity, Commit, Committed, CommitUnacknowledged,
              CreateSession, Expire, Admit, TurnAway, DeleteSessionByTokenHash,
              Fail, Error, Answer, Goto, Next, Crash, Served, vars, body, users
    <2>2. QED
        BY <2>1 DEF DeleteSessionByTokenHash, IInv, FlowInv, body
<1>4. QED
    BY <1>2, <1>3

\* Where no call fails, a logout that is answered has ended the session of its
\* cookie, and with TokensEndForGood nothing brings it back.
\* What refutes LogoutEndsSession is the Bearer token alone.
THEOREM CookieLogoutsEndSessions ==
    ASSUME Reliable
    PROVE  Spec => []CookieLogoutEnds
<1>1. Init => LogoutInv
    BY DEF Init, LogoutInv, CookieLogoutEnds
<1>2. IInv /\ LogoutInv /\ [Next]_vars => LogoutInv'
    BY LogoutInvNext
<1>3. LogoutInv => CookieLogoutEnds
    BY DEF LogoutInv
<1>4. QED
    BY <1>1, <1>2, <1>3, Invariance, PTL DEF Spec

-----------------------------------------------------------------------------
(* Accounts implements AccountBook.                                        *)

bookSessions == {[token |-> t, user |-> who[t]] : t \in sessions}
bookVars == <<accounts, hash, links, bookSessions, sessions \cup Issued>>

\* What the book sees of a step that issues nothing.
SameBook == bookSessions' = bookSessions /\ (sessions \cup Issued)' = sessions \cup Issued

\* A step that leaves the sessions alone and answers no "ok" to a sign-in
\* leaves the book's sessions alone.
LEMMA KeepsBook ==
    ASSUME TypeOK, UNCHANGED sessions,
           \A t \in sessions : who'[t] = who[t],
           Issued' = Issued
    PROVE  SameBook
<1>1. bookSessions' = bookSessions
    BY DEF bookSessions
<1>2. QED
    BY <1>1 DEF SameBook

\* Of the actions that follow, none answers a sign-in or touches sessions.
LEMMA QuietSteps ==
    ASSUME IInv, NEW r \in Requests,
           \/ ReceiveRegister(r) \/ ReceiveLogin(r) \/ ReceiveCallback(r)
           \/ ReceiveGuarded(r)
           \/ CreatePasswordUser(r) \/ CreateUnacknowledged(r) \/ RejectInsert(r)
           \/ VerifyPassword(r) \/ RefuseLogin(r)
           \/ GetGoogleUserBySubject(r) \/ Finish(r) \/ UpsertGoogleUserByEmail(r)
           \/ LinkGoogleIdentity(r) \/ Commit(r) \/ CommitUnacknowledged(r)
           \/ Expire(r) \/ Admit(r) \/ TurnAway(r) \/ Fail(r)
    PROVE  SameBook
<1> USE DEF IInv, TypeOK, FlowInv, SignInInv, SignInKinds, Goto, Issued
<1>1. SUFFICES /\ UNCHANGED sessions
               /\ \A t \in sessions : who'[t] = who[t]
               /\ Issued' = Issued
    BY KeepsBook
<1>2. CASE ReceiveRegister(r)
    BY <1>2 DEF ReceiveRegister, Received, body, users
<1>3. CASE ReceiveLogin(r)
    BY <1>3 DEF ReceiveLogin, Received, body, users
<1>4. CASE ReceiveCallback(r)
    BY <1>4 DEF ReceiveCallback, Received, body, users
<1>5. CASE ReceiveGuarded(r)
    BY <1>5 DEF ReceiveGuarded, Received, body, users
<1>6. CASE CreatePasswordUser(r)
    BY <1>6 DEF CreatePasswordUser, Registered, body, users
<1>7. CASE CreateUnacknowledged(r)
    BY <1>7 DEF CreateUnacknowledged, Registered, Error, body, users
<1>8. CASE RejectInsert(r)
    BY <1>8 DEF RejectInsert, Answer, body, users
<1>9. CASE VerifyPassword(r)
    BY <1>9 DEF VerifyPassword, body, users
<1>10. CASE RefuseLogin(r)
    BY <1>10 DEF RefuseLogin, Error, body, users
<1>11. CASE GetGoogleUserBySubject(r)
    BY <1>11 DEF GetGoogleUserBySubject, Found, body, users
<1>12. CASE Finish(r)
    BY <1>12 DEF Finish, body, users
<1>13. CASE UpsertGoogleUserByEmail(r)
    BY <1>13 DEF UpsertGoogleUserByEmail, body, users
<1>14. CASE LinkGoogleIdentity(r)
    BY <1>14 DEF LinkGoogleIdentity, body, users
<1>15. CASE Commit(r)
    BY <1>15 DEF Commit, Committed, body, users
<1>16. CASE CommitUnacknowledged(r)
    BY <1>16 DEF CommitUnacknowledged, Committed, Error, body, users
<1>17. CASE Expire(r)
    BY <1>17 DEF Expire, body, users
<1>18. CASE Admit(r)
    BY <1>18 DEF Admit, Answer, body, users
<1>19. CASE TurnAway(r)
    BY <1>19 DEF TurnAway, Error, body, users
<1>20. CASE Fail(r)
    BY <1>20 DEF Fail, Error, body, users
<1>21. QED
    BY <1>2, <1>3, <1>4, <1>5, <1>6, <1>7, <1>8, <1>9, <1>10, <1>11, <1>12, <1>13,
       <1>14, <1>15, <1>16, <1>17, <1>18, <1>19, <1>20

\* The INSERT of register is SignUp.
LEMMA RegisterSimulates ==
    ASSUME IInv, NEW r \in Requests, Registered(r), SameBook
    PROVE  Book!Next
<1>1. email[r] \in Emails
    BY DEF IInv, FlowInv, Registered, SignInKinds
<1>2. Book!SignUp(email[r], r)
    BY DEF Registered, SameBook, bookSessions, Book!SignUp
<1>3. QED
    BY <1>1, <1>2 DEF Book!Next

\* The commit of upsertGoogleUser is SignUpWithGoogle.
LEMMA CommitSimulates ==
    ASSUME IInv, NEW r \in Requests, Committed(r), SameBook
    PROVE  Book!Next
<1>1. email[r] \in Emails /\ subject[r] \in Subjects
    BY DEF IInv, FlowInv, Committed, SignInKinds
<1>2. links' = [links EXCEPT ![subject[r]] =
                   IF links[subject[r]] = None THEN email[r] ELSE links[subject[r]]]
    <2>1. r \in linking <=> links[subject[r]] = None
        BY DEF IInv, LinkInv, Committed
    <2>2. links \in [Subjects -> accounts \cup {None}]
        BY DEF IInv, TypeOK
    <2>3. QED
        BY <1>1, <2>1, <2>2 DEF Committed
<1>3. Book!SignUpWithGoogle(subject[r], email[r])
    BY <1>2 DEF Committed, SameBook, bookSessions, Book!SignUpWithGoogle
<1>4. QED
    BY <1>1, <1>3 DEF Book!Next

\* createSession is Issue, for an account and a token never issued.
LEMMA SessionSimulates ==
    ASSUME IInv, NEW r \in Requests, CreateSession(r)
    PROVE  Book!Next
<1>1. pc[r] = "session" /\ sessions' = sessions \cup {r}
    BY DEF CreateSession
<1>2. who[r] \in accounts /\ who[r] \in Emails
    BY <1>1 DEF IInv, TypeOK, SignInInv, SignedIn
<1>3. r \notin sessions \cup Issued
    BY <1>1 DEF IInv, FlowInv, SignInInv, Issued
<1>4. (sessions \cup Issued)' = (sessions \cup Issued) \cup {r}
    <2>1. UNCHANGED kind /\ (reply' = reply \/ reply' = [reply EXCEPT ![r] = "ok"])
        BY DEF CreateSession, Answer, Error, body
    <2>2. Issued \subseteq Issued' /\ Issued' \subseteq Issued \cup {r}
        BY <2>1 DEF IInv, TypeOK, Issued
    <2>3. QED
        BY <1>1, <2>2
<1>5. bookSessions' = bookSessions \cup {[token |-> r, user |-> who[r]]}
    BY <1>1 DEF CreateSession, bookSessions
<1>6. PICK e \in Emails : e = who[r]
    BY <1>2
<1>7. Book!Issue(r, e)
    <2>1. UNCHANGED <<accounts, hash, links>>
        BY DEF CreateSession, users
    <2>2. QED
        BY <1>2, <1>3, <1>4, <1>5, <1>6, <2>1 DEF bookSessions, Book!Issue
<1>8. QED
    BY <1>7 DEF Book!Next

\* logout is End of the session of the cookie, or nothing.
LEMMA LogoutSimulates ==
    ASSUME IInv, NEW r \in Requests, DeleteSessionByTokenHash(r)
    PROVE  Book!Next \/ bookVars' = bookVars
<1>1. /\ pc[r] = "delete" /\ kind[r] = "guarded"
      /\ UNCHANGED <<kind, who, accounts, hash, links>>
    BY DEF DeleteSessionByTokenHash, body, users, IInv, FlowInv
<1>2. Issued' = Issued
    <2>1. \A q \in Requests \ {r} : reply'[q] = reply[q]
        BY DEF DeleteSessionByTokenHash, Answer, Error, IInv, TypeOK
    <2>2. QED
        BY <1>1, <2>1 DEF Issued
<1>3. CASE UNCHANGED sessions
    BY <1>1, <1>2, <1>3 DEF bookVars, bookSessions
<1>4. CASE cookie[r] = None /\ sessions' = sessions \ {cookie[r]}
    <2>1. sessions' = sessions
        BY <1>4, NoneAssumption DEF IInv, TypeOK
    <2>2. QED
        BY <1>3, <2>1
<1>5. CASE cookie[r] # None /\ sessions' = sessions \ {cookie[r]}
    <2>1. cookie[r] \in Requests /\ cookie[r] \in Issued
        BY <1>1, <1>5 DEF IInv, TypeOK, GuardInv
    <2>2. (sessions \cup Issued)' = sessions \cup Issued
        BY <1>2, <1>5, <2>1
    <2>3. bookSessions' = {s \in bookSessions : s.token # cookie[r]}
        BY <1>1, <1>5 DEF bookSessions
    <2>4. PICK t \in Requests : t = cookie[r]
        BY <2>1
    <2>5. Book!End(t)
        BY <1>1, <2>2, <2>3, <2>4 DEF bookSessions, Book!End
    <2>6. QED
        BY <2>5 DEF Book!Next
<1>6. QED
    BY <1>3, <1>4, <1>5 DEF DeleteSessionByTokenHash

\* The other actions of a request change nothing in the book.
LEMMA QuietStepsStutter ==
    ASSUME IInv, NEW r \in Requests, SameBook,
           \/ ReceiveRegister(r) \/ ReceiveLogin(r) \/ ReceiveCallback(r)
           \/ ReceiveGuarded(r) \/ RejectInsert(r)
           \/ VerifyPassword(r) \/ RefuseLogin(r)
           \/ GetGoogleUserBySubject(r) \/ Finish(r) \/ UpsertGoogleUserByEmail(r)
           \/ LinkGoogleIdentity(r)
           \/ Expire(r) \/ Admit(r) \/ TurnAway(r) \/ Fail(r)
    PROVE  bookVars' = bookVars
<1>1. UNCHANGED users
    BY DEF ReceiveRegister, ReceiveLogin, ReceiveCallback, ReceiveGuarded, Received,
        RejectInsert, VerifyPassword, RefuseLogin, GetGoogleUserBySubject, Finish,
        UpsertGoogleUserByEmail, LinkGoogleIdentity, Expire, Admit, TurnAway, Fail,
        users
<1>2. QED
    BY <1>1 DEF SameBook, bookVars, users

LEMMA StepSimulates == IInv /\ [Next]_vars => [Book!Next]_bookVars
<1> SUFFICES ASSUME IInv, [Next]_vars
             PROVE  Book!Next \/ bookVars' = bookVars
    BY DEF bookVars
<1>1. ASSUME NEW r \in Requests, CreatePasswordUser(r) \/ CreateUnacknowledged(r)
      PROVE  Book!Next
    <2>1. SameBook
        BY <1>1, QuietSteps
    <2>2. QED
        BY <1>1, <2>1, RegisterSimulates DEF CreatePasswordUser, CreateUnacknowledged
<1>2. ASSUME NEW r \in Requests, Commit(r) \/ CommitUnacknowledged(r)
      PROVE  Book!Next
    <2>1. SameBook
        BY <1>2, QuietSteps
    <2>2. QED
        BY <1>2, <2>1, CommitSimulates DEF Commit, CommitUnacknowledged
<1>3. ASSUME NEW r \in Requests,
             \/ ReceiveRegister(r) \/ ReceiveLogin(r) \/ ReceiveCallback(r)
             \/ ReceiveGuarded(r) \/ RejectInsert(r)
             \/ VerifyPassword(r) \/ RefuseLogin(r)
             \/ GetGoogleUserBySubject(r) \/ Finish(r) \/ UpsertGoogleUserByEmail(r)
             \/ LinkGoogleIdentity(r)
             \/ Expire(r) \/ Admit(r) \/ TurnAway(r) \/ Fail(r)
      PROVE  bookVars' = bookVars
    <2>1. SameBook
        BY <1>3, QuietSteps
    <2>2. QED
        BY <1>3, <2>1, QuietStepsStutter
<1>4. CASE Crash
    BY <1>4 DEF Crash, body, users, Issued, bookSessions, bookVars
<1>5. CASE UNCHANGED vars
    BY <1>5 DEF vars, body, users, Issued, bookSessions, bookVars
<1>6. QED
    BY <1>1, <1>2, <1>3, <1>4, <1>5, SessionSimulates, LogoutSimulates
    DEF Next, Served

LEMMA InitSimulates == Init => Book!Init
BY DEF Init, Book!Init, Issued

\* Accounts, passwords, links and sessions evolve as in AccountBook: accounts
\* keep their password and link for good, a session begins once, for an account,
\* and ends for good, whatever requests, failures and crashes intervene.
THEOREM ImplementsBook == Spec => BookSpec
<1>1. IInv /\ [Next]_vars => [Book!Next]_bookVars
    BY StepSimulates
<1>2. QED
    BY InitSimulates, Invariance, <1>1, PTL
    DEF Spec, BookSpec, Book!Spec, bookVars, bookSessions

\* What an account is stays: it is not deleted, its password is not changed, none
\* is added to an account without one, and a Google user's link stays as it is.
AccountsKept ==
    /\ accounts \subseteq accounts'
    /\ \A e \in accounts : hash'[e] = hash[e]
    /\ \A s \in Subjects : links[s] # None => links'[s] = links[s]

\* Nobody takes over an account by registering its email, nor by signing in with
\* Google while another sign-in creates or links it: AccountBook has no such step.
THEOREM AccountsAreKept == Spec => [][AccountsKept]_vars
<1>1. IInv /\ [Next]_vars => AccountsKept
    <2> SUFFICES ASSUME IInv, [Next]_vars PROVE AccountsKept
        OBVIOUS
    <2>1. hash \in [Emails -> Requests \cup {None}] /\ accounts \subseteq Emails
          /\ links \in [Subjects -> Emails \cup {None}]
        BY DEF IInv, TypeOK
    <2>2. CASE bookVars' = bookVars
        BY <2>2 DEF bookVars, AccountsKept
    <2>3. ASSUME NEW e \in Emails, NEW p \in Requests, Book!SignUp(e, p) PROVE AccountsKept
        BY <2>1, <2>3 DEF Book!SignUp, AccountsKept
    <2>4. ASSUME NEW s \in Subjects, NEW e \in Emails, Book!SignUpWithGoogle(s, e)
          PROVE  AccountsKept
        BY <2>1, <2>4 DEF Book!SignUpWithGoogle, AccountsKept
    <2>5. ASSUME NEW t \in Requests, NEW e \in Emails, Book!Issue(t, e) PROVE AccountsKept
        BY <2>5 DEF Book!Issue, AccountsKept
    <2>6. ASSUME NEW t \in Requests, Book!End(t) PROVE AccountsKept
        BY <2>6 DEF Book!End, AccountsKept
    <2>7. QED
        BY <2>2, <2>3, <2>4, <2>5, <2>6, StepSimulates DEF Book!Next
<1>2. QED
    BY <1>1, Invariance, PTL DEF Spec
=============================================================================
