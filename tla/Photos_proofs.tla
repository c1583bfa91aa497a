--------------------------- MODULE Photos_proofs ---------------------------
(***************************************************************************)
(* Theorems about Photos, for any sets of slots and requests.              *)
(***************************************************************************)
EXTENDS Photos, TLAPS

\* What a request may have put where, by the point it has reached.
StepInv ==
    /\ \A r \in Uploads :
          /\ pc[r] # "delete"
          /\ pc[r] = "compensate" => r \in faulty
          /\ r \in unconfirmed => r \in faulty /\ pc[r] \in {"compensate", "done"}
          /\ pc[r] = "upsert" => r \in objects
          /\ r \in objects => pc[r] \notin {"idle", "read", "put"}
    /\ \A r \in Deletes : pc[r] \notin UploadSteps
    /\ \A r \in Requests : pc[r] \in {"idle", "read", "delete"} => old[r] = None

Finished(o) == pc[o] \in {"remove", "compensate", "done"}

\* A url is in at most its upload's own slot, and only after the upsert; with
\* its object, unless the upsert went unconfirmed.
RowInv ==
    \A s \in Slots : row[s] # None =>
        /\ slot[row[s]] = s
        /\ Finished(row[s])
        /\ pc[row[s]] = "compensate" => row[s] \in unconfirmed
        /\ successor[row[s]] = None
        /\ row[s] \in objects \/ row[s] \in unconfirmed

\* A url was in the row before it was taken out of it.
SuccessorInv == \A o \in Uploads : successor[o] # None => Finished(o)

\* What a request read is still in its row or was taken out of it, by another
\* request or, once it is about to remove it, possibly by itself.
OldInv ==
    \A r \in Requests : old[r] # None =>
        /\ Finished(old[r])
        /\ row[slot[r]] = old[r] \/ successor[old[r]] # None
        /\ pc[r] = "remove" => successor[old[r]] # None

\* The configurations under which r cannot remove the object o.
Elsewhere(r, o) ==
    store[r] # store[o] \/ (store[o].driver = "local" /\ store[o].path # <<>>)

\* Why an object is in the store.
ObjectInv ==
    \A o \in objects :
        \/ \E s \in Slots : row[s] = o
        \/ o \in faulty
        \/ pc[o] = "upsert"
        \/ /\ successor[o] # None
           /\ \/ successor[o] \in faulty
              \/ old[successor[o]] # o
              \/ pc[successor[o]] = "remove"
              \/ Elsewhere(successor[o], o)

IInv ==
    /\ TypeOK
    /\ StepInv
    /\ RowInv
    /\ SuccessorInv
    /\ OldInv
    /\ ObjectInv

-----------------------------------------------------------------------------
(* Keys and urls.                                                          *)

\* Only the object of the url that was read is removed.
LEMMA ReachedIsOld == \A r \in Requests : \A o \in Reached(r) : o = old[r]
BY DEF Reached

\* A store reads the key of its own urls, but for the path of a local one.
LEMMA OwnUrlsAreRead ==
    ASSUME TypeOK, NEW r \in Requests, old[r] # None, old[r] \notin Reached(r)
    PROVE  Elsewhere(r, old[r])
<1>1. SUFFICES ASSUME store[r] = store[old[r]],
                      store[old[r]].driver = "local" => store[old[r]].path = <<>>
               PROVE  old[r] \in Reached(r)
    BY DEF Elsewhere
<1>2. old[r] \in Uploads /\ old[r] \in Requests
    BY DEF TypeOK, Urls, Requests
<1>3. store[old[r]].driver \in {"local", "r2"}
    BY <1>2, StoresAssumption DEF TypeOK
<1>4. Append(<<>>, "uploads") = <<"uploads">>
    OBVIOUS
<1>5. CASE store[old[r]].driver = "local"
    BY <1>1, <1>4, <1>5 DEF Reached, KeyFromURL, LocalKeyFromURL, R2KeyFromURL, Prefix
<1>6. CASE store[old[r]].driver = "r2"
    BY <1>1, <1>6 DEF Reached, KeyFromURL, LocalKeyFromURL, R2KeyFromURL, Prefix
<1> QED
    BY <1>3, <1>5, <1>6

-----------------------------------------------------------------------------
(* The invariant is inductive.                                             *)

\* No step leaves the types.
LEMMA TypeOKNext == TypeOK /\ StepInv /\ [Next]_vars => TypeOK'
<1> SUFFICES ASSUME TypeOK, StepInv, [Next]_vars
             PROVE  TypeOK'
    OBVIOUS
<1> USE RequestsAssumption DEF Requests, Urls, UploadSteps, Goto, TypeOK, StepInv
<1>1. ASSUME NEW r \in Requests, Receive(r)
      PROVE  TypeOK'
    BY <1>1 DEF Receive, history
<1>2. ASSUME NEW r \in Requests, ReadOld(r) \/ ReadOldFails(r)
      PROVE  TypeOK'
    BY <1>2 DEF ReadOld, ReadOldFails, history
<1>3. ASSUME NEW r \in Requests, Put(r) \/ PutFails(r)
      PROVE  TypeOK'
    BY <1>3 DEF Put, PutFails, history
<1>4. ASSUME NEW r \in Requests, UpsertProfilePhoto(r)
      PROVE  TypeOK'
    BY <1>4 DEF UpsertProfilePhoto, Replace
<1>5. ASSUME NEW r \in Requests, UpsertFails(r)
      PROVE  TypeOK'
    BY <1>5 DEF UpsertFails, Replace
<1>6. ASSUME NEW r \in Requests, Compensate(r)
      PROVE  TypeOK'
    BY <1>6 DEF Compensate, history
<1>7. ASSUME NEW r \in Requests, RemoveOld(r)
      PROVE  TypeOK'
    BY <1>7, ReachedIsOld DEF RemoveOld, history
<1>8. ASSUME NEW r \in Requests, RemoveOldFails(r)
      PROVE  TypeOK'
    BY <1>8, ReachedIsOld DEF RemoveOldFails
<1>9. ASSUME NEW r \in Requests, DeleteRow(r)
      PROVE  TypeOK'
    BY <1>9 DEF DeleteRow, Replace
<1>10. ASSUME NEW r \in Requests, DeleteRowFails(r)
      PROVE  TypeOK'
    BY <1>10 DEF DeleteRowFails, Replace
<1>11. CASE Crash
    BY <1>11 DEF Crash, InFlight
<1>12. CASE UNCHANGED vars
    BY <1>12 DEF vars, history
<1>13. QED
    BY <1>1, <1>2, <1>3, <1>4, <1>5, <1>6, <1>7, <1>8, <1>9, <1>10, <1>11, <1>12
    DEF Next, Handle, Served

\* No step gives a request something it cannot have at its point.
LEMMA StepInvNext ==
    TypeOK /\ StepInv /\ RowInv /\ OldInv /\ [Next]_vars => StepInv'
<1> SUFFICES ASSUME TypeOK, StepInv, RowInv, OldInv, [Next]_vars
             PROVE  StepInv'
    OBVIOUS
<1> USE RequestsAssumption DEF Requests, Urls, UploadSteps, Goto, TypeOK,
        StepInv, RowInv, OldInv, Finished
<1>1. ASSUME NEW r \in Requests, Receive(r)
      PROVE  StepInv'
    BY <1>1 DEF Receive, history
<1>2. ASSUME NEW r \in Requests, ReadOld(r) \/ ReadOldFails(r)
      PROVE  StepInv'
    BY <1>2 DEF ReadOld, ReadOldFails, history
<1>3. ASSUME NEW r \in Requests, Put(r) \/ PutFails(r)
      PROVE  StepInv'
    BY <1>3 DEF Put, PutFails, history
<1>4. ASSUME NEW r \in Requests, UpsertProfilePhoto(r)
      PROVE  StepInv'
    BY <1>4 DEF UpsertProfilePhoto, Replace
<1>5. ASSUME NEW r \in Requests, UpsertFails(r)
      PROVE  StepInv'
    BY <1>5 DEF UpsertFails, Replace
<1>6. ASSUME NEW r \in Requests, Compensate(r)
      PROVE  StepInv'
    BY <1>6 DEF Compensate, history
<1>7. ASSUME NEW r \in Requests, RemoveOld(r)
      PROVE  StepInv'
    BY <1>7, ReachedIsOld DEF RemoveOld, history
<1>8. ASSUME NEW r \in Requests, RemoveOldFails(r)
      PROVE  StepInv'
    BY <1>8, ReachedIsOld DEF RemoveOldFails
<1>9. ASSUME NEW r \in Requests, DeleteRow(r)
      PROVE  StepInv'
    BY <1>9 DEF DeleteRow, Replace
<1>10. ASSUME NEW r \in Requests, DeleteRowFails(r)
      PROVE  StepInv'
    BY <1>10 DEF DeleteRowFails, Replace
<1>11. CASE Crash
    BY <1>11 DEF Crash, InFlight
<1>12. CASE UNCHANGED vars
    BY <1>12 DEF vars, history
<1>13. QED
    BY <1>1, <1>2, <1>3, <1>4, <1>5, <1>6, <1>7, <1>8, <1>9, <1>10, <1>11, <1>12
    DEF Next, Handle, Served

\* Rows go on showing urls of their own slot that have an object.
LEMMA RowInvNext ==
    TypeOK /\ StepInv /\ RowInv /\ SuccessorInv /\ OldInv
    /\ [Next]_vars => RowInv'
<1> SUFFICES ASSUME TypeOK, StepInv, RowInv, SuccessorInv, OldInv, [Next]_vars
             PROVE  RowInv'
    OBVIOUS
<1> USE RequestsAssumption DEF Requests, Urls, UploadSteps, Goto, TypeOK,
        StepInv, RowInv, SuccessorInv, OldInv, Finished
<1>1. ASSUME NEW r \in Requests, Receive(r)
      PROVE  RowInv'
    BY <1>1 DEF Receive, history
<1>2. ASSUME NEW r \in Requests, ReadOld(r) \/ ReadOldFails(r)
      PROVE  RowInv'
    BY <1>2 DEF ReadOld, ReadOldFails, history
<1>3. ASSUME NEW r \in Requests, Put(r) \/ PutFails(r)
      PROVE  RowInv'
    BY <1>3 DEF Put, PutFails, history
<1>4. ASSUME NEW r \in Requests, UpsertProfilePhoto(r)
      PROVE  RowInv'
    BY <1>4 DEF UpsertProfilePhoto, Replace
<1>5. ASSUME NEW r \in Requests, UpsertFails(r)
      PROVE  RowInv'
    BY <1>5 DEF UpsertFails, Replace
<1>6. ASSUME NEW r \in Requests, Compensate(r)
      PROVE  RowInv'
    BY <1>6 DEF Compensate, history
<1>7. ASSUME NEW r \in Requests, RemoveOld(r)
      PROVE  RowInv'
    BY <1>7, ReachedIsOld DEF RemoveOld, history
<1>8. ASSUME NEW r \in Requests, RemoveOldFails(r)
      PROVE  RowInv'
    BY <1>8, ReachedIsOld DEF RemoveOldFails
<1>9. ASSUME NEW r \in Requests, DeleteRow(r)
      PROVE  RowInv'
    BY <1>9 DEF DeleteRow, Replace
<1>10. ASSUME NEW r \in Requests, DeleteRowFails(r)
      PROVE  RowInv'
    BY <1>10 DEF DeleteRowFails, Replace
<1>11. CASE Crash
    BY <1>11 DEF Crash, InFlight
<1>12. CASE UNCHANGED vars
    BY <1>12 DEF vars, history
<1>13. QED
    BY <1>1, <1>2, <1>3, <1>4, <1>5, <1>6, <1>7, <1>8, <1>9, <1>10, <1>11, <1>12
    DEF Next, Handle, Served

\* Only a url that was in a row is replaced.
LEMMA SuccessorInvNext ==
    TypeOK /\ StepInv /\ RowInv /\ SuccessorInv /\ [Next]_vars => SuccessorInv'
<1> SUFFICES ASSUME TypeOK, StepInv, RowInv, SuccessorInv, [Next]_vars
             PROVE  SuccessorInv'
    OBVIOUS
<1> USE RequestsAssumption DEF Requests, Urls, UploadSteps, Goto, TypeOK,
        StepInv, RowInv, SuccessorInv, Finished
<1>1. ASSUME NEW r \in Requests, Receive(r)
      PROVE  SuccessorInv'
    BY <1>1 DEF Receive, history
<1>2. ASSUME NEW r \in Requests, ReadOld(r) \/ ReadOldFails(r)
      PROVE  SuccessorInv'
    BY <1>2 DEF ReadOld, ReadOldFails, history
<1>3. ASSUME NEW r \in Requests, Put(r) \/ PutFails(r)
      PROVE  SuccessorInv'
    BY <1>3 DEF Put, PutFails, history
<1>4. ASSUME NEW r \in Requests, UpsertProfilePhoto(r)
      PROVE  SuccessorInv'
    BY <1>4 DEF UpsertProfilePhoto, Replace
<1>5. ASSUME NEW r \in Requests, UpsertFails(r)
      PROVE  SuccessorInv'
    BY <1>5 DEF UpsertFails, Replace
<1>6. ASSUME NEW r \in Requests, Compensate(r)
      PROVE  SuccessorInv'
    BY <1>6 DEF Compensate, history
<1>7. ASSUME NEW r \in Requests, RemoveOld(r)
      PROVE  SuccessorInv'
    BY <1>7, ReachedIsOld DEF RemoveOld, history
<1>8. ASSUME NEW r \in Requests, RemoveOldFails(r)
      PROVE  SuccessorInv'
    BY <1>8, ReachedIsOld DEF RemoveOldFails
<1>9. ASSUME NEW r \in Requests, DeleteRow(r)
      PROVE  SuccessorInv'
    BY <1>9 DEF DeleteRow, Replace
<1>10. ASSUME NEW r \in Requests, DeleteRowFails(r)
      PROVE  SuccessorInv'
    BY <1>10 DEF DeleteRowFails, Replace
<1>11. CASE Crash
    BY <1>11 DEF Crash, InFlight
<1>12. CASE UNCHANGED vars
    BY <1>12 DEF vars, history
<1>13. QED
    BY <1>1, <1>2, <1>3, <1>4, <1>5, <1>6, <1>7, <1>8, <1>9, <1>10, <1>11, <1>12
    DEF Next, Handle, Served

\* What was read before stays in its row until a request takes it out.
LEMMA OldInvNext ==
    TypeOK /\ StepInv /\ RowInv /\ SuccessorInv /\ OldInv
    /\ [Next]_vars => OldInv'
<1> SUFFICES ASSUME TypeOK, StepInv, RowInv, SuccessorInv, OldInv, [Next]_vars
             PROVE  OldInv'
    OBVIOUS
<1> USE RequestsAssumption DEF Requests, Urls, UploadSteps, Goto, TypeOK,
        StepInv, RowInv, SuccessorInv, OldInv, Finished
<1>1. ASSUME NEW r \in Requests, Receive(r)
      PROVE  OldInv'
    BY <1>1 DEF Receive, history
<1>2. ASSUME NEW r \in Requests, ReadOld(r) \/ ReadOldFails(r)
      PROVE  OldInv'
    BY <1>2 DEF ReadOld, ReadOldFails, history
<1>3. ASSUME NEW r \in Requests, Put(r) \/ PutFails(r)
      PROVE  OldInv'
    BY <1>3 DEF Put, PutFails, history
<1>4. ASSUME NEW r \in Requests, UpsertProfilePhoto(r)
      PROVE  OldInv'
    BY <1>4 DEF UpsertProfilePhoto, Replace
<1>5. ASSUME NEW r \in Requests, UpsertFails(r)
      PROVE  OldInv'
    BY <1>5 DEF UpsertFails, Replace
<1>6. ASSUME NEW r \in Requests, Compensate(r)
      PROVE  OldInv'
    BY <1>6 DEF Compensate, history
<1>7. ASSUME NEW r \in Requests, RemoveOld(r)
      PROVE  OldInv'
    BY <1>7, ReachedIsOld DEF RemoveOld, history
<1>8. ASSUME NEW r \in Requests, RemoveOldFails(r)
      PROVE  OldInv'
    BY <1>8, ReachedIsOld DEF RemoveOldFails
<1>9. ASSUME NEW r \in Requests, DeleteRow(r)
      PROVE  OldInv'
    BY <1>9 DEF DeleteRow, Replace
<1>10. ASSUME NEW r \in Requests, DeleteRowFails(r)
      PROVE  OldInv'
    BY <1>10 DEF DeleteRowFails, Replace
<1>11. CASE Crash
    BY <1>11 DEF Crash, InFlight
<1>12. CASE UNCHANGED vars
    BY <1>12 DEF vars, history
<1>13. QED
    BY <1>1, <1>2, <1>3, <1>4, <1>5, <1>6, <1>7, <1>8, <1>9, <1>10, <1>11, <1>12
    DEF Next, Handle, Served

\* An object in the store always has its reason.
LEMMA ObjectInvNext ==
    TypeOK /\ StepInv /\ RowInv /\ SuccessorInv /\ OldInv /\ ObjectInv
    /\ [Next]_vars => ObjectInv'
<1> SUFFICES ASSUME TypeOK, StepInv, RowInv, SuccessorInv, OldInv, ObjectInv,
                 [Next]_vars
             PROVE  ObjectInv'
    OBVIOUS
<1> USE RequestsAssumption DEF Requests, Urls, UploadSteps, Goto, TypeOK,
        StepInv, RowInv, SuccessorInv, OldInv, ObjectInv, Finished, Elsewhere
<1>1. ASSUME NEW r \in Requests, Receive(r)
      PROVE  ObjectInv'
    BY <1>1 DEF Receive, history
<1>2. ASSUME NEW r \in Requests, ReadOld(r) \/ ReadOldFails(r)
      PROVE  ObjectInv'
    BY <1>2 DEF ReadOld, ReadOldFails, history
<1>3. ASSUME NEW r \in Requests, Put(r) \/ PutFails(r)
      PROVE  ObjectInv'
    BY <1>3 DEF Put, PutFails, history
<1>4. ASSUME NEW r \in Requests, UpsertProfilePhoto(r)
      PROVE  ObjectInv'
    BY <1>4 DEF UpsertProfilePhoto, Replace
<1>5. ASSUME NEW r \in Requests, UpsertFails(r)
      PROVE  ObjectInv'
    BY <1>5 DEF UpsertFails, Replace
<1>6. ASSUME NEW r \in Requests, Compensate(r)
      PROVE  ObjectInv'
    BY <1>6 DEF Compensate, history
<1>7. ASSUME NEW r \in Requests, RemoveOld(r)
      PROVE  ObjectInv'
    <2>1. ASSUME old[r] # None, old[r] \notin Reached(r)
          PROVE  Elsewhere(r, old[r])
        BY <2>1, OwnUrlsAreRead
    <2>2. \A q \in Requests, o \in Uploads : Elsewhere(q, o)' <=> Elsewhere(q, o)
        BY <1>7 DEF RemoveOld, Elsewhere
    <2> QED
        BY <1>7, <2>1, <2>2, ReachedIsOld DEF RemoveOld, history
<1>8. ASSUME NEW r \in Requests, RemoveOldFails(r)
      PROVE  ObjectInv'
    BY <1>8 DEF RemoveOldFails
<1>9. ASSUME NEW r \in Requests, DeleteRow(r)
      PROVE  ObjectInv'
    BY <1>9 DEF DeleteRow, Replace
<1>10. ASSUME NEW r \in Requests, DeleteRowFails(r)
      PROVE  ObjectInv'
    BY <1>10 DEF DeleteRowFails, Replace
<1>11. CASE Crash
    BY <1>11 DEF Crash, InFlight
<1>12. CASE UNCHANGED vars
    BY <1>12 DEF vars, history
<1>13. QED
    BY <1>1, <1>2, <1>3, <1>4, <1>5, <1>6, <1>7, <1>8, <1>9, <1>10, <1>11, <1>12
    DEF Next, Handle, Served

\* The inductive invariant holds in every state.
LEMMA Invariance == Spec => []IInv
<1>1. Init => IInv
    BY RequestsAssumption DEF Init, history, IInv, TypeOK, StepInv, RowInv,
       SuccessorInv,
       OldInv, ObjectInv, Finished, Requests, Urls, UploadSteps
<1>2. IInv /\ [Next]_vars => IInv'
    BY TypeOKNext, StepInvNext, RowInvNext, SuccessorInvNext, OldInvNext,
       ObjectInvNext
    DEF IInv
<1>3. QED
    BY <1>1, <1>2, PTL DEF Spec

-----------------------------------------------------------------------------
(* Theorems.                                                               *)

\* The requests, the rows and the objects keep their types.
THEOREM TypeCorrect == Spec => []TypeOK
<1>1. IInv => TypeOK
    BY DEF IInv
<1>2. QED
    BY <1>1, Invariance, PTL

\* No interleaving of uploads and deletes, no failure and no crash leaves a row
\* without its object, but an upsert applied and reported failed.
THEOREM RowsHaveObjects == Spec => []DanglingOnlyUnconfirmed
<1>1. IInv => DanglingOnlyUnconfirmed
    BY DEF IInv, RowInv, DanglingOnlyUnconfirmed
<1>2. QED
    BY <1>1, Invariance, PTL

\* Every object left without a row is due to a failure, or to a replacement
\* that had not read it.
THEOREM OrphansHaveCauses == Spec => []OrphansExplained
<1>1. IInv => OrphansExplained
    <2> SUFFICES ASSUME IInv, \A r \in Requests : pc[r] \in {"idle", "done"},
                        NEW o \in objects
                 PROVE  \/ \E s \in Slots : row[s] = o
                        \/ o \in faulty
                        \/ /\ successor[o] # None
                           /\ \/ successor[o] \in faulty
                              \/ old[successor[o]] # o
                              \/ store[successor[o]] # store[o]
                              \/ store[o].driver = "local" /\ store[o].path # <<>>
        BY DEF OrphansExplained
    <2>1. o \in Requests /\ (successor[o] # None => successor[o] \in Requests)
        BY DEF IInv, TypeOK, Requests
    <2>2. QED
        BY <2>1 DEF IInv, ObjectInv, Elsewhere
<1>2. QED
    BY <1>1, Invariance, PTL

\* No row ever shows a url again that an upload replaced or a deletion removed.
THEOREM Replacement == Spec => ReplacedForGood
<1> DEFINE NotShownAgain ==
        \A o \in Uploads : successor[o] # None => \A s \in Slots : row'[s] # o
<1>1. IInv /\ IInv' /\ [Next]_vars => [NotShownAgain]_vars
    <2> SUFFICES ASSUME IInv, IInv', [Next]_vars, NEW o \in Uploads,
                     successor[o] # None,
                        NEW s \in Slots
                 PROVE  row'[s] # o
        OBVIOUS
    <2>1. successor'[o] # None
        <3> USE RequestsAssumption DEF IInv, TypeOK, Requests, Urls
        <3>1. ASSUME NEW r \in Requests, NEW url, Replace(r, url)
              PROVE  successor'[o] # None
            BY <3>1 DEF Replace
        <3>2. CASE UNCHANGED successor
            BY <3>2
        <3>3. QED
            BY <3>1, <3>2 DEF Next, Handle, Receive, ReadOld, ReadOldFails, Put,
               PutFails,
               UpsertProfilePhoto, UpsertFails, Compensate, RemoveOld,
                  RemoveOldFails,
               DeleteRow, DeleteRowFails, Crash, Served, vars, history
    <2>2. QED
        BY <2>1, RequestsAssumption DEF IInv, RowInv
<1>2. QED
    BY <1>1, Invariance, PTL DEF Spec, ReplacedForGood

\* No two rows show the same object, be it of one user or of two.
RowsAreOwn ==
    \A s, t \in Slots : row[s] = row[t] /\ row[s] # None => s = t

\* What uploadProfilePhoto and deleteProfilePhoto remove for one slot is never the
\* object of another one.
THEOREM RowsShareNothing == Spec => []RowsAreOwn
<1>1. IInv => RowsAreOwn
    BY DEF IInv, RowInv, RowsAreOwn
<1>2. QED
    BY <1>1, Invariance, PTL

-----------------------------------------------------------------------------
(* One request per slot at a time.                                         *)

\* Nothing fails, the requests of a slot do not overlap, and all are served with
\* one store, not a local one behind a path.
Calm ==
    /\ faulty = {}
    /\ \A q, r \in InFlight : slot[q] = slot[r] => q = r
    /\ \A q, r \in Requests : ~ Elsewhere(q, r)

\* What an upload read is still there when it writes, and a request that took a
\* url out of its row knows it.
CalmInv ==
    /\ \A r \in Requests : pc[r] \in {"put", "upsert"} => old[r] = row[slot[r]]
    /\ \A o \in Uploads : successor[o] # None =>
          old[successor[o]] = o /\ pc[successor[o]] \in {"remove", "done"}

LEMMA CalmInvNext ==
    TypeOK /\ StepInv /\ RowInv /\ CalmInv /\ Calm /\ Calm' /\ [Next]_vars => CalmInv'
<1> SUFFICES ASSUME TypeOK, StepInv, RowInv, CalmInv, Calm, Calm', [Next]_vars
             PROVE  CalmInv'
    OBVIOUS
<1> USE RequestsAssumption DEF Requests, Urls, UploadSteps, TypeOK, CalmInv, Goto
<1>1. ASSUME NEW r \in Requests, Receive(r)
      PROVE  CalmInv'
    BY <1>1 DEF Receive, history
<1>2. ASSUME NEW r \in Requests, ReadOld(r)
      PROVE  CalmInv'
    BY <1>2 DEF ReadOld, history
<1>3. ASSUME NEW r \in Requests, Put(r) \/ Compensate(r) \/ RemoveOld(r)
      PROVE  CalmInv'
    BY <1>3 DEF Put, Compensate, RemoveOld, history, StepInv, Calm
<1>4. ASSUME NEW r \in Requests, pc[r] \in {"upsert", "delete"},
             NEW q \in Requests, q # r, pc[q] \in {"put", "upsert"}
      PROVE  slot[q] # slot[r]
    BY <1>4 DEF Calm, InFlight
<1>5. ASSUME NEW r \in Requests, UpsertProfilePhoto(r)
      PROVE  CalmInv'
    BY <1>4, <1>5 DEF UpsertProfilePhoto, Replace, RowInv
<1>6. ASSUME NEW r \in Requests, DeleteRow(r)
      PROVE  CalmInv'
    BY <1>4, <1>6 DEF DeleteRow, Replace, RowInv
<1>7. ASSUME NEW r \in Requests,
             \/ ReadOldFails(r) \/ PutFails(r) \/ UpsertFails(r)
             \/ RemoveOldFails(r) \/ DeleteRowFails(r)
      PROVE  CalmInv'
    BY <1>7 DEF ReadOldFails, PutFails, UpsertFails, RemoveOldFails, DeleteRowFails, Calm
<1>8. CASE Crash
    BY <1>8 DEF Crash, Calm
<1>9. CASE UNCHANGED vars
    BY <1>9 DEF vars, history
<1>10. QED
    BY <1>1, <1>2, <1>3, <1>5, <1>6, <1>7, <1>8, <1>9 DEF Next, Handle, Served

\* Where requests of a slot come one after the other and nothing fails, the table
\* and the store agree whenever no request is in flight.
StoreAgrees ==
    InFlight = {} => objects = {row[s] : s \in Slots} \ {None}

\* Hence a row without an object, or an object without a row, is always due to a
\* failed call, two requests for one slot at a time, or the stores' configuration.
THEOREM CalmStoresAgree == Spec /\ []Calm => []StoreAgrees
<1>1. Init => CalmInv
    BY RequestsAssumption DEF Init, CalmInv
<1>2. IInv /\ CalmInv /\ Calm /\ Calm' /\ [Next]_vars => CalmInv'
    BY CalmInvNext DEF IInv
<1>3. IInv /\ CalmInv /\ Calm => StoreAgrees
    <2> SUFFICES ASSUME IInv, CalmInv, Calm, InFlight = {}
                 PROVE  objects = {row[s] : s \in Slots} \ {None}
        BY DEF StoreAgrees
    <2>1. ASSUME NEW s \in Slots, row[s] # None PROVE row[s] \in objects
        BY <2>1 DEF IInv, TypeOK, Urls, RowInv, StepInv, Calm
    <2>2. ASSUME NEW o \in objects PROVE \E s \in Slots : row[s] = o
        <3>1. /\ o \in Uploads /\ o \in Requests /\ None \notin Requests
              /\ successor[o] # None => successor[o] \in Requests
            BY RequestsAssumption DEF IInv, TypeOK, Requests
        <3>2. \A r \in Requests : pc[r] \in {"idle", "done"}
            BY DEF InFlight
        <3>3. QED
            BY <3>1, <3>2 DEF IInv, ObjectInv, Calm, CalmInv
    <2>3. None \notin objects
        BY RequestsAssumption DEF IInv, TypeOK
    <2>4. QED
        BY <2>1, <2>2, <2>3
<1>4. QED
    BY <1>1, <1>2, <1>3, Invariance, PTL DEF Spec
=============================================================================
