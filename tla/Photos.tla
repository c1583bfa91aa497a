------------------------------- MODULE Photos -------------------------------
(***************************************************************************)
(* PUT and DELETE /v1/profile/photos/{position}: Server.uploadProfilePhoto *)
(* and Server.deleteProfilePhoto, on table profile_photos and the object   *)
(* store.  The two are changed one after the other, with no transaction    *)
(* around them; what one call leaves to be removed is what it read before. *)
(*                                                                         *)
(* ProfilePhotoKey draws 16 random bytes, so the object an upload puts is  *)
(* named by the upload, and so is its url: the base of the store that put  *)
(* the object, and its key.  Reading the key back is up to the store of    *)
(* the process that serves the request which removes the object.           *)
(***************************************************************************)
EXTENDS Sequences

CONSTANTS
    Slots,      \* pairs of a user and a position
    Uploads,    \* upload requests that passed the checks on the file
    Deletes,    \* delete requests
    Stores,     \* configurations of the store: the driver, the host and the
                \* segments of the path of the public base url
    None        \* no url

ASSUME RequestsAssumption ==
    Uploads \cap Deletes = {} /\ None \notin Uploads \cup Deletes

ASSUME StoresAssumption ==
    Stores \subseteq [driver : {"local", "r2"}, host : STRING, path : Seq(STRING)]

Requests == Uploads \cup Deletes

VARIABLES
    pc,         \* pc[r]: the call the handler makes next
    slot,       \* slot[r]: the user and the position of the request
    store,      \* store[r]: the store of the process that serves r
    old,        \* old[r]: oldPhoto.Url, the url the request saw in the row
    row,        \* row[s]: the url in the row of s, None when there is no row
    objects,    \* keys of the objects in the store
    faulty,     \* history: requests one of whose calls failed, or that crashed
    unconfirmed, \* history: uploads whose upsert was applied and reported failed
    successor   \* history, successor[o]: the request that took url o out of a row

history == <<faulty, unconfirmed, successor>>
vars == <<pc, slot, store, old, row, objects, history>>

UploadSteps == {"read", "put", "upsert", "compensate"}
InFlight == {r \in Requests : pc[r] \notin {"idle", "done"}}

Init ==
    /\ pc = [r \in Requests |-> "idle"]
    /\ slot \in [Requests -> Slots]
    /\ store \in [Requests -> Stores]
    /\ old = [r \in Requests |-> None]
    /\ row = [s \in Slots |-> None]
    /\ objects = {}
    /\ faulty = {}
    /\ unconfirmed = {}
    /\ successor = [o \in Uploads |-> None]

Goto(r, l) == pc' = [pc EXCEPT ![r] = l]

\* The url the row of r's slot holds goes, and r is the request that took it.
Replace(r, url) ==
    LET s == slot[r] IN
    /\ row' = [row EXCEPT ![s] = url]
    /\ successor' = IF row[s] = None THEN successor ELSE [successor EXCEPT ![row[s]] = r]

-----------------------------------------------------------------------------
(* The stores: the url Put gives, and whether KeyFromURL of the store of r *)
(* gives the key of o back for it.                                         *)

\* The path of the url before the key: LocalStore serves under /uploads/.
Prefix(o) ==
    IF store[o].driver = "local" THEN Append(store[o].path, "uploads") ELSE store[o].path

KeyUnderRoot(r, o) == \* the path of the base not taken off
    /\ store[o].host = store[r].host
    /\ Prefix(o) = IF store[r].driver = "local" THEN <<"uploads">> ELSE <<>>

\* The local store takes its own host and none, any if its base is empty, and
\* knows /uploads/ at the root only.
LocalKeyFromURL(base, o) ==
    /\ store[o].host \in {"", base.host} \/ (base.host = "" /\ base.path = <<>>)
    /\ Prefix(o) = <<"uploads">>

R2KeyFromURL(base, o) == store[o].host = base.host /\ Prefix(o) = base.path

KeyFromURL(r, o) ==
    \/ store[r].driver = "local" /\ LocalKeyFromURL(store[r], o)
    \/ store[r].driver = "r2" /\ R2KeyFromURL(store[r], o)

\* What removeProfilePhotoObject takes away: nothing without the key, nor from
\* the store of another driver.
Reached(r) ==
    {o \in {old[r]} : KeyFromURL(r, o) /\ store[r].driver = store[o].driver}

-----------------------------------------------------------------------------
(* uploadProfilePhoto.                                                     *)

\* GetProfilePhotoByPosition.  Its error, no row or another one, only means
\* that there is nothing to remove.
ReadOld(r) ==
    /\ pc[r] = "read"
    /\ old' = [old EXCEPT ![r] = row[slot[r]]]
    /\ Goto(r, "put")
    /\ UNCHANGED <<slot, store, row, objects, history>>

ReadOldFails(r) ==
    /\ pc[r] = "read"
    /\ faulty' = faulty \cup {r}
    /\ Goto(r, "put")
    /\ UNCHANGED <<slot, store, old, row, objects, unconfirmed, successor>>

PutUnderSlot(r) == \* a key without the random bytes
    /\ pc[r] = "put"
    /\ objects' = objects \cup {slot[r]}
    /\ Goto(r, "upsert")
    /\ UNCHANGED <<slot, store, old, row, history>>

Put(r) ==
    /\ pc[r] = "put"
    /\ objects' = objects \cup {r}
    /\ Goto(r, "upsert")
    /\ UNCHANGED <<slot, store, old, row, history>>

\* Nothing is removed after a failed Put, even if the object was written.
PutFails(r) ==
    /\ pc[r] = "put"
    /\ \/ objects' = objects \cup {r}
       \/ UNCHANGED objects
    /\ faulty' = faulty \cup {r}
    /\ Goto(r, "done")
    /\ UNCHANGED <<slot, store, old, row, unconfirmed, successor>>

UpsertProfilePhoto(r) ==
    /\ pc[r] = "upsert"
    /\ Replace(r, r)
    /\ Goto(r, IF old[r] = None THEN "done" ELSE "remove")
    /\ UNCHANGED <<slot, store, old, objects, faulty, unconfirmed>>

\* The statement fails, or it is applied and its answer lost.
UpsertFails(r) ==
    /\ pc[r] = "upsert"
    /\ \/ /\ Replace(r, r)
          /\ unconfirmed' = unconfirmed \cup {r}
       \/ UNCHANGED <<row, unconfirmed, successor>>
    /\ faulty' = faulty \cup {r}
    /\ Goto(r, "compensate")
    /\ UNCHANGED <<slot, store, old, objects>>

CompensateOld(r) == \* the old object removed in place of the new one
    /\ pc[r] = "compensate"
    /\ \/ objects' = objects \ {old[r]}
       \/ UNCHANGED objects
    /\ Goto(r, "done")
    /\ UNCHANGED <<slot, store, old, row, history>>

CompensateRestoring(r) == \* the url read before put back into the row
    /\ pc[r] = "compensate"
    /\ Replace(r, old[r])
    /\ objects' = objects \ {r}
    /\ Goto(r, "done")
    /\ UNCHANGED <<slot, store, old, faulty, unconfirmed>>

\* The upload's own object is removed, and the error of Delete dropped.
Compensate(r) ==
    /\ pc[r] = "compensate"
    /\ \/ objects' = objects \ {r}
       \/ UNCHANGED objects
    /\ Goto(r, "done")
    /\ UNCHANGED <<slot, store, old, row, history>>

\* removeProfilePhotoObject of what the request read; nothing is read again.
RemoveOld(r) ==
    /\ pc[r] = "remove"
    /\ objects' = objects \ Reached(r)
    /\ Goto(r, "done")
    /\ UNCHANGED <<slot, store, old, row, history>>

\* Delete fails, with the object removed or not.
RemoveOldFails(r) ==
    /\ pc[r] = "remove"
    /\ \/ objects' = objects \ Reached(r)
       \/ UNCHANGED objects
    /\ faulty' = faulty \cup {r}
    /\ Goto(r, "done")
    /\ UNCHANGED <<slot, store, old, row, unconfirmed, successor>>

-----------------------------------------------------------------------------
(* deleteProfilePhoto.                                                     *)

\* DELETE ... RETURNING reads and removes the row in one statement.
DeleteRow(r) ==
    /\ pc[r] = "delete"
    /\ old' = [old EXCEPT ![r] = row[slot[r]]]
    /\ Replace(r, None)
    /\ Goto(r, IF row[slot[r]] = None THEN "done" ELSE "remove")
    /\ UNCHANGED <<slot, store, objects, faulty, unconfirmed>>

DeleteRowFails(r) ==
    /\ pc[r] = "delete"
    /\ \/ Replace(r, None)
       \/ UNCHANGED <<row, successor>>
    /\ faulty' = faulty \cup {r}
    /\ Goto(r, "done")
    /\ UNCHANGED <<slot, store, old, objects, unconfirmed>>

-----------------------------------------------------------------------------
Receive(r) ==
    /\ pc[r] = "idle"
    /\ Goto(r, IF r \in Uploads THEN "read" ELSE "delete")
    /\ UNCHANGED <<slot, store, old, row, objects, history>>

\* The process stops in the middle of the requests it is serving.
Crash ==
    /\ InFlight # {}
    /\ pc' = [r \in Requests |-> IF r \in InFlight THEN "done" ELSE pc[r]]
    /\ faulty' = faulty \cup InFlight
    /\ UNCHANGED <<slot, store, old, row, objects, unconfirmed, successor>>

Served ==
    /\ \A r \in Requests : pc[r] = "done"
    /\ UNCHANGED vars

Handle(r) ==
    \/ ReadOld(r) \/ ReadOldFails(r)
    \/ Put(r) \/ PutFails(r)
    \/ UpsertProfilePhoto(r) \/ UpsertFails(r) \/ Compensate(r)
    \/ RemoveOld(r) \/ RemoveOldFails(r)
    \/ DeleteRow(r) \/ DeleteRowFails(r)

Next == (\E r \in Requests : Receive(r) \/ Handle(r)) \/ Crash \/ Served

Spec == Init /\ [][Next]_vars

-----------------------------------------------------------------------------
(* Properties.                                                             *)

Urls == Uploads \cup {None}

\* Type invariant of the requests, the table, the store and the history.
TypeOK ==
    /\ pc \in [Requests -> {"idle", "done", "remove", "delete"} \cup UploadSteps]
    /\ slot \in [Requests -> Slots]
    /\ store \in [Requests -> Stores]
    /\ old \in [Requests -> Urls]
    /\ row \in [Slots -> Urls]
    /\ objects \subseteq Uploads
    /\ faulty \subseteq Requests
    /\ unconfirmed \subseteq Uploads
    /\ successor \in [Uploads -> Requests \cup {None}]

\* A url in the table has its object, whatever uploads and deletes overlap or
\* crash: only an upload whose upsert took effect and was reported failed can
\* remove the object a row shows, its own.
DanglingOnlyUnconfirmed ==
    \A s \in Slots : row[s] # None => row[s] \in objects \/ row[s] \in unconfirmed

\* A photo is replaced for good: once a url has left its row, no row shows it
\* again, so that removing its object late is never wrong.
ReplacedForGood ==
    [][\A o \in Uploads : successor[o] # None => \A s \in Slots : row'[s] # o]_vars

\* Objects nobody can see are left behind only by a failure, a race or the
\* configuration: when all requests are over, such an object belongs to a faulty
\* upload, or the request that replaced it was faulty, had read the row before it
\* was there, or was served with another store than the upload, or the object is
\* in a local store whose public base url has a path.
OrphansExplained ==
    (\A r \in Requests : pc[r] \in {"idle", "done"}) =>
        \A o \in objects :
            \/ \E s \in Slots : row[s] = o
            \/ o \in faulty
            \/ /\ successor[o] # None
               /\ \/ successor[o] \in faulty
                  \/ old[successor[o]] # o
                  \/ store[successor[o]] # store[o]
                  \/ store[o].driver = "local" /\ store[o].path # <<>>
=============================================================================
