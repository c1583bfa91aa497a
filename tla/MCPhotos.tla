------------------------------ MODULE MCPhotos ------------------------------
(* Instances of Photos for TLC. *)
EXTENDS Photos, TLC

CONSTANTS u1, u2, d1, d2, main, second

TwoUploads == {u1, u2}
TwoDeletes == {d1, d2}
TwoSlots == {main, second}

\* The local store as it comes, the local store behind a path, and a bucket that
\* is published under a path.
Local == [driver |-> "local", host |-> "localhost:8080", path |-> <<>>]
Behind == [driver |-> "local", host |-> "localhost:8080", path |-> <<"api">>]
Bucket == [driver |-> "r2", host |-> "cdn", path |-> <<"photos">>]
ThreeStores == {Local, Behind, Bucket}

\* Uploads differ in nothing but their name, and so do deletes and slots.
Symmetric ==
    Permutations(TwoUploads) \cup Permutations(TwoDeletes) \cup Permutations(TwoSlots)
=============================================================================
