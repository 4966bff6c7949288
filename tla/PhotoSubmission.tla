--------------------------- MODULE PhotoSubmission ---------------------------
(***************************************************************************)
(* Temporary photo uploads and the requests that submit observations with  *)
(* them.  A client uploads its photos first, then submits the observation  *)
(* under a key of its own (client_submission_id) and may repeat the        *)
(* request.  At the same time a client may delete an upload, beat removes  *)
(* the expired ones, and the photos of an observation are deleted when its *)
(* signals no longer need them.  None of these locks an upload before it   *)
(* decides on its status, and the storage is no part of any transaction.   *)
(*                                                                         *)
(* Left out: the text, origin and task of a submission, which never change *)
(* between a request and its repetition, and who may upload or submit.     *)
(***************************************************************************)
EXTENDS FiniteSets

CONSTANTS
    Uploads,
    Requests,      \* every POST that submits an observation
    Keys,          \* the values of client_submission_id
    KeyOf,
    PhotosOf,      \* temporary_upload_ids of each request
    NoKey,
    NoRequest

ASSUME SubmissionAssumption ==
    /\ KeyOf \in [Requests -> Keys]
    /\ PhotosOf \in [Requests -> SUBSET Uploads]
    /\ NoKey \notin Keys
    /\ NoRequest \notin Requests

VARIABLES
    upload,     \* TemporaryUpload.status; absent before the row exists
    stored,     \* uploads whose principal and thumbnail are in storage
    expired,    \* uploads past expires_at
    media,      \* the observation whose ObservationMedia holds the upload
    author,     \* the request that created the observation of each key
    request,    \* where each request stands, or how it was answered
    deletion,   \* the DELETE request of each upload
    cleanup,    \* the transaction of cleanup_expired_uploads
    doomed      \* files a committed transaction will delete on commit

vars == <<upload, stored, expired, media, author, request, deletion, cleanup, doomed>>
submission == <<media, author, request>>

UploadStatuses  == {"absent", "validated", "linked", "deleted"}
Answers         == {"accepted", "conflict", "not_found", "error"}
RequestSteps    == {"new", "checked", "read", "died"} \cup Answers
DeletionSteps   == {"idle", "read", "erased"}
CleanupStates   == [running : BOOLEAN, todo : SUBSET Uploads, erased : SUBSET Uploads]
CleanupIdle     == [running |-> FALSE, todo |-> {}, erased |-> {}]

Init ==
    /\ upload = [u \in Uploads |-> "absent"]
    /\ stored = {}
    /\ expired = {}
    /\ media = [u \in Uploads |-> NoKey]
    /\ author = [k \in Keys |-> NoRequest]
    /\ request = [r \in Requests |-> "new"]
    /\ deletion = [u \in Uploads |-> "idle"]
    /\ cleanup = CleanupIdle
    /\ doomed = {}

(* The cleanup holds the lock of every row it has updated until it commits *)
(* or rolls back; another update of such a row waits.                      *)
Unlocked(us) == us \cap cleanup.erased = {}

MediaOf(k) == {u \in Uploads : media[u] = k}

Mark(us, status) ==
    upload' = [u \in Uploads |-> IF u \in us THEN status ELSE upload[u]]

-----------------------------------------------------------------------------
(* Uploads *)

CreateUpload(u) ==
    /\ upload[u] = "absent"
    /\ Mark({u}, "validated")
    /\ stored' = stored \cup {u}
    /\ UNCHANGED <<expired, submission, deletion, cleanup, doomed>>

(* expires_at decides nothing once an upload is linked or deleted.         *)
Expire(u) ==
    /\ upload[u] = "validated"
    /\ u \notin expired
    /\ expired' = expired \cup {u}
    /\ UNCHANGED <<upload, stored, submission, deletion, cleanup, doomed>>

(* delete_temporary_upload runs in no transaction: it reads the row,       *)
(* deletes the files and saves the row whatever it has become meanwhile.   *)
DeleteRead_AlsoLinked(u) ==
    /\ deletion[u] = "idle"
    /\ upload[u] \in {"validated", "linked"}
    /\ deletion' = [deletion EXCEPT ![u] = "read"]
    /\ UNCHANGED <<upload, stored, expired, submission, cleanup, doomed>>

DeleteRead(u) ==
    /\ deletion[u] = "idle"
    /\ upload[u] = "validated"
    /\ deletion' = [deletion EXCEPT ![u] = "read"]
    /\ UNCHANGED <<upload, stored, expired, submission, cleanup, doomed>>

DeleteErase(u) ==
    /\ deletion[u] = "read"
    /\ stored' = stored \ {u}
    /\ deletion' = [deletion EXCEPT ![u] = "erased"]
    /\ UNCHANGED <<upload, expired, submission, cleanup, doomed>>

DeleteSave(u) ==
    /\ deletion[u] = "erased"
    /\ Unlocked({u})
    /\ Mark({u}, "deleted")
    /\ deletion' = [deletion EXCEPT ![u] = "idle"]
    /\ UNCHANGED <<stored, expired, submission, cleanup, doomed>>

DeleteDies(u) ==
    /\ deletion[u] # "idle"
    /\ deletion' = [deletion EXCEPT ![u] = "idle"]
    /\ UNCHANGED <<upload, stored, expired, submission, cleanup, doomed>>

-----------------------------------------------------------------------------
(* cleanup_expired_uploads: one transaction over the rows its query        *)
(* returned.  A file is gone at once, its row when the transaction         *)
(* commits; updating the row just after the file is erased takes its lock. *)

CleanupStart_Everything ==
    /\ ~cleanup.running
    /\ cleanup' = [running |-> TRUE, erased |-> {},
                   todo |-> {u \in expired : upload[u] \in {"validated", "linked"}}]
    /\ UNCHANGED <<upload, stored, expired, submission, deletion, doomed>>

CleanupStart ==
    /\ ~cleanup.running
    /\ cleanup' = [running |-> TRUE, erased |-> {},
                   todo |-> {u \in expired : upload[u] = "validated"}]
    /\ UNCHANGED <<upload, stored, expired, submission, deletion, doomed>>

CleanupErase_FileMustExist(u) ==
    /\ u \in cleanup.todo
    /\ u \in stored
    /\ stored' = stored \ {u}
    /\ cleanup' = [running |-> TRUE, todo |-> cleanup.todo \ {u},
                   erased |-> cleanup.erased \cup {u}]
    /\ UNCHANGED <<upload, expired, submission, deletion, doomed>>

CleanupErase(u) ==
    /\ u \in cleanup.todo
    /\ stored' = stored \ {u}
    /\ cleanup' = [running |-> TRUE, todo |-> cleanup.todo \ {u},
                   erased |-> cleanup.erased \cup {u}]
    /\ UNCHANGED <<upload, expired, submission, deletion, doomed>>

CleanupCommit ==
    /\ cleanup.running
    /\ cleanup.todo = {}
    /\ Mark(cleanup.erased, "deleted")
    /\ cleanup' = CleanupIdle
    /\ UNCHANGED <<stored, expired, submission, deletion, doomed>>

(* The storage fails, a deadlock is broken, or the worker is killed.       *)
CleanupAbort ==
    /\ cleanup.running
    /\ cleanup' = CleanupIdle
    /\ UNCHANGED <<upload, stored, expired, submission, deletion, doomed>>

-----------------------------------------------------------------------------
(* submit_observation: the key is looked up, then the uploads are read,    *)
(* then all rows are inserted and linked; other transactions may commit    *)
(* between any two of them.                                                *)

Busy(r) == request[r] \in {"checked", "read"}

Goto(r, step) == request' = [request EXCEPT ![r] = step]

(* _require_same_command compares the request with the media the           *)
(* observation has now.                                                    *)
SameCommand_IgnoresPhotos(r) == TRUE
SameCommand(r) == MediaOf(KeyOf[r]) = PhotosOf[r]

AnswerExisting(r) ==
    /\ author[KeyOf[r]] # NoRequest
    /\ Goto(r, IF SameCommand(r) THEN "accepted" ELSE "conflict")

CheckKey_SkipsLookup(r) ==
    /\ request[r] = "new"
    /\ \A u \in PhotosOf[r] : upload[u] # "absent"
    /\ Goto(r, "checked")
    /\ UNCHANGED <<upload, stored, expired, media, author, deletion, cleanup, doomed>>

CheckKey(r) ==
    /\ request[r] = "new"
    /\ \A u \in PhotosOf[r] : upload[u] # "absent"
    /\ \/ AnswerExisting(r)
       \/ author[KeyOf[r]] = NoRequest /\ Goto(r, "checked")
    /\ UNCHANGED <<upload, stored, expired, media, author, deletion, cleanup, doomed>>

ReadUploads(r) ==
    /\ request[r] = "checked"
    /\ Goto(r, IF \A u \in PhotosOf[r] : upload[u] = "validated"
               THEN "read" ELSE "not_found")
    /\ UNCHANGED <<upload, stored, expired, media, author, deletion, cleanup, doomed>>

SaveObservation_TakesOver(r) ==
    /\ request[r] = "read"
    /\ author[KeyOf[r]] = NoRequest
    /\ Unlocked(PhotosOf[r])
    /\ author' = [author EXCEPT ![KeyOf[r]] = r]
    /\ media' = [u \in Uploads |-> IF u \in PhotosOf[r] THEN KeyOf[r] ELSE media[u]]
    /\ Mark(PhotosOf[r], "linked")
    /\ Goto(r, "accepted")
    /\ UNCHANGED <<stored, expired, deletion, cleanup, doomed>>

(* Both the key and the upload of a media row are unique columns.          *)
SaveObservation(r) ==
    /\ request[r] = "read"
    /\ author[KeyOf[r]] = NoRequest
    /\ \A u \in PhotosOf[r] : media[u] = NoKey
    /\ Unlocked(PhotosOf[r])
    /\ author' = [author EXCEPT ![KeyOf[r]] = r]
    /\ media' = [u \in Uploads |-> IF u \in PhotosOf[r] THEN KeyOf[r] ELSE media[u]]
    /\ Mark(PhotosOf[r], "linked")
    /\ Goto(r, "accepted")
    /\ UNCHANGED <<stored, expired, deletion, cleanup, doomed>>

(* IntegrityError: another request has used the key, or one of the uploads.*)
SaveConflicts(r) ==
    /\ request[r] = "read"
    /\ \/ AnswerExisting(r)
       \/ /\ author[KeyOf[r]] = NoRequest
          /\ \E u \in PhotosOf[r] : media[u] # NoKey
          /\ Goto(r, "error")
    /\ UNCHANGED <<upload, stored, expired, media, author, deletion, cleanup, doomed>>

RequestDies(r) ==
    /\ Busy(r)
    /\ Goto(r, "died")
    /\ UNCHANGED <<upload, stored, expired, media, author, deletion, cleanup, doomed>>

-----------------------------------------------------------------------------
(* delete_all_observation_media, called when no active signal needs the    *)
(* photos any more and when the account that submitted them is deleted.    *)
(* The files go after the commit, if nothing prevents it.                  *)

DeleteMedia_LeavesUpload(k) ==
    /\ MediaOf(k) # {}
    /\ Unlocked(MediaOf(k))
    /\ media' = [u \in Uploads |-> IF media[u] = k THEN NoKey ELSE media[u]]
    /\ Mark(MediaOf(k), "validated")
    /\ doomed' = doomed \cup MediaOf(k)
    /\ UNCHANGED <<stored, expired, author, request, deletion, cleanup>>

DeleteMedia(k) ==
    /\ MediaOf(k) # {}
    /\ Unlocked(MediaOf(k))
    /\ media' = [u \in Uploads |-> IF media[u] = k THEN NoKey ELSE media[u]]
    /\ Mark(MediaOf(k), "deleted")
    /\ doomed' = doomed \cup MediaOf(k)
    /\ UNCHANGED <<stored, expired, author, request, deletion, cleanup>>

EraseDoomed(u) ==
    /\ u \in doomed
    /\ doomed' = doomed \ {u}
    /\ stored' = stored \ {u}
    /\ UNCHANGED <<upload, expired, submission, deletion, cleanup>>

(* The process dies, or the storage refuses and the warning is logged.     *)
ForgetDoomed(u) ==
    /\ u \in doomed
    /\ doomed' = doomed \ {u}
    /\ UNCHANGED <<upload, stored, expired, submission, deletion, cleanup>>

-----------------------------------------------------------------------------
Next ==
    \/ \E u \in Uploads :
        \/ CreateUpload(u) \/ Expire(u)
        \/ DeleteRead(u) \/ DeleteErase(u) \/ DeleteSave(u) \/ DeleteDies(u)
        \/ CleanupErase(u) \/ EraseDoomed(u) \/ ForgetDoomed(u)
    \/ CleanupStart \/ CleanupCommit \/ CleanupAbort
    \/ \E r \in Requests :
        \/ CheckKey(r) \/ ReadUploads(r)
        \/ SaveObservation(r) \/ SaveConflicts(r) \/ RequestDies(r)
    \/ \E k \in Keys : DeleteMedia(k)

Spec == Init /\ [][Next]_vars

(* Beat keeps starting the cleanup, its runs end, and the storage does not *)
(* fail them forever.                                                      *)
Fairness ==
    /\ <>[][~CleanupAbort]_vars
    /\ WF_vars(CleanupStart)
    /\ WF_vars(\E u \in Uploads : CleanupErase(u))
    /\ WF_vars(CleanupCommit)

FairSpec == Spec /\ Fairness

(* What the web client does, and what the timing of a healthy system adds: *)
(* while a submission runs none of its photos is expired or removed, ...   *)
PhotosFresh ==
    \A r \in Requests : Busy(r) =>
        \A u \in PhotosOf[r] : u \notin expired /\ upload[u] # "deleted"

(* ... nobody else submits them or its key, ...                            *)
SubmittedAlone ==
    \A r \in Requests : Busy(r) =>
        \A q \in Requests \ {r} : Busy(q) =>
            KeyOf[q] # KeyOf[r] /\ PhotosOf[q] \cap PhotosOf[r] = {}

(* ... and photos are removed, by their author or with the observation,    *)
(* only when no submission of them is still to come.                       *)
Pending(r) == request[r] = "new" \/ Busy(r)

RemovedAfter ==
    \A u \in Uploads, r \in Requests :
        Pending(r) /\ u \in PhotosOf[r] /\ deletion[u] = "idle" => deletion'[u] = "idle"

ObservationKept ==
    \A u \in Uploads, r \in Requests :
        Pending(r) /\ media[u] = KeyOf[r] => media'[u] = media[u]

FreshAndAlone == PhotosFresh /\ SubmittedAlone
SettledFirst  == RemovedAfter /\ ObservationKept

SpecCareful == Init /\ [][Next /\ FreshAndAlone' /\ SettledFirst]_vars
-----------------------------------------------------------------------------
TypeOK ==
    /\ upload \in [Uploads -> UploadStatuses]
    /\ stored \subseteq Uploads
    /\ expired \subseteq Uploads
    /\ media \in [Uploads -> Keys \cup {NoKey}]
    /\ author \in [Keys -> Requests \cup {NoRequest}]
    /\ request \in [Requests -> RequestSteps]
    /\ deletion \in [Uploads -> DeletionSteps]
    /\ cleanup \in CleanupStates
    /\ doomed \subseteq Uploads

(* An observation has all the photos of the request that created it, or    *)
(* after their deletion none: submissions that race for a photo, and a     *)
(* cleanup in the middle of one, never leave it with a part of them.       *)
ObservationWhole ==
    \A k \in Keys :
        MediaOf(k) # {} => author[k] # NoRequest /\ MediaOf(k) = PhotosOf[author[k]]

(* A photo an observation shows is in storage: deletion and cleanup take   *)
(* only unlinked uploads.                                                  *)
LinkedMediaIsStored == \A u \in Uploads : media[u] # NoKey => u \in stored

SameSubmission(q, r) == KeyOf[q] = KeyOf[r] /\ PhotosOf[q] = PhotosOf[r]

(* Same key and same command: a repeated request returns the observation   *)
(* that exists, it is never told that its photos are unknown or its key    *)
(* taken.                                                                  *)
RepeatsAgree ==
    \A q, r \in Requests :
        SameSubmission(q, r) /\ request[q] = "accepted" =>
            request[r] \notin {"conflict", "not_found", "error"}

(* Same key and another content: at most one of the two is accepted.       *)
ConflictTold ==
    \A q, r \in Requests :
        /\ KeyOf[q] = KeyOf[r]
        /\ request[q] = "accepted" /\ request[r] = "accepted"
        => PhotosOf[q] = PhotosOf[r]

(* Orphan uploads are cleaned up: one that has expired does not stay       *)
(* validated, also when its files were already gone.                       *)
ExpiredOrphansGo ==
    \A u \in Uploads :
        upload[u] = "validated" /\ u \in expired ~> upload[u] # "validated"

PhotoOf(u) ==
    CASE media[u] # NoKey /\ u \in stored -> "attached"
      [] media[u] # NoKey /\ u \notin stored -> "broken"
      [] media[u] = NoKey /\ upload[u] \in {"linked", "deleted"} -> "gone"
      [] media[u] = NoKey /\ upload[u] = "validated" -> "waiting"
      [] OTHER -> "absent"

Lifecycle == INSTANCE PhotoLifecycle WITH photo <- [u \in Uploads |-> PhotoOf(u)]

(* Careful submissions implement the life of a photo: attached once,       *)
(* readable while it is attached, and never back once gone.                *)
PhotoSpec == Lifecycle!Spec
=============================================================================
