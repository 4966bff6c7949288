------------------------ MODULE PhotoSubmissionProofs ------------------------
(***************************************************************************)
(* Proofs about PhotoSubmission, for any number of uploads, keys and       *)
(* requests: the type invariant and ObservationWhole for every behaviour,  *)
(* then what careful submissions guarantee.                                *)
(***************************************************************************)
EXTENDS PhotoSubmission, TLAPS

USE DEF UploadStatuses, Answers, RequestSteps, DeletionSteps

(* Whatever an action does, each variable keeps the shape of its column.   *)
LEMMA TypeStep == TypeOK /\ [Next]_vars => TypeOK'
<1> SUFFICES ASSUME TypeOK, [Next]_vars PROVE TypeOK'
  OBVIOUS
<1> USE SubmissionAssumption DEF TypeOK
<1>1. ASSUME NEW u \in Uploads, CreateUpload(u) PROVE TypeOK'
  BY <1>1 DEF CreateUpload, Mark, submission
<1>2. ASSUME NEW u \in Uploads, Expire(u) PROVE TypeOK'
  BY <1>2 DEF Expire, submission
<1>3. ASSUME NEW u \in Uploads,
             DeleteRead(u) \/ DeleteErase(u) \/ DeleteSave(u) \/ DeleteDies(u)
      PROVE TypeOK'
  BY <1>3 DEF DeleteRead, DeleteErase, DeleteSave, DeleteDies, Mark, submission
<1>4. CASE CleanupStart
  BY <1>4 DEF CleanupStart, CleanupStates, submission
<1>5. ASSUME NEW u \in Uploads, CleanupErase(u) PROVE TypeOK'
  <2>1. cleanup' \in CleanupStates
    BY <1>5 DEF CleanupErase, CleanupStates
  <2> QED
    BY <1>5, <2>1 DEF CleanupErase, submission
<1>6. CASE CleanupCommit \/ CleanupAbort
  <2>1. cleanup' = CleanupIdle
    BY <1>6 DEF CleanupCommit, CleanupAbort
  <2>2. CleanupIdle \in CleanupStates
    BY DEF CleanupIdle, CleanupStates
  <2>3. upload' \in [Uploads -> UploadStatuses]
    BY <1>6 DEF CleanupCommit, CleanupAbort, Mark
  <2> QED
    BY <1>6, <2>1, <2>2, <2>3 DEF CleanupCommit, CleanupAbort, submission
<1>7. ASSUME NEW r \in Requests, CheckKey(r) \/ ReadUploads(r) \/ SaveConflicts(r) \/ RequestDies(r)
      PROVE TypeOK'
  BY <1>7 DEF CheckKey, ReadUploads, SaveConflicts, RequestDies, AnswerExisting, Goto
<1>8. ASSUME NEW r \in Requests, SaveObservation(r) PROVE TypeOK'
  BY <1>8 DEF SaveObservation, Goto, Mark
<1>9. ASSUME NEW k \in Keys, DeleteMedia(k) PROVE TypeOK'
  BY <1>9 DEF DeleteMedia, Mark, MediaOf
<1>10. ASSUME NEW u \in Uploads, EraseDoomed(u) \/ ForgetDoomed(u) PROVE TypeOK'
  BY <1>10 DEF EraseDoomed, ForgetDoomed, submission
<1>11. CASE UNCHANGED vars
  BY <1>11 DEF vars, submission
<1> QED
  BY <1>1, <1>2, <1>3, <1>4, <1>5, <1>6, <1>7, <1>8, <1>9, <1>10, <1>11 DEF Next

LEMMA TypeInit == Init => TypeOK
  BY SubmissionAssumption DEF Init, TypeOK, CleanupIdle, CleanupStates

(* The type invariant of PhotoSubmission: every column and every request   *)
(* holds one of the values the code gives it.                              *)
THEOREM TypeCorrect == Spec => []TypeOK
  BY TypeInit, TypeStep, PTL DEF Spec

-----------------------------------------------------------------------------
(* Only submissions and the deletion of media touch the media rows.        *)
LEMMA WholeStep == TypeOK /\ ObservationWhole /\ [Next]_vars => ObservationWhole'
<1> SUFFICES ASSUME TypeOK, ObservationWhole, [Next]_vars PROVE ObservationWhole'
  OBVIOUS
<1> USE SubmissionAssumption DEF TypeOK, ObservationWhole, MediaOf
<1>1. CASE UNCHANGED <<media, author>>
  BY <1>1
<1>2. ASSUME NEW r \in Requests, SaveObservation(r) PROVE ObservationWhole'
  <2> SUFFICES ASSUME NEW k \in Keys, (MediaOf(k) # {})'
               PROVE author'[k] # NoRequest /\ MediaOf(k)' = PhotosOf[author'[k]]
    OBVIOUS
  <2>1. MediaOf(KeyOf[r]) = {}
    BY <1>2 DEF SaveObservation
  <2>2. CASE k = KeyOf[r]
    <3>1. author'[k] = r
      BY <1>2, <2>2 DEF SaveObservation
    <3>2. MediaOf(k)' = PhotosOf[r]
      BY <1>2, <2>1, <2>2 DEF SaveObservation
    <3> QED
      BY <3>1, <3>2
  <2>3. CASE k # KeyOf[r]
    <3>1. author'[k] = author[k]
      BY <1>2, <2>3 DEF SaveObservation
    <3>2. MediaOf(k)' = MediaOf(k)
      BY <1>2, <2>3 DEF SaveObservation
    <3> QED
      BY <3>1, <3>2
  <2> QED
    BY <2>2, <2>3
<1>3. ASSUME NEW d \in Keys, DeleteMedia(d) PROVE ObservationWhole'
  <2> SUFFICES ASSUME NEW k \in Keys, (MediaOf(k) # {})'
               PROVE author'[k] # NoRequest /\ MediaOf(k)' = PhotosOf[author'[k]]
    OBVIOUS
  <2>1. k # d
    BY <1>3 DEF DeleteMedia
  <2>2. MediaOf(k)' = MediaOf(k)
    BY <1>3, <2>1 DEF DeleteMedia
  <2> QED
    BY <1>3, <2>2 DEF DeleteMedia
<1> QED
  BY <1>1, <1>2, <1>3
     DEF Next, vars, submission, CreateUpload, Expire, DeleteRead, DeleteErase, DeleteSave,
         DeleteDies, CleanupStart, CleanupErase, CleanupCommit, CleanupAbort,
         CheckKey, ReadUploads, SaveConflicts, RequestDies, EraseDoomed, ForgetDoomed

(* However submissions race for a photo or a key, an observation has all   *)
(* the photos it was submitted with, or none after their deletion.         *)
THEOREM WholeCorrect == Spec => []ObservationWhole
<1>1. Init => ObservationWhole
  BY SubmissionAssumption DEF Init, ObservationWhole, MediaOf
<1> QED
  BY <1>1, TypeCorrect, WholeStep, PTL DEF Spec
-----------------------------------------------------------------------------
(* Fresh photos that are removed only after their submissions.  The photos *)
(* a submission still to come names are not being deleted, and are in      *)
(* storage unless they are expired, deleted or not uploaded yet; what the  *)
(* cleanup holds is expired, what a commit left to erase is deleted; a     *)
(* photo with a media row is none of these.  Submissions may race for a    *)
(* photo or a key.                                                         *)
SpecFreshPhotos == Init /\ [][Next /\ PhotosFresh' /\ RemovedAfter]_vars

Spared ==
    \A r \in Requests : Pending(r) =>
        \A u \in PhotosOf[r] :
            /\ deletion[u] = "idle"
            /\ upload[u] \in {"validated", "linked"} /\ u \notin expired => u \in stored

Uploaded ==
    \A r \in Requests : Busy(r) =>
        \A u \in PhotosOf[r] : upload[u] # "absent"

Condemned ==
    /\ cleanup.todo \subseteq expired
    /\ cleanup.erased \subseteq expired
    /\ \A u \in doomed : upload[u] = "deleted"

(* Nothing happens to an upload before it exists.                          *)
Known ==
    \A u \in Uploads : upload[u] = "absent" =>
        u \notin expired /\ deletion[u] = "idle" /\ media[u] = NoKey

Attached ==
    \A u \in Uploads : media[u] # NoKey =>
        /\ upload[u] = "linked"
        /\ u \in stored
        /\ u \notin expired
        /\ deletion[u] = "idle"

OnlyAttached == \A u \in Uploads : upload[u] = "linked" => media[u] # NoKey

Photos == Spared /\ Uploaded /\ Known /\ Condemned /\ Attached /\ OnlyAttached

Storage == TypeOK /\ PhotosFresh /\ Photos

FreshStep == Next /\ PhotosFresh' /\ RemovedAfter

(* A submission is to come until it is answered, never again after.        *)
LEMMA StillPending ==
    ASSUME TypeOK, Next, NEW r \in Requests, Pending(r)'
    PROVE  Pending(r)
<1> USE DEF Pending, Busy, TypeOK, submission
<1>1. CASE UNCHANGED request
  BY <1>1
<1>2. ASSUME NEW q \in Requests, CheckKey(q) PROVE Pending(r)
  BY <1>2 DEF CheckKey, Goto, AnswerExisting
<1>3. ASSUME NEW q \in Requests, ReadUploads(q) \/ RequestDies(q) PROVE Pending(r)
  BY <1>3 DEF ReadUploads, RequestDies, Goto
<1>4. ASSUME NEW q \in Requests, SaveObservation(q) PROVE Pending(r)
  BY <1>4 DEF SaveObservation, Goto
<1>5. ASSUME NEW q \in Requests, SaveConflicts(q) PROVE Pending(r)
  BY <1>5 DEF SaveConflicts, Goto, AnswerExisting
<1> QED
  BY <1>1, <1>2, <1>3, <1>4, <1>5
     DEF Next, CreateUpload, Expire, DeleteRead, DeleteErase, DeleteSave, DeleteDies,
         CleanupStart, CleanupErase, CleanupCommit, CleanupAbort, DeleteMedia,
         EraseDoomed, ForgetDoomed

LEMMA StorageStep == Storage /\ [FreshStep]_vars => Storage'
<1> SUFFICES ASSUME Storage, FreshStep PROVE Storage'
  <2>1. Storage /\ UNCHANGED vars => Storage'
    BY DEF Storage, Photos, vars, TypeOK, PhotosFresh, Busy, Spared, Pending, Uploaded,
           Known, Condemned, Attached, OnlyAttached
  <2> QED
    BY <2>1
<1>1. TypeOK' /\ PhotosFresh'
  BY TypeStep DEF Storage, FreshStep
<1> SUFFICES Photos'
  BY <1>1 DEF Storage
<1>18. \A r \in Requests : Busy(r)' => \A u \in PhotosOf[r] : upload'[u] # "deleted"
  BY <1>1 DEF PhotosFresh
<1>2. \A r \in Requests : Pending(r)' => Pending(r)
  BY StillPending DEF Storage, FreshStep
<1>3. \A r \in Requests, u \in Uploads :
        Pending(r) /\ u \in PhotosOf[r] /\ deletion[u] = "idle" => deletion'[u] = "idle"
  BY DEF FreshStep, RemovedAfter
<1> USE SubmissionAssumption
    DEF Storage, Photos, TypeOK, Spared, Uploaded, Known, Condemned, Attached, OnlyAttached,
        Busy, Pending, submission
<1>4. ASSUME NEW u \in Uploads, CreateUpload(u)
      PROVE Photos'
  BY <1>2, <1>18, <1>4 DEF CreateUpload, Mark
<1>5. ASSUME NEW u \in Uploads, Expire(u)
      PROVE Photos'
  BY <1>2, <1>18, <1>5 DEF Expire
<1>6. ASSUME NEW u \in Uploads, DeleteRead(u) \/ DeleteDies(u)
      PROVE Photos'
  BY <1>2, <1>18, <1>3, <1>6 DEF DeleteRead, DeleteDies
<1>7. ASSUME NEW u \in Uploads, DeleteErase(u)
      PROVE Photos'
  BY <1>2, <1>18, <1>3, <1>7 DEF DeleteErase
<1>8. ASSUME NEW u \in Uploads, DeleteSave(u)
      PROVE Photos'
  BY <1>2, <1>18, <1>3, <1>8 DEF DeleteSave, Mark
<1>9. CASE CleanupStart \/ CleanupAbort
  BY <1>2, <1>18, <1>9 DEF CleanupStart, CleanupAbort, CleanupIdle
<1>10. ASSUME NEW u \in Uploads, CleanupErase(u)
      PROVE Photos'
  BY <1>2, <1>18, <1>10 DEF CleanupErase
<1>11. CASE CleanupCommit
  BY <1>2, <1>18, <1>11 DEF CleanupCommit, CleanupIdle, Mark
<1>12. ASSUME NEW r \in Requests, CheckKey(r)
      PROVE Photos'
  BY <1>2, <1>18, <1>12 DEF CheckKey, AnswerExisting, Goto
<1>13. ASSUME NEW r \in Requests, ReadUploads(r) \/ RequestDies(r)
      PROVE Photos'
  BY <1>2, <1>18, <1>13 DEF ReadUploads, RequestDies, Goto
<1>14. ASSUME NEW r \in Requests, SaveConflicts(r)
      PROVE Photos'
  BY <1>2, <1>18, <1>14 DEF SaveConflicts, AnswerExisting, Goto
<1>15. ASSUME NEW r \in Requests, SaveObservation(r)
      PROVE Photos'
  <2>1. \A u \in PhotosOf[r] :
          /\ upload[u] \in {"validated", "linked"} /\ u \in stored /\ u \notin expired
          /\ deletion[u] = "idle"
    BY <1>15 DEF SaveObservation, PhotosFresh
  <2> QED
    BY <1>2, <1>18, <1>15, <2>1
       DEF SaveObservation, Mark, Goto
<1>16. ASSUME NEW k \in Keys, DeleteMedia(k)
      PROVE Photos'
  BY <1>2, <1>18, <1>16 DEF DeleteMedia, MediaOf, Mark
<1>17. ASSUME NEW u \in Uploads, EraseDoomed(u) \/ ForgetDoomed(u)
      PROVE Photos'
  BY <1>2, <1>18, <1>17 DEF EraseDoomed, ForgetDoomed
<1> QED
  BY <1>4, <1>5, <1>6, <1>7, <1>8, <1>9, <1>10, <1>11, <1>12, <1>13, <1>14, <1>15, <1>16, <1>17
     DEF FreshStep, Next

LEMMA StorageInit == Init => Storage
<1>1. Init => TypeOK
  BY TypeInit
<1> QED
  BY <1>1, SubmissionAssumption
     DEF Init, Storage, Photos, PhotosFresh, Spared, Uploaded, Known, Condemned, Attached,
         OnlyAttached, Busy, CleanupIdle

LEMMA StorageHolds == SpecFreshPhotos => []Storage
<1>1. Storage /\ [Next /\ PhotosFresh' /\ RemovedAfter]_vars => Storage'
  BY StorageStep DEF FreshStep
<1> QED
  BY StorageInit, <1>1, PTL DEF SpecFreshPhotos

(* When photos are fresh and removed only after their submissions, none    *)
(* that an observation shows is missing from storage, whatever races,      *)
(* deletion, cleanup and crashes do meanwhile.                             *)
THEOREM LinkedStored == SpecFreshPhotos => []LinkedMediaIsStored
<1>1. Storage => LinkedMediaIsStored
  BY DEF Storage, Photos, Attached, LinkedMediaIsStored
<1> QED
  BY <1>1, StorageHolds, PTL
-----------------------------------------------------------------------------
(* The step of one photo is a move of its lifecycle or a stutter.          *)
LEMMA PhotoStep ==
    ASSUME Storage, Storage', [FreshStep]_vars, NEW u \in Uploads
    PROVE  PhotoOf(u)' = PhotoOf(u) \/ <<PhotoOf(u), PhotoOf(u)'>> \in Lifecycle!Moves
<1> USE SubmissionAssumption DEF Storage, Photos, TypeOK
<1>1. PhotoOf(u) = IF media[u] # NoKey THEN "attached"
                   ELSE IF upload[u] \in {"linked", "deleted"} THEN "gone"
                   ELSE IF upload[u] = "validated" THEN "waiting" ELSE "absent"
  BY DEF PhotoOf, Attached
<1>2. PhotoOf(u)' = IF media'[u] # NoKey THEN "attached"
                   ELSE IF upload'[u] \in {"linked", "deleted"} THEN "gone"
                   ELSE IF upload'[u] = "validated" THEN "waiting" ELSE "absent"
  BY DEF PhotoOf, Attached
<1>3. CASE UNCHANGED <<media, upload>>
  BY <1>1, <1>2, <1>3
<1>4. ASSUME NEW v \in Uploads, CreateUpload(v)
      PROVE  PhotoOf(u)' = PhotoOf(u) \/ <<PhotoOf(u), PhotoOf(u)'>> \in Lifecycle!Moves
  <2>1. media' = media /\ upload[v] = "absent"
        /\ upload'[u] = IF u = v THEN "validated" ELSE upload[u]
    BY <1>4 DEF CreateUpload, Mark, submission
  <2> QED
    BY <1>1, <1>2, <2>1 DEF Lifecycle!Moves
<1>5. ASSUME NEW v \in Uploads, DeleteSave(v)
      PROVE  PhotoOf(u)' = PhotoOf(u) \/ <<PhotoOf(u), PhotoOf(u)'>> \in Lifecycle!Moves
  <2>1. media' = media /\ deletion[v] # "idle"
        /\ upload'[u] = IF u = v THEN "deleted" ELSE upload[u]
    BY <1>5 DEF DeleteSave, Mark, submission
  <2>2. upload[v] # "absent"
    BY <2>1 DEF Known
  <2> QED
    BY <1>1, <1>2, <2>1, <2>2 DEF Lifecycle!Moves
<1>6. CASE CleanupCommit
  <2>1. media' = media
        /\ upload'[u] = IF u \in cleanup.erased THEN "deleted" ELSE upload[u]
    BY <1>6 DEF CleanupCommit, Mark, submission
  <2>2. u \in cleanup.erased => upload[u] # "absent"
    BY DEF Known, Condemned
  <2> QED
    BY <1>1, <1>2, <2>1, <2>2 DEF Lifecycle!Moves
<1>7. ASSUME NEW r \in Requests, SaveObservation(r)
      PROVE  PhotoOf(u)' = PhotoOf(u) \/ <<PhotoOf(u), PhotoOf(u)'>> \in Lifecycle!Moves
  <2>1. CASE u \in PhotosOf[r]
    <3>1. upload[u] = "validated" /\ media[u] = NoKey
      BY <1>7, <2>1 DEF SaveObservation, Uploaded, OnlyAttached, PhotosFresh, Busy
    <3>2. media'[u] = KeyOf[r]
      BY <1>7, <2>1 DEF SaveObservation
    <3> QED
      BY <1>1, <1>2, <3>1, <3>2 DEF Lifecycle!Moves
  <2>2. CASE u \notin PhotosOf[r]
    <3>1. media'[u] = media[u] /\ upload'[u] = upload[u]
      BY <1>7, <2>2 DEF SaveObservation, Mark
    <3> QED
      BY <1>1, <1>2, <3>1
  <2> QED
    BY <2>1, <2>2
<1>8. ASSUME NEW k \in Keys, DeleteMedia(k)
      PROVE  PhotoOf(u)' = PhotoOf(u) \/ <<PhotoOf(u), PhotoOf(u)'>> \in Lifecycle!Moves
  BY <1>1, <1>2, <1>8 DEF DeleteMedia, MediaOf, Mark, Lifecycle!Moves, Attached
<1> QED
  BY <1>3, <1>4, <1>5, <1>6, <1>7, <1>8
     DEF FreshStep, Next, vars, submission, Expire, DeleteRead, DeleteErase, DeleteDies,
         CleanupStart, CleanupErase, CleanupAbort, CheckKey, ReadUploads,
         SaveConflicts, RequestDies, EraseDoomed, ForgetDoomed

LEMMA PhotoSpecStep ==
    Storage /\ Storage' /\ [FreshStep]_vars =>
        [Lifecycle!Next]_[u \in Uploads |-> PhotoOf(u)]
<1> SUFFICES ASSUME Storage, Storage', [FreshStep]_vars
             PROVE  Lifecycle!Next
  OBVIOUS
<1>1. \A u \in Uploads : PhotoOf(u)' = PhotoOf(u) \/ <<PhotoOf(u), PhotoOf(u)'>> \in Lifecycle!Moves
  BY PhotoStep
<1>2. \A u \in Uploads : PhotoOf(u)' \in Lifecycle!Stages
  <2> SUFFICES ASSUME NEW u \in Uploads PROVE PhotoOf(u)' \in Lifecycle!Stages
    OBVIOUS
  <2>1. PhotoOf(u)' \in {"absent", "waiting", "attached", "gone"}
    BY DEF PhotoOf, Storage, Photos, Attached
  <2>2. {"absent", "waiting", "attached", "gone"} \subseteq Lifecycle!Stages
    BY DEF Lifecycle!Stages, Lifecycle!Moves
  <2> QED
    BY <2>1, <2>2
<1> QED
  BY <1>1, <1>2 DEF Lifecycle!Next

(* Under the same two habits a photo lives as PhotoLifecycle says: it is   *)
(* attached once, readable while attached, and never back once gone.       *)
THEOREM ImplementsPhotoLifecycle == SpecFreshPhotos => PhotoSpec
<1>1. Init => Lifecycle!Init
  BY DEF Init, Lifecycle!Init, PhotoOf
<1>2. Storage /\ Storage' /\ [Next /\ PhotosFresh' /\ RemovedAfter]_vars =>
        [Lifecycle!Next]_[u \in Uploads |-> PhotoOf(u)]
  BY PhotoSpecStep DEF FreshStep
<1> QED
  BY <1>1, <1>2, StorageHolds, PTL DEF SpecFreshPhotos, PhotoSpec, Lifecycle!Spec
-----------------------------------------------------------------------------
(* Answers.  While the photos of an observation are there as long as       *)
(* submissions of its key are to come, whoever is accepted has named       *)
(* exactly those photos.                                                   *)
SpecKeptPhotos == Init /\ [][Next /\ ObservationKept]_vars

StillWhole ==
    \A r \in Requests : Pending(r) /\ author[KeyOf[r]] # NoRequest =>
        MediaOf(KeyOf[r]) = PhotosOf[author[KeyOf[r]]]

AcceptedRight ==
    \A r \in Requests : request[r] = "accepted" =>
        author[KeyOf[r]] # NoRequest /\ PhotosOf[author[KeyOf[r]]] = PhotosOf[r]

Accepting == TypeOK /\ ObservationWhole /\ StillWhole /\ AcceptedRight

(* Most steps concern no answer.                                           *)
LEMMA SubmissionMoves ==
    ASSUME Next
    PROVE  \/ UNCHANGED <<media, author, request>>
           \/ \E q \in Requests : CheckKey(q) \/ ReadUploads(q) \/ SaveObservation(q)
                                  \/ SaveConflicts(q) \/ RequestDies(q)
           \/ \E k \in Keys : DeleteMedia(k)
  BY DEF Next, submission, CreateUpload, Expire, DeleteRead, DeleteErase, DeleteSave,
         DeleteDies, CleanupStart, CleanupErase, CleanupCommit, CleanupAbort,
         EraseDoomed, ForgetDoomed

(* A request is answered from the observation of its key, as it is.        *)
LEMMA AnswerRight ==
    ASSUME Accepting, NEW q \in Requests, Pending(q), AnswerExisting(q)
    PROVE  /\ author[KeyOf[q]] # NoRequest
           /\ request'[q] = IF PhotosOf[author[KeyOf[q]]] = PhotosOf[q]
                            THEN "accepted" ELSE "conflict"
           /\ \A r \in Requests \ {q} : request'[r] = request[r]
  BY DEF Accepting, TypeOK, StillWhole, AnswerExisting, SameCommand, Goto

LEMMA SavedRight ==
    ASSUME Accepting, NEW q \in Requests, SaveObservation(q)
    PROVE  /\ author[KeyOf[q]] = NoRequest /\ author' = [author EXCEPT ![KeyOf[q]] = q]
           /\ MediaOf(KeyOf[q])' = PhotosOf[q]
           /\ \A k \in Keys \ {KeyOf[q]} : MediaOf(k)' = MediaOf(k)
           /\ request'[q] = "accepted"
           /\ \A r \in Requests \ {q} : request'[r] = request[r]
<1> USE SubmissionAssumption DEF Accepting, TypeOK
<1>1. author[KeyOf[q]] = NoRequest
  BY DEF SaveObservation
<1>2. MediaOf(KeyOf[q]) = {}
  BY <1>1 DEF ObservationWhole
<1>3. MediaOf(KeyOf[q])' = PhotosOf[q]
  BY <1>2 DEF SaveObservation, MediaOf
<1>4. \A k \in Keys \ {KeyOf[q]} : MediaOf(k)' = MediaOf(k)
  BY DEF SaveObservation, MediaOf
<1> QED
  BY <1>1, <1>3, <1>4 DEF SaveObservation, Goto

LEMMA AcceptingStep == Accepting /\ [Next /\ ObservationKept]_vars => Accepting'
<1> SUFFICES ASSUME Accepting, Next, ObservationKept PROVE Accepting'
  <2>1. Accepting /\ UNCHANGED vars => Accepting'
    BY DEF Accepting, TypeOK, ObservationWhole, vars, StillWhole, AcceptedRight, MediaOf,
           Busy, Pending
  <2> QED
    BY <2>1
<1>1. TypeOK' /\ ObservationWhole'
  BY TypeStep, WholeStep DEF Accepting
<1>2. \A r \in Requests : Pending(r)' => Pending(r)
  BY StillPending DEF Accepting
<1> SUFFICES StillWhole' /\ AcceptedRight'
  BY <1>1 DEF Accepting
<1> USE SubmissionAssumption DEF Accepting, TypeOK
<1>3. CASE UNCHANGED <<media, author>>
           /\ \A r \in Requests : request'[r] = "accepted" => request[r] = "accepted"
  <2>1. \A k \in Keys : MediaOf(k)' = MediaOf(k)
    BY <1>3 DEF MediaOf
  <2> QED
    BY <1>2, <1>3, <2>1 DEF StillWhole, AcceptedRight
<1>4. ASSUME NEW q \in Requests, Pending(q), AnswerExisting(q), UNCHANGED <<media, author>>
      PROVE  StillWhole' /\ AcceptedRight'
  <2>1. \A k \in Keys : MediaOf(k)' = MediaOf(k)
    BY <1>4 DEF MediaOf
  <2>2. /\ author[KeyOf[q]] # NoRequest
        /\ request'[q] = "accepted" => PhotosOf[author[KeyOf[q]]] = PhotosOf[q]
        /\ \A r \in Requests \ {q} : request'[r] = request[r]
    BY <1>4, AnswerRight
  <2> QED
    BY <1>2, <1>4, <2>1, <2>2 DEF StillWhole, AcceptedRight
<1>5. ASSUME NEW q \in Requests, SaveObservation(q) PROVE StillWhole' /\ AcceptedRight'
  BY <1>2, <1>5, SavedRight DEF StillWhole, AcceptedRight
<1>6. ASSUME NEW k \in Keys, DeleteMedia(k) PROVE StillWhole' /\ AcceptedRight'
  <2>1. UNCHANGED <<author, request>>
    BY <1>6 DEF DeleteMedia
  <2>2. \A d \in Keys \ {k} : MediaOf(d)' = MediaOf(d)
    BY <1>6 DEF DeleteMedia, MediaOf
  <2>3. \A r \in Requests : Pending(r) => KeyOf[r] # k
    <3>1. PICK u \in Uploads : media[u] = k /\ media'[u] # k
      BY <1>6 DEF DeleteMedia, MediaOf
    <3> QED
      BY <3>1 DEF ObservationKept
  <2> QED
    BY <1>2, <2>1, <2>2, <2>3 DEF StillWhole, AcceptedRight
<1>7. ASSUME NEW q \in Requests, CheckKey(q) \/ SaveConflicts(q)
      PROVE  StillWhole' /\ AcceptedRight'
  <2>1. UNCHANGED <<media, author>> /\ Pending(q)
    BY <1>7 DEF CheckKey, SaveConflicts, Pending, Busy
  <2>2. CASE AnswerExisting(q)
    BY <1>4, <2>1, <2>2
  <2>3. CASE ~AnswerExisting(q)
    BY <1>3, <1>7, <2>1, <2>3 DEF CheckKey, SaveConflicts, Goto
  <2> QED
    BY <2>2, <2>3
<1>8. ASSUME NEW q \in Requests, ReadUploads(q) \/ RequestDies(q)
      PROVE  StillWhole' /\ AcceptedRight'
  BY <1>3, <1>8 DEF ReadUploads, RequestDies, Goto
<1> QED
  BY <1>3, <1>5, <1>6, <1>7, <1>8, SubmissionMoves

LEMMA AcceptingInit == Init => Accepting
  BY TypeInit, SubmissionAssumption
     DEF Init, Accepting, ObservationWhole, StillWhole, AcceptedRight, Busy, Pending, MediaOf

(* Same key and other photos: two submissions are never both accepted, as  *)
(* long as the photos stay while submissions of their key are to come.     *)
THEOREM ConflictCorrect == SpecKeptPhotos => []ConflictTold
<1>1. Accepting => ConflictTold
  BY SubmissionAssumption DEF Accepting, AcceptedRight, ConflictTold
<1> QED
  BY <1>1, AcceptingInit, AcceptingStep, PTL DEF SpecKeptPhotos
-----------------------------------------------------------------------------
(* Repetitions.  When no two submissions of a key or a photo overlap       *)
(* either, a request that runs has its key to itself and finds its photos  *)
(* unattached; a refused one has other photos than the observation of its  *)
(* key, or names a photo that waits no more.  Photos may expire and be     *)
(* deleted at any time.                                                    *)
SpecOneAtATime == Init /\ [][Next /\ SubmittedAlone' /\ ObservationKept]_vars

OneAtATime == Next /\ SubmittedAlone' /\ ObservationKept

KeyFree == \A r \in Requests : Busy(r) => author[KeyOf[r]] = NoRequest

PhotosFree ==
    /\ \A r \in Requests : request[r] = "read" => \A u \in PhotosOf[r] : media[u] = NoKey
    /\ \A u \in Uploads : media[u] # NoKey => upload[u] \in {"linked", "deleted"}

RefusedRight ==
    \A r \in Requests :
        /\ request[r] # "error"
        /\ request[r] = "conflict" => author[KeyOf[r]] # NoRequest
        /\ request[r] = "not_found" =>
            \E u \in PhotosOf[r] : upload[u] \in {"linked", "deleted"}
        /\ request[r] \in {"conflict", "not_found"} /\ author[KeyOf[r]] # NoRequest =>
            PhotosOf[author[KeyOf[r]]] # PhotosOf[r]

(* No running submission repeats one whose photos were not found.          *)
ReadAnew ==
    \A q, r \in Requests :
        request[q] = "read" /\ request[r] = "not_found" => PhotosOf[q] # PhotosOf[r]

Refusing == Uploaded /\ KeyFree /\ PhotosFree /\ RefusedRight /\ ReadAnew

Replies == Accepting /\ SubmittedAlone /\ Refusing

(* A photo that waits no more never waits again.                           *)
LEMMA SettledStays ==
    ASSUME TypeOK, Next, NEW u \in Uploads, upload[u] \in {"linked", "deleted"}
    PROVE  upload'[u] \in {"linked", "deleted"}
<1> USE DEF TypeOK, submission, Mark
<1>1. CASE UNCHANGED upload
  BY <1>1
<1>2. ASSUME NEW v \in Uploads, CreateUpload(v) PROVE upload'[u] \in {"linked", "deleted"}
  BY <1>2 DEF CreateUpload
<1>3. ASSUME NEW v \in Uploads, DeleteSave(v) PROVE upload'[u] \in {"linked", "deleted"}
  BY <1>3 DEF DeleteSave
<1>4. CASE CleanupCommit
  BY <1>4 DEF CleanupCommit
<1>5. ASSUME NEW r \in Requests, SaveObservation(r) PROVE upload'[u] \in {"linked", "deleted"}
  BY <1>5 DEF SaveObservation
<1>6. ASSUME NEW k \in Keys, DeleteMedia(k) PROVE upload'[u] \in {"linked", "deleted"}
  BY <1>6 DEF DeleteMedia
<1> QED
  BY <1>1, <1>2, <1>3, <1>4, <1>5, <1>6
     DEF Next, Expire, DeleteRead, DeleteErase, DeleteDies, CleanupStart, CleanupErase,
         CleanupAbort, CheckKey, ReadUploads, SaveConflicts, RequestDies,
         EraseDoomed, ForgetDoomed

LEMMA UploadsStay ==
    ASSUME TypeOK, Next, NEW u \in Uploads, upload[u] # "absent"
    PROVE  upload'[u] # "absent"
<1> USE DEF TypeOK, submission, Mark
<1>1. CASE UNCHANGED upload
  BY <1>1
<1>2. ASSUME NEW v \in Uploads, CreateUpload(v) \/ DeleteSave(v) PROVE upload'[u] # "absent"
  BY <1>2 DEF CreateUpload, DeleteSave
<1>3. CASE CleanupCommit
  BY <1>3 DEF CleanupCommit
<1>4. ASSUME NEW r \in Requests, SaveObservation(r) PROVE upload'[u] # "absent"
  BY <1>4 DEF SaveObservation
<1>5. ASSUME NEW k \in Keys, DeleteMedia(k) PROVE upload'[u] # "absent"
  BY <1>5 DEF DeleteMedia
<1> QED
  BY <1>1, <1>2, <1>3, <1>4, <1>5
     DEF Next, Expire, DeleteRead, DeleteErase, DeleteDies, CleanupStart, CleanupErase,
         CleanupAbort, CheckKey, ReadUploads, SaveConflicts, RequestDies,
         EraseDoomed, ForgetDoomed

LEMMA RepliesStep == Replies /\ [OneAtATime]_vars => Replies'
<1> SUFFICES ASSUME Replies, OneAtATime PROVE Replies'
  <2>1. Replies /\ UNCHANGED vars => Replies'
    BY DEF Replies, Accepting, SubmittedAlone, TypeOK, ObservationWhole, StillWhole, AcceptedRight,
           Refusing, Uploaded, KeyFree, PhotosFree, RefusedRight, ReadAnew, vars, MediaOf,
           Busy, Pending
  <2> QED
    BY <2>1
<1>0. Accepting' /\ SubmittedAlone'
  BY AcceptingStep DEF Replies, OneAtATime
<1> SUFFICES Refusing'
  BY <1>0 DEF Replies
<1>1. \A u \in Uploads :
        /\ upload[u] \in {"linked", "deleted"} => upload'[u] \in {"linked", "deleted"}
        /\ upload[u] # "absent" => upload'[u] # "absent"
  BY SettledStays, UploadsStay DEF Replies, Accepting, OneAtATime
<1> USE SubmissionAssumption DEF Replies, Accepting, TypeOK
<1>2. CASE UNCHANGED <<media, author, request>>
  BY <1>1, <1>2
     DEF Refusing, Uploaded, KeyFree, PhotosFree, RefusedRight, ReadAnew, Busy
<1>3. ASSUME NEW q \in Requests, CheckKey(q) PROVE Refusing'
  <2>1. UNCHANGED <<media, author, upload>> /\ \A u \in PhotosOf[q] : upload[u] # "absent"
    BY <1>3 DEF CheckKey
  <2>2. \A r \in Requests \ {q} : request'[r] = request[r]
    BY <1>3 DEF CheckKey, AnswerExisting, Goto
  <2>3. \/ author[KeyOf[q]] = NoRequest /\ request'[q] = "checked"
        \/ request'[q] = "accepted"
        \/ /\ author[KeyOf[q]] # NoRequest /\ PhotosOf[author[KeyOf[q]]] # PhotosOf[q]
           /\ request'[q] = "conflict"
    BY <1>3, AnswerRight DEF CheckKey, Goto, Pending
  <2> QED
    BY <2>1, <2>2, <2>3
       DEF Refusing, Uploaded, KeyFree, PhotosFree, RefusedRight, ReadAnew, Busy
<1>4. ASSUME NEW q \in Requests, ReadUploads(q) PROVE Refusing'
  <2>1. UNCHANGED <<media, author, upload>> /\ Busy(q)
    BY <1>4 DEF ReadUploads, Busy
  <2>2. \A r \in Requests \ {q} : request'[r] = request[r]
    BY <1>4 DEF ReadUploads, Goto
  <2>3. author[KeyOf[q]] = NoRequest /\ \A u \in PhotosOf[q] : upload[u] # "absent"
    BY <2>1 DEF Refusing, KeyFree, Uploaded
  <2>4. CASE request'[q] = "read" /\ \A u \in PhotosOf[q] : upload[u] = "validated"
    <3>1. \A u \in PhotosOf[q] : media[u] = NoKey
      BY <2>4 DEF Refusing, PhotosFree
    <3>2. \A r \in Requests : request[r] = "not_found" => PhotosOf[q] # PhotosOf[r]
      BY <2>4 DEF Refusing, RefusedRight
    <3> QED
      BY <2>1, <2>2, <2>3, <2>4, <3>1, <3>2
         DEF Refusing, Uploaded, KeyFree, PhotosFree, RefusedRight, ReadAnew, Busy
  <2>5. CASE request'[q] = "not_found" /\ \E u \in PhotosOf[q] : upload[u] # "validated"
    <3>1. \A r \in Requests \ {q} : request[r] = "read" => PhotosOf[r] # PhotosOf[q]
      BY <2>1, <2>5 DEF SubmittedAlone, Busy
    <3>2. \E u \in PhotosOf[q] : upload[u] \in {"linked", "deleted"}
      BY <2>3, <2>5
    <3> QED
      BY <2>1, <2>2, <2>3, <2>5, <3>1, <3>2
         DEF Refusing, Uploaded, KeyFree, PhotosFree, RefusedRight, ReadAnew, Busy
  <2> QED
    BY <1>4, <2>4, <2>5 DEF ReadUploads, Goto
<1>5. ASSUME NEW q \in Requests, SaveObservation(q) PROVE Refusing'
  <2>1. Busy(q) /\ request[q] = "read"
    BY <1>5 DEF SaveObservation, Busy
  <2>2. /\ author[KeyOf[q]] = NoRequest /\ author' = [author EXCEPT ![KeyOf[q]] = q]
        /\ request'[q] = "accepted"
        /\ \A r \in Requests \ {q} : request'[r] = request[r]
    BY <1>5, SavedRight
  <2>3. /\ media' = [u \in Uploads |-> IF u \in PhotosOf[q] THEN KeyOf[q] ELSE media[u]]
        /\ upload' = [u \in Uploads |-> IF u \in PhotosOf[q] THEN "linked" ELSE upload[u]]
    BY <1>5 DEF SaveObservation, Mark
  <2>4. \A r \in Requests \ {q} : Busy(r) =>
            KeyOf[r] # KeyOf[q] /\ PhotosOf[r] \cap PhotosOf[q] = {}
    BY <2>1 DEF SubmittedAlone
  <2>5. \A r \in Requests : request[r] = "conflict" => KeyOf[r] # KeyOf[q]
    BY <2>2 DEF Refusing, RefusedRight
  <2>6. \A r \in Requests : request[r] = "not_found" => PhotosOf[r] # PhotosOf[q]
    BY <2>1 DEF Refusing, ReadAnew
  <2>7. Uploaded' /\ KeyFree'
    BY <1>1, <2>2, <2>4 DEF Refusing, Uploaded, KeyFree, Busy
  <2>8. PhotosFree' /\ ReadAnew'
    BY <2>2, <2>3, <2>4 DEF Refusing, PhotosFree, ReadAnew, Busy
  <2>9. RefusedRight'
    BY <1>1, <2>2, <2>5, <2>6 DEF Refusing, RefusedRight
  <2> QED
    BY <2>7, <2>8, <2>9 DEF Refusing
<1>6. ASSUME NEW q \in Requests, SaveConflicts(q) PROVE FALSE
  <2>1. author[KeyOf[q]] = NoRequest /\ \A u \in PhotosOf[q] : media[u] = NoKey
    BY <1>6 DEF SaveConflicts, Refusing, KeyFree, PhotosFree, Busy
  <2> QED
    BY <1>6, <2>1 DEF SaveConflicts, AnswerExisting
<1>7. ASSUME NEW q \in Requests, RequestDies(q) PROVE Refusing'
  BY <1>7
     DEF RequestDies, Goto, Refusing, Uploaded, KeyFree, PhotosFree, RefusedRight, ReadAnew, Busy
<1>8. ASSUME NEW k \in Keys, DeleteMedia(k) PROVE Refusing'
  <2>1. UNCHANGED <<author, request>> /\ \A u \in Uploads : media'[u] \in {media[u], NoKey}
    BY <1>8 DEF DeleteMedia
  <2> QED
    BY <1>1, <2>1
       DEF Refusing, Uploaded, KeyFree, PhotosFree, RefusedRight, ReadAnew, Busy
<1> QED
  BY <1>2, <1>3, <1>4, <1>5, <1>6, <1>7, <1>8, SubmissionMoves DEF OneAtATime

(* Same key and same command: no repetition is refused when another was    *)
(* accepted, if submissions of a key or a photo do not overlap.            *)
THEOREM RepeatsCorrect == SpecOneAtATime => []RepeatsAgree
<1>1. Init => Replies
  BY AcceptingInit, SubmissionAssumption
     DEF Init, Replies, SubmittedAlone, Refusing, Uploaded, KeyFree, PhotosFree, RefusedRight,
         ReadAnew, Busy
<1>2. Replies /\ [Next /\ SubmittedAlone' /\ ObservationKept]_vars => Replies'
  BY RepliesStep DEF OneAtATime
<1>3. Replies => RepeatsAgree
  BY SubmissionAssumption
     DEF Replies, Accepting, AcceptedRight, Refusing, RefusedRight, RepeatsAgree, SameSubmission
<1> QED
  BY <1>1, <1>2, <1>3, PTL DEF SpecOneAtATime

(* The submissions the careful run checks have all of these habits.        *)
LEMMA CarefulIsMore == SpecCareful => SpecFreshPhotos /\ SpecKeptPhotos /\ SpecOneAtATime
<1>1. [Next /\ FreshAndAlone' /\ SettledFirst]_vars =>
        /\ [Next /\ PhotosFresh' /\ RemovedAfter]_vars
        /\ [Next /\ ObservationKept]_vars
        /\ [Next /\ SubmittedAlone' /\ ObservationKept]_vars
  BY DEF FreshAndAlone, SettledFirst
<1> QED
  BY <1>1, PTL DEF SpecCareful, SpecFreshPhotos, SpecKeptPhotos, SpecOneAtATime
=============================================================================
