------------------------ MODULE ChatAttachmentsProofs ------------------------
(***************************************************************************)
(* Proofs about ChatAttachments, for any number of uploads, messages,      *)
(* requests and runs of the cleanup.                                       *)
(***************************************************************************)
EXTENDS ChatAttachments, TLAPS

USE ChatAssumption

LEMMA FilesFacts ==
    ASSUME NEW u \in Uploads
    PROVE  /\ Original(u) \in Files /\ Thumbnail(u) \in Files
           /\ Original(u)[1] = u /\ Thumbnail(u)[1] = u
           /\ Original(u) # Thumbnail(u)
  BY DEF Original, Thumbnail, Files

LEMMA FilesOfFacts ==
    ASSUME NEW u \in Uploads
    PROVE  /\ FilesOf(u) \subseteq Files
           /\ \A f \in FilesOf(u) : f[1] = u
  BY FilesFacts DEF FilesOf

LEMMA FilesOfAllFacts ==
    ASSUME NEW S \in SUBSET Uploads
    PROVE  /\ FilesOfAll(S) \subseteq Files
           /\ \A f \in FilesOfAll(S) : f[1] \in S
           /\ \A u \in S : FilesOf(u) \subseteq FilesOfAll(S)
  BY FilesOfFacts DEF FilesOfAll

LEMMA RowFacts ==
    ASSUME TypeOK, NEW u \in Uploads
    PROVE  /\ \A s \in UploadStatuses : [upload[u] EXCEPT !.status = s] \in UploadRows
           /\ [upload[u] EXCEPT !.late = TRUE] \in UploadRows
           /\ [upload[u] EXCEPT !.thumb = TRUE] \in UploadRows
           /\ \A s \in UploadStatuses :
                [upload EXCEPT ![u].status = s] \in [Uploads -> UploadRows]
           /\ [upload EXCEPT ![u].late = TRUE] \in [Uploads -> UploadRows]
           /\ [upload EXCEPT ![u].thumb = TRUE] \in [Uploads -> UploadRows]
<1>1. upload[u] \in UploadRows
  BY DEF TypeOK
<1> QED
  BY <1>1 DEF TypeOK, UploadRows

LEMMA RemoveRowsType ==
    ASSUME TypeOK, NEW S, RemoveRows(S)
    PROVE  upload' \in [Uploads -> UploadRows]
<1>1. "removed" \in UploadStatuses
  BY DEF UploadStatuses
<1> QED
  BY <1>1, RowFacts DEF TypeOK, RemoveRows

LEMMA UnlinkType ==
    ASSUME TypeOK, NEW S, Unlink(S)
    PROVE  /\ attached' \in [Uploads -> Keys \cup {NoKey}]
           /\ message' \in [Keys -> MessageStatuses]
  BY DEF TypeOK, Unlink, MessageStatuses

(* Whatever an action does, each variable keeps the shape of its column.   *)
LEMMA TypeStep == TypeOK /\ [Next]_vars => TypeOK'
<1> SUFFICES ASSUME TypeOK, [Next]_vars PROVE TypeOK'
  OBVIOUS
<1>0. {"reserved", "validated", "linked", "expired", "removed"} \subseteq UploadStatuses
  BY DEF UploadStatuses
<1> USE <1>0 DEF TypeOK, MessageStatuses, RequestSteps, TaskSteps,
            SetStatus, SetTask, Answer, files, removals
<1>1. undisturbed' \in BOOLEAN
  BY DEF Next, vars
<1>2. CASE UNCHANGED vars
  BY <1>2 DEF vars, rows
<1>3. ASSUME NEW u \in Uploads, UploadStep(u) PROVE TypeOK'
  <2>1. CASE Reserve(u)
    BY <1>1, <2>1, RowFacts DEF Reserve
  <2>4. CASE RefreshUrl(u) \/ UrlEnds(u)
    BY <1>1, <2>4 DEF RefreshUrl, UrlEnds
  <2>5. CASE Expire(u)
    BY <1>1, <2>5, RowFacts DEF Expire
  <2>2. CASE Put(u) \/ StoreThumbnail(u)
    BY <1>1, <2>2, FilesFacts DEF Put, StoreThumbnail
  <2>3. CASE Complete(u)
    <3>1. upload' \in [Uploads -> UploadRows]
      BY <2>3, RowFacts DEF Complete
    <3>2. task' \in [Uploads -> TaskSteps]
      BY <2>3 DEF Complete
    <3> QED
      BY <1>1, <2>3, <3>1, <3>2 DEF Complete
  <2>6. CASE ReadOriginal(u) \/ ThumbnailFails(u)
    BY <1>1, <2>6 DEF ReadOriginal, ThumbnailFails
  <2>7. CASE SaveThumbnailKey(u)
    BY <1>1, <2>7, RowFacts DEF SaveThumbnailKey
  <2> QED
    BY <1>3, <2>1, <2>2, <2>3, <2>4, <2>5, <2>6, <2>7 DEF UploadStep
<1>4. ASSUME NEW r \in Requests, SendStep(r) PROVE TypeOK'
  <2>1. CASE Check(r) \/ SaveMeetsMessage(r) \/ Fail(r)
    BY <1>1, <2>1 DEF Check, SaveMeetsMessage, Fail
  <2>2. CASE LockUploads(r)
    BY <1>1, <2>2 DEF LockUploads, LockAnswer
  <2>3. CASE SaveMessage(r)
    BY <1>1, <2>3, RowFacts DEF SaveMessage
  <2> QED
    BY <1>4, <2>1, <2>2, <2>3 DEF SendStep
<1>5. ASSUME NEW w \in Sweepers, SweepStep(w) PROVE TypeOK'
  <2>1. ASSUME NEW u \in Uploads, SweepClaim(w, u) PROVE TypeOK'
    <3>1. [at |-> "claimed", upload |-> u, files |-> FilesOf(u)] \in SweepRows
      BY FilesOfFacts DEF SweepRows
    <3> QED
      BY <1>1, <2>1, <3>1, RowFacts DEF SweepClaim
  <2>2. CASE SweepErase(w)
    BY <1>1, <2>2 DEF SweepErase, SweepRows
  <2>3. CASE SweepFails(w) \/ SweepDelete(w)
    <3>1. NoSweep \in SweepRows
      BY DEF NoSweep, SweepRows
    <3>2. CASE SweepFails(w)
      BY <1>1, <3>1, <3>2 DEF SweepFails
    <3>3. CASE SweepDelete(w)
      BY <1>1, <3>1, <3>3, RowFacts DEF SweepDelete
    <3> QED
      BY <2>3, <3>2, <3>3
  <2> QED
    BY <1>5, <2>1, <2>2, <2>3 DEF SweepStep
<1>6. CASE RemovalStep
  <2>1. ASSUME NEW k \in Keys, Age(k) PROVE TypeOK'
    BY <1>1, <2>1 DEF Age
  <2>2. CASE PurgeList
    <3>1. FilesOfAll(AttachedTo({k \in Keys : message[k] = "old"})) \subseteq Files
      BY FilesOfAllFacts DEF AttachedTo
    <3> QED
      BY <1>1, <2>2, <3>1 DEF PurgeList, PurgeRows, AttachedTo
  <2>3. CASE PurgeMessages
    BY <1>1, <2>3, UnlinkType DEF PurgeMessages, PurgeRows
  <2>4. CASE PurgeUploads \/ PurgeDies
    <3>1. NoPurge \in PurgeRows /\ purge.files \subseteq Files
      BY DEF NoPurge, PurgeRows
    <3> QED
      BY <1>1, <2>4, <3>1, RemoveRowsType DEF PurgeUploads, PurgeDies
  <2>5. CASE CloseList
    <3>1. FilesOfAll({u \in Uploads : Exists(u)}) \subseteq Files
      BY FilesOfAllFacts
    <3> QED
      BY <1>1, <2>5, <3>1 DEF CloseList, ClosingRows
  <2>6. CASE CloseCommit \/ CloseFails
    <3>1. NoClosing \in ClosingRows /\ closing.files \subseteq Files
      BY DEF NoClosing, ClosingRows
    <3>2. CASE CloseFails
      BY <1>1, <3>1, <3>2 DEF CloseFails
    <3>3. CASE CloseCommit
      <4>1. RemoveRows(Uploads) /\ Unlink(Keys)
        BY <3>3 DEF CloseCommit
      <4>2. upload' \in [Uploads -> UploadRows]
        BY <4>1, RemoveRowsType
      <4>3. attached' \in [Uploads -> Keys \cup {NoKey}] /\ message' \in [Keys -> MessageStatuses]
        BY <4>1, UnlinkType
      <4> QED
        BY <1>1, <3>1, <3>3, <4>2, <4>3 DEF CloseCommit
    <3> QED
      BY <2>6, <3>2, <3>3
  <2>7. ASSUME NEW f \in Files, EraseDoomed(f) \/ ForgetDoomed(f) PROVE TypeOK'
    BY <1>1, <2>7 DEF EraseDoomed, ForgetDoomed
  <2> QED
    BY <1>6, <2>1, <2>2, <2>3, <2>4, <2>5, <2>6, <2>7 DEF RemovalStep
<1> QED
  BY <1>2, <1>3, <1>4, <1>5, <1>6 DEF Next, Step

LEMMA TypeInit == Init => TypeOK
  BY DEF Init, TypeOK, UploadStatuses, UploadRows, MessageStatuses, RequestSteps, TaskSteps,
         SweepRows, PurgeRows, ClosingRows, NoUploadRow, NoSweep, NoPurge, NoClosing

(* The type invariant of ChatAttachments: every column, every request and  *)
(* every removal under way holds one of the values the code gives it.      *)
THEOREM TypeCorrect == Spec => []TypeOK
  BY TypeInit, TypeStep, PTL DEF Spec

-----------------------------------------------------------------------------
(* Who may be linked, and what the removals under way may touch: the files *)
(* they hold are those of uploads that no message can have any more.       *)

Links == \A u \in Uploads : attached[u] # NoKey => upload[u].status = "linked"

Ready ==
    \A u \in Uploads : upload[u].status \in {"validated", "linked"} => Original(u) \in stored

Locks ==
    /\ \A r \in Requests, u \in Uploads :
         request[r] = "locked" /\ u \in UploadsOf[r] => upload[u].status = "validated"
    /\ \A q, r \in Requests :
         q # r /\ request[q] = "locked" /\ request[r] = "locked" =>
            UploadsOf[q] \cap UploadsOf[r] = {}

Sweeps ==
    \A w \in Sweepers : sweep[w].at # "idle" =>
        /\ sweep[w].upload \in Uploads
        /\ upload[sweep[w].upload].status \in {"expired", "removed"}
        /\ \A f \in sweep[w].files : f[1] = sweep[w].upload

Purges ==
    /\ \A u \in purge.uploads : upload[u].status \in {"linked", "removed"}
    /\ \A f \in purge.files : f[1] \in purge.uploads
    /\ purge.at = "listed" => \A u \in purge.uploads : attached[u] \in purge.keys \cup {NoKey}
    /\ purge.at = "unlinked" => \A u \in purge.uploads : attached[u] = NoKey

Closings == \A f \in closing.files : upload[f[1]].status # "absent"

Doom == \A f \in doomed : upload[f[1]].status = "removed"

Closed == ~open => \A k \in Keys : ~Written(k)

Inv == Links /\ Ready /\ Locks /\ Sweeps /\ Purges /\ Closings /\ Doom /\ Closed

LEMMA InvInit == Init => Inv
  BY DEF Init, Inv, Links, Ready, Locks, Sweeps, Purges, Closings, Doom, Closed, Written,
         NoUploadRow, NoSweep, NoPurge, NoClosing

LEMMA TypeFacts ==
    ASSUME TypeOK
    PROVE  /\ \A w \in Sweepers : sweep[w].files \subseteq Files
           /\ purge.uploads \subseteq Uploads /\ purge.keys \subseteq Keys
           /\ purge.files \subseteq Files
           /\ closing.files \subseteq Files
           /\ \A f \in Files : f[1] \in Uploads
           /\ \A r \in Requests : UploadsOf[r] \subseteq Uploads /\ KeyOf[r] \in Keys
  BY DEF TypeOK, SweepRows, PurgeRows, ClosingRows, Files

(* How the statuses move, whichever the action.                            *)
LEMMA StatusSet ==
    ASSUME TypeOK, NEW u \in Uploads, NEW s, SetStatus(u, s)
    PROVE  \A v \in Uploads :
             upload'[v].status = IF v = u THEN s ELSE upload[v].status
<1>1. \A v \in Uploads : upload[v] \in UploadRows
  BY DEF TypeOK
<1> QED
  BY <1>1 DEF TypeOK, SetStatus, UploadRows

LEMMA StatusRemoved ==
    ASSUME TypeOK, NEW S, RemoveRows(S)
    PROVE  \A v \in Uploads :
             upload'[v].status = IF v \in S /\ Exists(v) THEN "removed" ELSE upload[v].status
<1>1. \A v \in Uploads : upload[v] \in UploadRows
  BY DEF TypeOK
<1> QED
  BY <1>1 DEF TypeOK, RemoveRows, UploadRows

LEMMA StatusKept ==
    ASSUME TypeOK, NEW u \in Uploads, Expire(u) \/ SaveThumbnailKey(u)
    PROVE  \A v \in Uploads : upload'[v].status = upload[v].status
<1>1. \A v \in Uploads : upload[v] \in UploadRows
  BY DEF TypeOK
<1> QED
  BY <1>1 DEF TypeOK, Expire, SaveThumbnailKey, UploadRows

SameStatus == \A v \in Uploads : upload'[v].status = upload[v].status

LEMMA InvUpload ==
    ASSUME TypeOK, Inv, NEW u \in Uploads, UploadStep(u)
    PROVE  Inv'
<1> USE TypeFacts, FilesFacts DEF files, removals
<1>1. CASE SameStatus /\ stored \subseteq stored'
           /\ UNCHANGED <<attached, message, open, request, sweep, purge, closing, doomed>>
  <2> USE <1>1 DEF Inv
  <2>1. Links' /\ Ready' /\ Locks' /\ Closed'
    BY DEF Links, Ready, Locks, Closed, Written, SameStatus
  <2>2. Sweeps'
    BY DEF Sweeps, SameStatus
  <2>3. Purges' /\ Closings' /\ Doom'
    BY DEF Purges, Closings, Doom, SameStatus, TypeOK
  <2> QED
    BY <2>1, <2>2, <2>3
<1>2. CASE Reserve(u) \/ Complete(u)
  <2>1. \A v \in Uploads : \/ upload'[v].status = upload[v].status
                           \/ /\ v = u /\ Original(u) \in stored
                              /\ upload[v].status = "reserved"
                              /\ upload'[v].status = "validated"
                           \/ /\ v = u /\ upload[v].status = "absent"
                              /\ upload'[v].status = "reserved"
    BY <1>2, StatusSet DEF Reserve, Complete
  <2>2. UNCHANGED <<attached, message, open, request, stored, sweep, purge, closing, doomed>>
    BY <1>2 DEF Reserve, Complete
  <2> HIDE <1>2
  <2>3. Links' /\ Ready' /\ Locks' /\ Closed'
    BY <2>1, <2>2 DEF Inv, Links, Ready, Locks, Closed, Written
  <2>4. Sweeps'
    BY <2>1, <2>2 DEF Inv, Sweeps
  <2>5. Purges' /\ Closings' /\ Doom'
    BY <2>1, <2>2 DEF Inv, Purges, Closings, Doom, TypeOK
  <2> QED
    BY <2>3, <2>4, <2>5 DEF Inv
<1>3. CASE RefreshUrl(u) \/ Put(u) \/ UrlEnds(u) \/ ReadOriginal(u) \/ StoreThumbnail(u)
           \/ ThumbnailFails(u)
  BY <1>1, <1>3
     DEF RefreshUrl, Put, UrlEnds, ReadOriginal, StoreThumbnail, ThumbnailFails, SameStatus
<1>4. CASE Expire(u) \/ SaveThumbnailKey(u)
  <2>1. SameStatus
    BY <1>4, StatusKept DEF SameStatus
  <2> QED
    BY <1>1, <1>4, <2>1 DEF Expire, SaveThumbnailKey
<1> QED
  BY <1>2, <1>3, <1>4 DEF UploadStep

LEMMA InvSend ==
    ASSUME TypeOK, Inv, NEW r \in Requests, SendStep(r)
    PROVE  Inv'
<1> USE TypeFacts DEF files, removals
<1>1. CASE UNCHANGED <<upload, attached, message, open, files, removals>>
           /\ \A q \in Requests : request'[q] = "locked" => request[q] = "locked"
  <2>1. Links' /\ Ready' /\ Locks' /\ Closed'
    BY <1>1 DEF Inv, Links, Ready, Locks, Closed, Written
  <2>2. Sweeps' /\ Purges' /\ Closings' /\ Doom'
    BY <1>1 DEF Inv, Sweeps, Purges, Closings, Doom
  <2> QED
    BY <2>1, <2>2 DEF Inv
<1>2. CASE LockUploads(r)
  <2>1. CASE LockAnswer(r) # "locked"
    BY <1>1, <1>2, <2>1 DEF LockUploads, Answer, TypeOK
  <2>2. CASE LockAnswer(r) = "locked"
    <3>1. \A u \in UploadsOf[r] : upload[u].status = "validated" /\ ~Held(u)
      BY <1>2, <2>2 DEF LockUploads, LockAnswer, Usable
    <3>2. request' = [request EXCEPT ![r] = "locked"]
      BY <1>2, <2>2 DEF LockUploads, Answer
    <3>3. UNCHANGED <<upload, attached, message, open, stored, sweep, purge, closing, doomed>>
      BY <1>2 DEF LockUploads
    <3>4. Locks'
      BY <3>1, <3>2, <3>3 DEF Inv, Locks, Held, TypeOK
    <3>5. Links' /\ Ready' /\ Closed' /\ Sweeps' /\ Purges' /\ Closings' /\ Doom'
      BY <3>3 DEF Inv, Links, Ready, Closed, Written, Sweeps, Purges, Closings, Doom
    <3> QED
      BY <3>4, <3>5 DEF Inv
  <2> QED
    BY <2>1, <2>2
<1>3. CASE SaveMessage(r)
  <2>1. \A u \in UploadsOf[r] : upload[u].status = "validated"
    BY <1>3 DEF SaveMessage, ReadyToSave, Inv, Locks
  <2>2. \A u \in Uploads : upload'[u].status =
          IF u \in UploadsOf[r] THEN "linked" ELSE upload[u].status
    <3>1. \A u \in Uploads : upload[u] \in UploadRows
      BY DEF TypeOK
    <3> QED
      BY <1>3, <3>1 DEF SaveMessage, UploadRows
  <2>3. attached' = [u \in Uploads |-> IF u \in UploadsOf[r] THEN KeyOf[r] ELSE attached[u]]
    BY <1>3 DEF SaveMessage
  <2>4. UNCHANGED <<open, stored, sweep, purge, closing, doomed>> /\ open
    BY <1>3 DEF SaveMessage
  <2>5. request' = [request EXCEPT ![r] = "answered"]
    BY <1>3 DEF SaveMessage, Answer
  <2>6. Links' /\ Ready' /\ Closed'
    BY <2>1, <2>2, <2>3, <2>4 DEF Inv, Links, Ready, Closed
  <2>7. Locks'
    <3>1. \A q \in Requests : request'[q] = "locked" => q # r /\ request[q] = "locked"
      BY <2>5 DEF TypeOK
    <3>2. UploadsOf[r] = {} \/ request[r] = "locked"
      BY <1>3 DEF SaveMessage, ReadyToSave
    <3> QED
      BY <2>1, <2>2, <3>1, <3>2 DEF Inv, Locks
  <2>8. Sweeps'
    BY <2>1, <2>2, <2>4 DEF Inv, Sweeps
  <2>9. Purges' /\ Closings' /\ Doom'
    BY <2>1, <2>2, <2>3, <2>4 DEF Inv, Purges, Closings, Doom, TypeOK
  <2> QED
    BY <2>6, <2>7, <2>8, <2>9 DEF Inv
<1>4. CASE Check(r) \/ SaveMeetsMessage(r) \/ Fail(r)
  BY <1>1, <1>4 DEF Check, SaveMeetsMessage, Fail, Answer, TypeOK
<1> QED
  BY <1>2, <1>3, <1>4 DEF SendStep

LEMMA InvSweep ==
    ASSUME TypeOK, Inv, NEW w \in Sweepers, SweepStep(w)
    PROVE  Inv'
<1> USE TypeFacts, FilesFacts DEF files
<1>1. ASSUME NEW u \in Uploads, SweepClaim(w, u) PROVE Inv'
  <2>1. /\ upload[u].status \in {"reserved", "validated", "expired"} /\ attached[u] = NoKey
        /\ ~Held(u)
    BY <1>1 DEF SweepClaim, Claimable
  <2>2. \A v \in Uploads : upload'[v].status = IF v = u THEN "expired" ELSE upload[v].status
    BY <1>1, StatusSet DEF SweepClaim
  <2>3. UNCHANGED <<attached, message, open, request, stored, purge, closing, doomed>>
    BY <1>1 DEF SweepClaim
  <2>4. sweep' = [sweep EXCEPT ![w] = [at |-> "claimed", upload |-> u, files |-> FilesOf(u)]]
    BY <1>1 DEF SweepClaim
  <2>5. Links' /\ Ready' /\ Locks' /\ Closed'
    BY <2>1, <2>2, <2>3 DEF Inv, Links, Ready, Locks, Held, Closed, Written
  <2>6. Sweeps'
    BY <2>2, <2>4, FilesOfFacts DEF Inv, Sweeps, TypeOK
  <2>7. Purges' /\ Closings' /\ Doom'
    BY <2>1, <2>2, <2>3 DEF Inv, Purges, Closings, Doom, TypeOK
  <2> QED
    BY <2>5, <2>6, <2>7 DEF Inv
<1>2. CASE SweepErase(w) \/ SweepFails(w)
  <2>1. sweep[w].at # "idle"
    BY <1>2 DEF SweepErase, SweepFails
  <2>2. stored \ sweep[w].files \subseteq stored'
    BY <1>2 DEF SweepErase, SweepFails
  <2>3. UNCHANGED <<upload, attached, message, open, request, purge, closing, doomed>>
    BY <1>2 DEF SweepErase, SweepFails
  <2>4. Ready'
    BY <2>1, <2>2, <2>3 DEF Inv, Ready, Sweeps
  <2>5. Sweeps'
    <3>1. CASE SweepErase(w)
      BY <2>1, <2>3, <3>1 DEF SweepErase, Inv, Sweeps, TypeOK, SweepRows
    <3>2. CASE SweepFails(w)
      BY <2>3, <3>2 DEF SweepFails, Inv, Sweeps, TypeOK, NoSweep
    <3> QED
      BY <1>2, <3>1, <3>2
  <2>6. Links' /\ Locks' /\ Closed' /\ Purges' /\ Closings' /\ Doom'
    BY <2>3 DEF Inv, Links, Locks, Closed, Written, Purges, Closings, Doom
  <2> QED
    BY <2>4, <2>5, <2>6 DEF Inv
<1>3. CASE SweepDelete(w)
  <2>1. \A v \in Uploads : \/ upload'[v].status = upload[v].status
                           \/ /\ upload[v].status = "expired" /\ attached[v] = NoKey
                              /\ upload'[v].status = "removed"
    <3>1. \A v \in Uploads : upload[v] \in UploadRows
      BY DEF TypeOK
    <3> QED
      BY <1>3, <3>1 DEF SweepDelete, UploadRows
  <2>2. UNCHANGED <<attached, message, open, request, stored, purge, closing, doomed>>
    BY <1>3 DEF SweepDelete
  <2>3. Links' /\ Ready' /\ Locks' /\ Closed'
    BY <2>1, <2>2 DEF Inv, Links, Ready, Locks, Closed, Written
  <2>4. Sweeps'
    BY <1>3, <2>1 DEF SweepDelete, Inv, Sweeps, TypeOK, NoSweep
  <2>5. Purges' /\ Closings' /\ Doom'
    BY <2>1, <2>2 DEF Inv, Purges, Closings, Doom, TypeOK
  <2> QED
    BY <2>3, <2>4, <2>5 DEF Inv
<1> QED
  BY <1>1, <1>2, <1>3 DEF SweepStep

LEMMA InvPurge ==
    ASSUME TypeOK, Inv, PurgeList \/ PurgeMessages \/ PurgeUploads \/ PurgeDies
    PROVE  Inv'
<1> USE TypeFacts DEF files
<1>1. CASE PurgeList
  <2> DEFINE old == {k \in Keys : message[k] = "old"}
  <2>1. UNCHANGED <<upload, attached, message, open, request, stored, sweep, closing, doomed>>
    BY <1>1 DEF PurgeList
  <2>2. purge' = [at |-> "listed", keys |-> old, uploads |-> AttachedTo(old),
                  files |-> FilesOfAll(AttachedTo(old))]
    BY <1>1 DEF PurgeList
  <2>3. \A u \in AttachedTo(old) : u \in Uploads /\ attached[u] \in old /\ attached[u] # NoKey
    BY DEF AttachedTo
  <2>4. \A f \in FilesOfAll(AttachedTo(old)) : f[1] \in AttachedTo(old)
    BY FilesOfAllFacts DEF AttachedTo
  <2>5. Purges'
    BY <2>1, <2>2, <2>3, <2>4 DEF Inv, Links, Purges
  <2>6. Links' /\ Ready' /\ Locks' /\ Closed' /\ Sweeps' /\ Closings' /\ Doom'
    BY <2>1 DEF Inv, Links, Ready, Locks, Closed, Written, Sweeps, Closings, Doom
  <2> QED
    BY <2>5, <2>6 DEF Inv
<1>2. CASE PurgeMessages
  <2>1. UNCHANGED <<upload, open, request, stored, sweep, closing, doomed>>
    BY <1>2 DEF PurgeMessages
  <2>2. purge.at = "listed" /\ purge' = [purge EXCEPT !.at = "unlinked"]
    BY <1>2 DEF PurgeMessages
  <2>3. Unlink(purge.keys)
    BY <1>2 DEF PurgeMessages
  <2>4. Links' /\ Closed'
    BY <2>1, <2>3 DEF Inv, Links, Closed, Written, Unlink, TypeOK
  <2>5. Purges'
    BY <2>1, <2>2, <2>3 DEF Inv, Purges, Unlink, TypeOK, PurgeRows
  <2>6. Ready' /\ Locks' /\ Sweeps' /\ Closings' /\ Doom'
    BY <2>1 DEF Inv, Ready, Locks, Sweeps, Closings, Doom
  <2> QED
    BY <2>4, <2>5, <2>6 DEF Inv
<1>3. CASE PurgeUploads
  <2>1. UNCHANGED <<attached, message, open, request, stored, sweep, closing>>
    BY <1>3 DEF PurgeUploads
  <2>2. purge.at = "unlinked" /\ purge' = NoPurge /\ doomed' = doomed \cup purge.files
    BY <1>3 DEF PurgeUploads
  <2>3. \A v \in Uploads : upload'[v].status =
          IF v \in purge.uploads /\ Exists(v) THEN "removed" ELSE upload[v].status
    BY <1>3, StatusRemoved DEF PurgeUploads
  <2>4. \A u \in purge.uploads : attached[u] = NoKey /\ upload[u].status \in {"linked", "removed"}
    BY <2>2 DEF Inv, Purges
  <2>5. Links' /\ Ready' /\ Locks' /\ Closed'
    BY <2>1, <2>3, <2>4 DEF Inv, Links, Ready, Locks, Closed, Written
  <2>6. Sweeps' /\ Closings'
    BY <2>1, <2>3 DEF Inv, Sweeps, Closings
  <2>7. Doom'
    BY <2>2, <2>3, <2>4 DEF Inv, Doom, Purges, Exists, TypeOK
  <2>8. Purges'
    BY <2>2 DEF Purges, NoPurge
  <2> QED
    BY <2>5, <2>6, <2>7, <2>8 DEF Inv
<1>4. CASE PurgeDies
  BY <1>4 DEF PurgeDies, Inv, Links, Ready, Locks, Closed, Written, Sweeps, Purges, Closings,
              Doom, NoPurge
<1> QED
  BY <1>1, <1>2, <1>3, <1>4

LEMMA InvClose ==
    ASSUME TypeOK, Inv, CloseList \/ CloseCommit \/ CloseFails
    PROVE  Inv'
<1> USE TypeFacts DEF files
<1>1. CASE CloseList
  <2>1. UNCHANGED <<upload, attached, message, open, request, stored, sweep, purge, doomed>>
    BY <1>1 DEF CloseList
  <2>2. \A f \in closing'.files : f[1] \in {u \in Uploads : Exists(u)}
    BY <1>1, FilesOfAllFacts DEF CloseList
  <2>3. Closings'
    BY <2>1, <2>2 DEF Closings, Exists
  <2>4. Links' /\ Ready' /\ Locks' /\ Closed' /\ Sweeps' /\ Purges' /\ Doom'
    BY <2>1 DEF Inv, Links, Ready, Locks, Closed, Written, Sweeps, Purges, Doom
  <2> QED
    BY <2>3, <2>4 DEF Inv
<1>2. CASE CloseCommit
  <2>1. UNCHANGED <<request, stored, sweep, purge>> /\ \A u \in Uploads : ~Held(u)
    BY <1>2 DEF CloseCommit
  <2>2. closing' = NoClosing /\ doomed' = doomed \cup closing.files
    BY <1>2 DEF CloseCommit
  <2>3. \A v \in Uploads : upload'[v].status = IF Exists(v) THEN "removed" ELSE upload[v].status
    BY <1>2, StatusRemoved DEF CloseCommit
  <2>4. \A u \in Uploads : attached'[u] = NoKey
    BY <1>2 DEF CloseCommit, Unlink, TypeOK
  <2>5. \A k \in Keys : ~Written(k)'
    BY <1>2 DEF CloseCommit, Unlink, Written, TypeOK
  <2>6. Links' /\ Ready' /\ Closed'
    BY <2>3, <2>4, <2>5 DEF Links, Ready, Closed, Exists
  <2>7. Locks'
    BY <2>1 DEF Inv, Locks, Held
  <2>8. Sweeps' /\ Purges'
    BY <2>1, <2>3, <2>4 DEF Inv, Sweeps, Purges, Exists
  <2>9. Closings' /\ Doom'
    BY <2>2, <2>3 DEF Inv, Closings, Doom, NoClosing, Exists, TypeOK
  <2> QED
    BY <2>6, <2>7, <2>8, <2>9 DEF Inv
<1>3. CASE CloseFails
  BY <1>3 DEF CloseFails, Inv, Links, Ready, Locks, Closed, Written, Sweeps, Purges, Closings,
              Doom, NoClosing
<1> QED
  BY <1>1, <1>2, <1>3

LEMMA InvStep == TypeOK /\ Inv /\ [Next]_vars => Inv'
<1> SUFFICES ASSUME TypeOK, Inv, [Next]_vars PROVE Inv'
  OBVIOUS
<1> USE DEF files
<1>1. ASSUME NEW k \in Keys, Age(k) PROVE Inv'
  <2>1. Closed'
    BY <1>1 DEF Age, Inv, Closed, Written, TypeOK
  <2>2. UNCHANGED <<upload, attached, request, stored, doomed, sweep, purge, closing>>
    BY <1>1 DEF Age, removals
  <2>3. Links' /\ Ready' /\ Locks' /\ Sweeps' /\ Purges' /\ Closings' /\ Doom'
    BY <2>2 DEF Inv, Links, Ready, Locks, Sweeps, Purges, Closings, Doom
  <2> QED
    BY <2>1, <2>3 DEF Inv
<1>2. ASSUME NEW f \in Files, EraseDoomed(f) \/ ForgetDoomed(f) PROVE Inv'
  <2>1. UNCHANGED <<upload, attached, message, open, request, sweep, purge, closing>>
    BY <1>2 DEF EraseDoomed, ForgetDoomed, removals
  <2>2. f \in doomed /\ doomed' \subseteq doomed /\ stored \ {f} \subseteq stored'
    BY <1>2 DEF EraseDoomed, ForgetDoomed
  <2>3. Ready' /\ Doom'
    BY <2>1, <2>2, FilesFacts DEF Inv, Ready, Doom
  <2>4. Links' /\ Locks' /\ Closed' /\ Sweeps' /\ Purges' /\ Closings'
    BY <2>1 DEF Inv, Links, Locks, Closed, Written, Sweeps, Purges, Closings
  <2> QED
    BY <2>3, <2>4 DEF Inv
<1>3. CASE RemovalStep
  BY <1>1, <1>2, <1>3, InvPurge, InvClose DEF RemovalStep
<1>4. CASE UNCHANGED vars
  BY <1>4 DEF vars, rows, Inv, Links, Ready, Locks, Closed, Written, Sweeps, Purges, Closings, Doom
<1> QED
  BY <1>3, <1>4, InvUpload, InvSend, InvSweep DEF Next, Step

LEMMA InvHolds == Spec => [](TypeOK /\ Inv)
  BY TypeInit, TypeStep, InvInit, InvStep, PTL DEF Spec

(* The file of an attachment is in the storage, whatever the cleanup, the  *)
(* purge and the end of the conversation are doing.                        *)
THEOREM AttachmentsCorrect == Spec => []AttachmentsStored
<1>1. Inv => AttachmentsStored
  BY DEF Inv, Links, Ready, AttachmentsStored
<1> QED
  BY <1>1, InvHolds, PTL

(* A message keeps the files it was sent with until it goes.               *)
THEOREM MessageCorrect == Spec => MessageKeepsFiles
<1> DEFINE Kept == \A k \in Keys : Written(k) /\ Written(k)' => AttachedTo({k})' = AttachedTo({k})
<1>1. TypeOK /\ Inv /\ [Next]_vars => [Kept]_vars
  <2> SUFFICES ASSUME TypeOK, Inv, Next PROVE Kept
    OBVIOUS
  <2> USE DEF AttachedTo, Written
  <2>1. CASE UNCHANGED attached
    BY <2>1
  <2>2. ASSUME NEW r \in Requests, SaveMessage(r) PROVE Kept
    <3>1. \A u \in UploadsOf[r] : upload[u].status = "validated"
      BY <2>2, TypeFacts DEF SaveMessage, ReadyToSave, Inv, Locks
    <3>2. \A u \in Uploads : u \in UploadsOf[r] => attached[u] = NoKey
      BY <3>1 DEF Inv, Links
    <3>3. \A u \in Uploads : attached'[u] = IF u \in UploadsOf[r] THEN KeyOf[r] ELSE attached[u]
      BY <2>2 DEF SaveMessage
    <3>4. ~Written(KeyOf[r])
      BY <2>2 DEF SaveMessage
    <3> QED
      BY <3>2, <3>3, <3>4
  <2>3. ASSUME NEW S, Unlink(S) PROVE Kept
    BY <2>3 DEF Unlink, TypeOK
  <2>4. UNCHANGED attached \/ (\E r \in Requests : SaveMessage(r))
          \/ Unlink(purge.keys) \/ Unlink(Keys)
    BY DEF Next, Step, UploadStep, SendStep, SweepStep, RemovalStep, Reserve, RefreshUrl, Put,
           UrlEnds, Expire, Complete, ReadOriginal, StoreThumbnail, SaveThumbnailKey,
           ThumbnailFails, Check, LockUploads, SaveMeetsMessage, Fail, SweepClaim, SweepErase,
           SweepFails, SweepDelete, Age, PurgeList, PurgeMessages, PurgeUploads, PurgeDies,
           CloseList, CloseCommit, CloseFails, EraseDoomed, ForgetDoomed
  <2> QED
    BY <2>1, <2>2, <2>3, <2>4
<1> QED
  BY <1>1, InvHolds, PTL DEF Spec, MessageKeepsFiles

(* A request is never refused when the message it asks for is there.       *)
THEOREM RepeatsCorrect == Spec => RepeatsAnswered
<1> DEFINE Answered == \A r \in Requests :
              request[r] # "refused" /\ request'[r] = "refused" => ~SentAs(r)
<1>1. TypeOK /\ Inv /\ [Next]_vars => [Answered]_vars
  <2> SUFFICES ASSUME TypeOK, Inv, Next, NEW r \in Requests,
                      request[r] # "refused", request'[r] = "refused", SentAs(r)
               PROVE FALSE
    OBVIOUS
  <2>1. UNCHANGED request \/ \E q \in Requests : SendStep(q)
    BY DEF Next, Step, UploadStep, SweepStep, RemovalStep, Reserve, RefreshUrl, Put,
           UrlEnds, Expire, Complete, ReadOriginal, StoreThumbnail, SaveThumbnailKey,
           ThumbnailFails, SweepClaim, SweepErase,
           SweepFails, SweepDelete, Age, PurgeList, PurgeMessages, PurgeUploads, PurgeDies,
           CloseList, CloseCommit, CloseFails, EraseDoomed, ForgetDoomed
  <2>2. PICK q \in Requests : SendStep(q)
    BY <2>1
  <2>3. CASE Check(q)
    BY <2>3, TypeFacts DEF Check, Answer, TypeOK, Inv, Closed, SentAs
  <2>4. CASE LockUploads(q)
    <3>1. q = r /\ LockAnswer(r) = "refused" /\ UploadsOf[r] # {}
      BY <2>4 DEF LockUploads, Answer, TypeOK
    <3>2. Written(KeyOf[r]) /\ \A u \in UploadsOf[r] : u \in Uploads /\ attached[u] # NoKey
      BY TypeFacts DEF SentAs, AttachedTo
    <3>3. \A u \in UploadsOf[r] : upload[u].status = "linked"
      BY <3>2 DEF Inv, Links
    <3> QED
      BY <3>1, <3>2, <3>3 DEF LockAnswer, Usable
  <2>5. CASE SaveMessage(q) \/ SaveMeetsMessage(q) \/ Fail(q)
    BY <2>5 DEF SaveMessage, SaveMeetsMessage, Fail, Answer, TypeOK
  <2> QED
    BY <2>2, <2>3, <2>4, <2>5 DEF SendStep
<1> QED
  BY <1>1, InvHolds, PTL DEF Spec, RepeatsAnswered

-----------------------------------------------------------------------------
(* FilesHaveOwners: what a removal under way holds is all there is of its  *)
(* uploads, as long as nothing has disturbed one.                          *)

Refs ==
    /\ \A u \in Uploads :
         /\ u \in url => upload[u].status # "absent"
         /\ task[u] # "none" => upload[u].status \notin {"absent", "reserved"}
    /\ purge.at = "idle" => purge.uploads = {}
    /\ purge.at = "listed" =>
         /\ \A u \in Uploads : attached[u] \in purge.keys => u \in purge.uploads
         /\ open => \A k \in purge.keys : Written(k)

Calm == \A u \in Uploads \cap BeingRemoved : Settled(u)

LinkedHaveMessages ==
    \A u \in Uploads :
        upload[u].status = "linked" => attached[u] # NoKey \/ u \in purge.uploads

SweepsHold ==
    \A w \in Sweepers :
        sweep[w].at # "idle" /\ upload[sweep[w].upload].status = "expired" =>
            /\ FilesOf(sweep[w].upload) \subseteq sweep[w].files
            /\ sweep[w].at = "erased" => FilesOf(sweep[w].upload) \cap stored = {}

PurgeHolds == \A u \in purge.uploads : Exists(u) => FilesOf(u) \subseteq purge.files

ClosingHolds ==
    closing.at = "listed" =>
        \A u \in Uploads : Exists(u) => FilesOf(u) \subseteq closing.files

Owned == \A f \in stored : NamedBy(f) \/ BeingSaved(f) \/ f \in doomed

Holdings == Calm /\ LinkedHaveMessages /\ SweepsHold /\ PurgeHolds /\ ClosingHolds /\ Owned

OwnInv == Refs /\ (undisturbed => Holdings)

LEMMA OwnInit == Init => OwnInv
  BY DEF Init, OwnInv, Refs, Holdings, Calm, LinkedHaveMessages, SweepsHold, PurgeHolds,
         ClosingHolds, Owned, BeingRemoved, NoUploadRow, NoSweep, NoPurge, NoClosing, Exists

(* Only the thumbnail task names another file.                             *)
LEMMA ThumbsKept ==
    ASSUME TypeOK, Next, \A u \in Uploads : ~SaveThumbnailKey(u)
    PROVE  \A v \in Uploads : upload'[v].thumb = upload[v].thumb
<1> USE DEF SetStatus
<1>0. \A v \in Uploads : upload[v] \in UploadRows
  BY DEF TypeOK
<1>1. CASE UNCHANGED upload
  BY <1>1
<1>2. ASSUME NEW u \in Uploads, Reserve(u) \/ Complete(u) \/ Expire(u)
      PROVE \A v \in Uploads : upload'[v].thumb = upload[v].thumb
  BY <1>0, <1>2 DEF Reserve, Complete, Expire, TypeOK, UploadRows
<1>3. ASSUME NEW r \in Requests, SaveMessage(r)
      PROVE \A v \in Uploads : upload'[v].thumb = upload[v].thumb
  BY <1>0, <1>3 DEF SaveMessage, UploadRows
<1>4. ASSUME NEW w \in Sweepers, NEW u \in Uploads, SweepClaim(w, u)
      PROVE \A v \in Uploads : upload'[v].thumb = upload[v].thumb
  BY <1>0, <1>4 DEF SweepClaim, TypeOK, UploadRows
<1>5. ASSUME NEW S, RemoveRows(S)
      PROVE \A v \in Uploads : upload'[v].thumb = upload[v].thumb
  BY <1>0, <1>5 DEF RemoveRows, UploadRows
<1>6. \/ UNCHANGED upload
      \/ \E u \in Uploads : Reserve(u) \/ Complete(u) \/ Expire(u)
      \/ \E r \in Requests : SaveMessage(r)
      \/ \E w \in Sweepers : SweepDelete(w) \/ \E u \in Uploads : SweepClaim(w, u)
      \/ RemoveRows(purge.uploads) \/ RemoveRows(Uploads)
  BY DEF Next, Step, UploadStep, SendStep, SweepStep, RemovalStep, RefreshUrl, Put,
         UrlEnds, ReadOriginal, StoreThumbnail, ThumbnailFails, Check, LockUploads,
         SaveMeetsMessage, Fail, SweepErase, SweepFails, Age, PurgeList, PurgeMessages,
         PurgeUploads, PurgeDies, CloseList, CloseCommit, CloseFails, EraseDoomed, ForgetDoomed
<1>7. ASSUME NEW w \in Sweepers, SweepDelete(w)
      PROVE \A v \in Uploads : upload'[v].thumb = upload[v].thumb
  BY <1>0, <1>7 DEF SweepDelete, UploadRows
<1> QED
  BY <1>1, <1>2, <1>3, <1>4, <1>5, <1>6, <1>7

LEMMA RefsStep == TypeOK /\ Inv /\ Refs /\ [Next]_vars => Refs'
<1> SUFFICES ASSUME TypeOK, Inv, Refs, [Next]_vars PROVE Refs'
  OBVIOUS
<1> USE TypeFacts DEF files, removals
<1>1. CASE UNCHANGED vars
  BY <1>1 DEF vars, rows, Refs, Written
<1>2. ASSUME NEW u \in Uploads, UploadStep(u) PROVE Refs'
  <2>1. UNCHANGED <<attached, message, open, purge>>
    BY <1>2 DEF UploadStep, Reserve, RefreshUrl, Put, UrlEnds, Expire, Complete, ReadOriginal,
                StoreThumbnail, SaveThumbnailKey, ThumbnailFails
  <2>2. \A v \in Uploads :
          /\ v \in url' => upload'[v].status # "absent"
          /\ task'[v] # "none" => upload'[v].status \notin {"absent", "reserved"}
    <3>1. CASE Reserve(u) \/ Complete(u)
      <4>1. \A v \in Uploads : v # u => (v \in url' <=> v \in url) /\ task'[v] = task[v]
        BY <3>1 DEF Reserve, Complete, TypeOK
      <4>2. \A v \in Uploads : upload'[v].status =
              IF v = u THEN IF Reserve(u) THEN "reserved" ELSE "validated" ELSE upload[v].status
        BY <3>1, StatusSet DEF Reserve, Complete
      <4>3. Reserve(u) => task'[u] = "none"
        BY DEF Reserve, Refs
      <4> QED
        BY <3>1, <4>1, <4>2, <4>3 DEF Refs
    <3>2. CASE Expire(u) \/ SaveThumbnailKey(u)
      BY <3>2, StatusKept DEF Expire, SaveThumbnailKey, SetTask, Refs, TypeOK
    <3>3. CASE RefreshUrl(u) \/ Put(u) \/ UrlEnds(u) \/ ReadOriginal(u)
               \/ StoreThumbnail(u) \/ ThumbnailFails(u)
      BY <3>3 DEF RefreshUrl, Put, UrlEnds, ReadOriginal, StoreThumbnail, ThumbnailFails,
                  SetTask, Refs, TypeOK
    <3> QED
      BY <1>2, <3>1, <3>2, <3>3 DEF UploadStep
  <2> QED
    BY <2>1, <2>2 DEF Refs, Written
<1>3. ASSUME NEW r \in Requests, SaveMessage(r) PROVE Refs'
  <2>1. /\ UNCHANGED <<open, url, task, purge>> /\ open /\ ~Written(KeyOf[r])
        /\ message' = [message EXCEPT ![KeyOf[r]] = "sent"]
    BY <1>3 DEF SaveMessage
  <2>2. \A u \in Uploads : \/ upload'[u].status = upload[u].status
                           \/ upload'[u].status \notin {"absent", "reserved"}
    <3>1. \A u \in Uploads : upload[u] \in UploadRows
      BY DEF TypeOK
    <3> QED
      BY <1>3, <3>1 DEF SaveMessage, UploadRows
  <2>3. \A u \in Uploads : attached'[u] = IF u \in UploadsOf[r] THEN KeyOf[r] ELSE attached[u]
    BY <1>3 DEF SaveMessage
  <2> QED
    BY <2>1, <2>2, <2>3 DEF Refs, Written, TypeOK
<1>4. ASSUME NEW r \in Requests, Check(r) \/ LockUploads(r) \/ SaveMeetsMessage(r) \/ Fail(r)
      PROVE Refs'
  BY <1>4 DEF Check, LockUploads, SaveMeetsMessage, Fail, Refs, Written
<1>5. ASSUME NEW w \in Sweepers, SweepStep(w) PROVE Refs'
  <2>1. UNCHANGED <<attached, message, open, url, task, purge>>
    BY <1>5 DEF SweepStep, SweepClaim, SweepErase, SweepFails, SweepDelete
  <2>2. \A v \in Uploads : \/ upload'[v].status = upload[v].status
                           \/ upload'[v].status \notin {"absent", "reserved"}
    <3>1. ASSUME NEW u \in Uploads, SweepClaim(w, u)
          PROVE \A v \in Uploads : \/ upload'[v].status = upload[v].status
                                   \/ upload'[v].status \notin {"absent", "reserved"}
      BY <3>1, StatusSet DEF SweepClaim
    <3>2. CASE SweepErase(w) \/ SweepFails(w)
      BY <3>2 DEF SweepErase, SweepFails
    <3>3. CASE SweepDelete(w)
      <4>1. \A v \in Uploads : upload[v] \in UploadRows
        BY DEF TypeOK
      <4> QED
        BY <3>3, <4>1 DEF SweepDelete, UploadRows
    <3> QED
      BY <1>5, <3>1, <3>2, <3>3 DEF SweepStep
  <2> QED
    BY <2>1, <2>2 DEF Refs, Written
<1>6. CASE PurgeList
  BY <1>6 DEF PurgeList, Refs, AttachedTo, Written
<1>7. CASE PurgeMessages
  BY <1>7 DEF PurgeMessages, Refs, TypeOK, PurgeRows
<1>8. CASE PurgeUploads \/ PurgeDies
  BY <1>8, StatusRemoved DEF PurgeUploads, PurgeDies, Refs, NoPurge
<1>9. CASE CloseCommit
  <2>1. \A u \in Uploads : attached'[u] = NoKey
    BY <1>9 DEF CloseCommit, Unlink, TypeOK
  <2> QED
    BY <1>9, <2>1, StatusRemoved DEF CloseCommit, Refs
<1>10. CASE CloseList \/ CloseFails
  BY <1>10 DEF CloseList, CloseFails, Refs, Written
<1>11. ASSUME NEW f \in Files, EraseDoomed(f) \/ ForgetDoomed(f) PROVE Refs'
  BY <1>11 DEF EraseDoomed, ForgetDoomed, Refs, Written
<1>12. ASSUME NEW k \in Keys, Age(k) PROVE Refs'
  BY <1>12 DEF Age, Refs, Written, TypeOK
<1> QED
  BY <1>1, <1>2, <1>3, <1>4, <1>5, <1>6, <1>7, <1>8, <1>9, <1>10, <1>11, <1>12
     DEF Next, Step, SendStep, RemovalStep

LEMMA OwnedKept ==
    ASSUME Owned,
           \A u \in Uploads : Reached(u) => Reached(u)' /\ FilesOf(u) \subseteq FilesOf(u)',
           \A u \in Uploads : task[u] = "saved" => task'[u] = "saved",
           stored' \subseteq stored, doomed \subseteq doomed'
    PROVE  Owned'
  BY DEF Owned, NamedBy, BeingSaved

(* An upload with something on its way is not being removed.               *)
LEMMA NotRemoved ==
    ASSUME TypeOK, NEW u \in Uploads, u \notin BeingRemoved
    PROVE  /\ \A w \in Sweepers : sweep[w].upload # u
           /\ u \notin purge.uploads /\ closing.at # "listed"
           /\ upload[u].status # "removed"
  BY DEF BeingRemoved

LEMMA OwnFiles ==
    ASSUME TypeOK, Inv, Refs, Holdings, Next, Undisturbed, NEW u \in Uploads,
           \/ RefreshUrl(u) \/ Put(u) \/ UrlEnds(u) \/ ReadOriginal(u) \/ StoreThumbnail(u)
           \/ ThumbnailFails(u)
    PROVE  Holdings'
<1> USE DEF Holdings
<1>1. UNCHANGED <<upload, attached, sweep, purge, closing, doomed>>
  BY DEF RefreshUrl, Put, UrlEnds, ReadOriginal, StoreThumbnail, ThumbnailFails, removals
<1>2. Calm'
  BY DEF Undisturbed, Calm
<1>3. LinkedHaveMessages' /\ PurgeHolds' /\ ClosingHolds'
  BY <1>1 DEF LinkedHaveMessages, PurgeHolds, ClosingHolds, Exists, FilesOf
<1>4. BeingRemoved' = BeingRemoved
  BY <1>1 DEF BeingRemoved
<1>5. \A v \in Uploads : (Reached(v) <=> Reached(v)') /\ FilesOf(v) = FilesOf(v)'
  BY <1>1 DEF Reached, Exists, FilesOf
<1>6. CASE Put(u) \/ StoreThumbnail(u)
  <2>1. u \notin BeingRemoved
    BY <1>2, <1>4, <1>6 DEF Calm, Settled, Put, StoreThumbnail, SetTask, TypeOK
  <2>2. \A f \in stored' \ stored : f[1] = u
    BY <1>6, FilesFacts DEF Put, StoreThumbnail
  <2>3. SweepsHold'
    <3> SUFFICES ASSUME NEW w \in Sweepers, sweep[w].at # "idle",
                        upload[sweep[w].upload].status = "expired"
                 PROVE  /\ FilesOf(sweep[w].upload)' \subseteq sweep[w].files
                        /\ sweep[w].at = "erased" => FilesOf(sweep[w].upload)' \cap stored' = {}
      BY <1>1 DEF SweepsHold
    <3>1. sweep[w].upload \in Uploads \ {u}
      BY <2>1, NotRemoved DEF Inv, Sweeps
    <3>2. \A f \in FilesOf(sweep[w].upload) : f[1] # u
      BY <3>1, FilesOfFacts
    <3>3. FilesOf(sweep[w].upload)' = FilesOf(sweep[w].upload)
      BY <1>1 DEF FilesOf
    <3>4. FilesOf(sweep[w].upload) \cap (stored' \ stored) = {}
      BY <2>2, <3>2
    <3> QED
      BY <3>3, <3>4 DEF SweepsHold
  <2>4. Reached(u)
    <3>1. upload[u].status # "absent"
      BY <1>6 DEF Refs, Put, StoreThumbnail
    <3> QED
      BY <2>1, <3>1, NotRemoved DEF Reached, Exists, LinkedHaveMessages
  <2>5. Owned'
    <3> SUFFICES ASSUME NEW f \in stored' PROVE NamedBy(f)' \/ BeingSaved(f)' \/ f \in doomed'
      BY DEF Owned
    <3>1. CASE f \in stored
      <4>1. BeingSaved(f) => BeingSaved(f)'
        BY <1>6 DEF BeingSaved, Put, StoreThumbnail, SetTask, TypeOK
      <4>2. NamedBy(f) => NamedBy(f)'
        BY <1>5 DEF NamedBy
      <4> QED
        BY <1>1, <3>1, <4>1, <4>2 DEF Owned
    <3>2. CASE f = Original(u)
      BY <1>5, <2>4, <3>2 DEF NamedBy, FilesOf
    <3>3. CASE StoreThumbnail(u) /\ f = Thumbnail(u)
      BY <3>3 DEF StoreThumbnail, SetTask, BeingSaved, TypeOK
    <3> QED
      BY <1>6, <3>1, <3>2, <3>3 DEF Put, StoreThumbnail
  <2> QED
    BY <1>2, <1>3, <2>3, <2>5
<1>7. CASE RefreshUrl(u) \/ UrlEnds(u) \/ ReadOriginal(u) \/ ThumbnailFails(u)
  <2>1. stored' = stored
    BY <1>7 DEF RefreshUrl, UrlEnds, ReadOriginal, ThumbnailFails
  <2>2. SweepsHold'
    BY <1>1, <1>5, <2>1 DEF SweepsHold, Inv, Sweeps
  <2>3. Owned'
    <3> SUFFICES ASSUME NEW f \in stored, BeingSaved(f) PROVE NamedBy(f)' \/ BeingSaved(f)'
      BY <1>1, <1>5, <2>1 DEF Owned, NamedBy
    <3>1. PICK v \in Uploads : f = Thumbnail(v) /\ task[v] = "saved"
      BY DEF BeingSaved
    <3>2. CASE task'[v] = "saved"
      BY <3>1, <3>2 DEF BeingSaved
    <3>3. CASE upload[v].thumb
      <4>1. v \notin BeingRemoved
        BY <3>1 DEF Calm, Settled
      <4>2. Reached(v)
        BY <3>1, <4>1, NotRemoved DEF Refs, Reached, Exists, LinkedHaveMessages
      <4> QED
        BY <1>5, <3>1, <3>3, <4>2 DEF NamedBy, FilesOf
    <3> QED
      BY <1>1, <3>1, <3>2, <3>3 DEF Undisturbed, ThumbnailsNamed
  <2> QED
    BY <1>2, <1>3, <2>2, <2>3
<1> QED
  BY <1>6, <1>7

LEMMA OwnThumbnail ==
    ASSUME TypeOK, Inv, Refs, Holdings, Next, Undisturbed, NEW u \in Uploads, SaveThumbnailKey(u)
    PROVE  Holdings'
<1> USE DEF Holdings
<1>1. UNCHANGED <<attached, stored, sweep, purge, closing, doomed>>
  BY DEF SaveThumbnailKey, removals
<1>2. u \notin BeingRemoved
  BY DEF SaveThumbnailKey, Calm, Settled
<1>3. \A v \in Uploads : upload'[v].status = upload[v].status
  BY StatusKept
<1>4. \A v \in Uploads : upload'[v].thumb = IF v = u THEN TRUE ELSE upload[v].thumb
  <2>1. \A v \in Uploads : upload[v] \in UploadRows
    BY DEF TypeOK
  <2> QED
    BY <2>1 DEF SaveThumbnailKey, TypeOK, UploadRows
<1>5. \A v \in Uploads : v # u => FilesOf(v)' = FilesOf(v)
  BY <1>4 DEF FilesOf
<1>6. Calm'
  BY DEF Undisturbed, Calm
<1>7. LinkedHaveMessages'
  BY <1>1, <1>3 DEF LinkedHaveMessages
<1>8. SweepsHold'
  <2> SUFFICES ASSUME NEW w \in Sweepers, sweep[w].at # "idle",
                      upload'[sweep[w].upload].status = "expired"
               PROVE  /\ FilesOf(sweep[w].upload)' \subseteq sweep[w].files
                      /\ sweep[w].at = "erased" => FilesOf(sweep[w].upload)' \cap stored = {}
    BY <1>1 DEF SweepsHold
  <2>1. sweep[w].upload \in Uploads /\ sweep[w].upload # u
    BY <1>2, NotRemoved DEF Inv, Sweeps
  <2>2. FilesOf(sweep[w].upload)' = FilesOf(sweep[w].upload)
    BY <1>1, <1>4, <2>1 DEF FilesOf
  <2> QED
    BY <1>3, <2>1, <2>2 DEF SweepsHold
<1>9. PurgeHolds'
  BY <1>1, <1>2, <1>3, <1>5, NotRemoved, TypeFacts DEF PurgeHolds, Exists
<1>10. ClosingHolds'
  BY <1>1, <1>2, NotRemoved DEF ClosingHolds
<1>11. Owned'
  <2>1. \A v \in Uploads : (Reached(v) => Reached(v)') /\ FilesOf(v) \subseteq FilesOf(v)'
    BY <1>1, <1>3, <1>4 DEF Reached, Exists, FilesOf
  <2>2. Reached(u)' /\ Thumbnail(u) \in FilesOf(u)'
    <3>1. Reached(u)
      BY <1>2, NotRemoved DEF SaveThumbnailKey, Reached, LinkedHaveMessages
    <3> QED
      BY <1>4, <2>1, <3>1 DEF FilesOf
  <2>3. \A v \in Uploads : v # u => task'[v] = task[v]
    BY DEF SaveThumbnailKey, SetTask, TypeOK
  <2> SUFFICES ASSUME NEW f \in stored PROVE NamedBy(f)' \/ BeingSaved(f)' \/ f \in doomed
    BY <1>1 DEF Owned
  <2>4. NamedBy(f) => NamedBy(f)'
    BY <2>1 DEF NamedBy
  <2>5. BeingSaved(f) => BeingSaved(f)' \/ NamedBy(f)'
    BY <2>2, <2>3 DEF BeingSaved, NamedBy
  <2> QED
    BY <2>4, <2>5 DEF Owned
<1> QED
  BY <1>6, <1>7, <1>8, <1>9, <1>10, <1>11

(* A step that neither adds a file nor names one.                          *)
LEMMA OwnRows ==
    ASSUME TypeOK, Inv, Refs, Holdings, Next, Undisturbed,
           \A u \in Uploads : upload'[u].thumb = upload[u].thumb,
           UNCHANGED <<stored, doomed>>,
           \A u \in Uploads : task[u] = "saved" => task'[u] = "saved",
           \A u \in Uploads : Reached(u) => Reached(u)',
           LinkedHaveMessages', SweepsHold', PurgeHolds', ClosingHolds'
    PROVE  Holdings'
<1>1. \A u \in Uploads : FilesOf(u)' = FilesOf(u)
  BY DEF FilesOf
<1>2. Owned'
  BY <1>1, OwnedKept DEF Holdings
<1> QED
  BY <1>2 DEF Holdings, Calm, Undisturbed

LEMMA OwnUpload ==
    ASSUME TypeOK, Inv, Refs, Holdings, Next, Undisturbed, NEW u \in Uploads,
           Reserve(u) \/ Expire(u) \/ Complete(u)
    PROVE  Holdings'
<1> USE DEF Holdings
<1>1. UNCHANGED <<attached, stored, doomed, sweep, purge, closing>>
  BY DEF Reserve, Expire, Complete, files, removals
<1>2. \A v \in Uploads : upload'[v].thumb = upload[v].thumb
  <2>1. \A v \in Uploads : upload[v] \in UploadRows
    BY DEF TypeOK
  <2> QED
    BY <2>1 DEF Reserve, Complete, Expire, SetStatus, TypeOK, UploadRows
<1>3. \A v \in Uploads : \/ upload'[v].status = upload[v].status
                         \/ upload[v].status = "reserved" /\ upload'[v].status = "validated"
                         \/ /\ Reserve(u) /\ v = u
                            /\ upload[v].status = "absent" /\ upload'[v].status = "reserved"
  <2>1. CASE Expire(u)
    BY <2>1, StatusKept
  <2>2. CASE Reserve(u) \/ Complete(u)
    BY <2>2, StatusSet DEF Reserve, Complete
  <2> QED
    BY <2>1, <2>2
<1>4. \A v \in Uploads : task[v] = "saved" => task'[v] = "saved"
  <2>1. CASE Reserve(u) \/ Expire(u)
    BY <2>1 DEF Reserve, Expire, files
  <2>2. CASE Complete(u)
    <3>1. task[u] # "saved"
      BY <2>2 DEF Complete, Refs
    <3> QED
      BY <2>2, <3>1 DEF Complete, TypeOK
  <2> QED
    BY <2>1, <2>2
<1>5. \A v \in Uploads : Reached(v) => Reached(v)'
  BY <1>1, <1>3 DEF Reached, Exists
<1>6. LinkedHaveMessages'
  BY <1>1, <1>3 DEF LinkedHaveMessages
<1>7. \A v \in Uploads : FilesOf(v)' = FilesOf(v)
  BY <1>2 DEF FilesOf
<1>8. SweepsHold'
  <2> SUFFICES ASSUME NEW w \in Sweepers, sweep[w].at # "idle",
                      upload'[sweep[w].upload].status = "expired"
               PROVE  /\ FilesOf(sweep[w].upload)' \subseteq sweep[w].files
                      /\ sweep[w].at = "erased" => FilesOf(sweep[w].upload)' \cap stored = {}
    BY <1>1 DEF SweepsHold
  <2>1. sweep[w].upload \in Uploads
    BY DEF Inv, Sweeps
  <2>2. FilesOf(sweep[w].upload)' = FilesOf(sweep[w].upload)
    BY <1>1, <1>2, <2>1 DEF FilesOf
  <2> QED
    BY <1>3, <2>1, <2>2 DEF SweepsHold
<1>9. PurgeHolds'
  BY <1>1, <1>3, <1>7, TypeFacts DEF PurgeHolds, Exists, Inv, Purges
<1>10. ClosingHolds'
  <2>1. closing.at = "listed" => ~Reserve(u)
    BY <1>1 DEF Undisturbed, BeingRemoved, Settled, Reserve
  <2> QED
    BY <1>1, <1>3, <1>7, <2>1 DEF ClosingHolds, Exists
<1> QED
  BY <1>1, <1>2, <1>4, <1>5, <1>6, <1>8, <1>9, <1>10, OwnRows

LEMMA OwnSend ==
    ASSUME TypeOK, Inv, Refs, Holdings, Next, Undisturbed,
           \/ \E r \in Requests : SendStep(r)
           \/ \E k \in Keys : Age(k)
    PROVE  Holdings'
<1> USE DEF Holdings
<1>1. UNCHANGED <<stored, doomed, task, sweep, purge, closing>>
  BY DEF SendStep, Check, LockUploads, SaveMessage, SaveMeetsMessage, Fail, Age, files, removals
<1>2. CASE UNCHANGED <<upload, attached>>
  <2>1. \A u \in Uploads : (Reached(u) => Reached(u)') /\ FilesOf(u)' = FilesOf(u)
    BY <1>1, <1>2 DEF Reached, Exists, FilesOf
  <2>2. LinkedHaveMessages' /\ SweepsHold' /\ PurgeHolds' /\ ClosingHolds'
    BY <1>1, <1>2 DEF LinkedHaveMessages, SweepsHold, PurgeHolds, ClosingHolds, Exists, FilesOf
  <2> QED
    BY <1>1, <1>2, <2>1, <2>2, OwnRows
<1>3. ASSUME NEW r \in Requests, SaveMessage(r) PROVE Holdings'
  <2>1. \A u \in Uploads : u \in UploadsOf[r] => upload[u].status = "validated"
    BY <1>3, TypeFacts DEF SaveMessage, ReadyToSave, Inv, Locks
  <2>2. \A u \in Uploads :
          /\ upload'[u].status = IF u \in UploadsOf[r] THEN "linked" ELSE upload[u].status
          /\ upload'[u].thumb = upload[u].thumb
    <3>1. \A u \in Uploads : upload[u] \in UploadRows
      BY DEF TypeOK
    <3> QED
      BY <1>3, <3>1 DEF SaveMessage, UploadRows
  <2>3. \A u \in Uploads : attached'[u] = IF u \in UploadsOf[r] THEN KeyOf[r] ELSE attached[u]
    BY <1>3 DEF SaveMessage
  <2>4. KeyOf[r] # NoKey
    BY TypeFacts
  <2>5. LinkedHaveMessages'
    BY <1>1, <2>2, <2>3, <2>4 DEF LinkedHaveMessages
  <2>6. \A u \in Uploads : Reached(u) => Reached(u)'
    BY <1>1, <2>1, <2>2, <2>3, <2>4 DEF Reached, Exists
  <2>7. \A u \in Uploads : FilesOf(u)' = FilesOf(u)
    BY <2>2 DEF FilesOf
  <2>8. PurgeHolds' /\ ClosingHolds'
    BY <1>1, <2>1, <2>2, <2>7, TypeFacts DEF PurgeHolds, ClosingHolds, Exists
  <2>9. SweepsHold'
    <3> SUFFICES ASSUME NEW w \in Sweepers, sweep[w].at # "idle",
                        upload'[sweep[w].upload].status = "expired"
                 PROVE  /\ FilesOf(sweep[w].upload)' \subseteq sweep[w].files
                        /\ sweep[w].at = "erased" => FilesOf(sweep[w].upload)' \cap stored = {}
      BY <1>1 DEF SweepsHold
    <3>1. sweep[w].upload \in Uploads
      BY DEF Inv, Sweeps
    <3>2. FilesOf(sweep[w].upload)' = FilesOf(sweep[w].upload)
      BY <1>1, <2>2, <3>1 DEF FilesOf
    <3> QED
      BY <2>2, <3>1, <3>2 DEF SweepsHold
  <2> QED
    BY <1>1, <2>2, <2>5, <2>6, <2>8, <2>9, OwnRows
<1> QED
  BY <1>2, <1>3 DEF SendStep, Check, LockUploads, SaveMeetsMessage, Fail, Age

LEMMA OwnSweep ==
    ASSUME TypeOK, Inv, Refs, Holdings, Next, Undisturbed, NEW w \in Sweepers, SweepStep(w)
    PROVE  Holdings'
<1> USE DEF Holdings
<1>1. UNCHANGED <<attached, task, purge, closing, doomed>>
  BY DEF SweepStep, SweepClaim, SweepErase, SweepFails, SweepDelete, files
<1>2. \A u \in Uploads : upload'[u].thumb = upload[u].thumb
  BY ThumbsKept DEF SweepStep, SweepClaim, SweepErase, SweepFails, SweepDelete, SaveThumbnailKey,
     SetTask, TypeOK, files
<1>3. \A u \in Uploads : FilesOf(u)' = FilesOf(u)
  BY <1>2 DEF FilesOf
<1>4. ASSUME NEW u \in Uploads, SweepClaim(w, u) PROVE Holdings'
  <2>1. upload[u].status \in {"reserved", "validated", "expired"}
    BY <1>4 DEF SweepClaim, Claimable
  <2>2. \A v \in Uploads : upload'[v].status = IF v = u THEN "expired" ELSE upload[v].status
    BY <1>4, StatusSet DEF SweepClaim
  <2>3. stored' = stored
    BY <1>4 DEF SweepClaim, files
  <2>4. LinkedHaveMessages' /\ PurgeHolds' /\ ClosingHolds'
    BY <1>1, <1>3, <2>1, <2>2, TypeFacts DEF LinkedHaveMessages, PurgeHolds, ClosingHolds, Exists
  <2>5. \A v \in Uploads : Reached(v) => Reached(v)'
    BY <1>1, <2>2 DEF Reached, Exists
  <2>6. SweepsHold'
    <3>1. sweep' = [sweep EXCEPT ![w] = [at |-> "claimed", upload |-> u, files |-> FilesOf(u)]]
      BY <1>4 DEF SweepClaim
    <3> SUFFICES ASSUME NEW x \in Sweepers, NEW v, v = sweep'[x].upload,
                        sweep'[x].at # "idle", upload'[v].status = "expired"
                 PROVE  /\ FilesOf(v)' \subseteq sweep'[x].files
                        /\ sweep'[x].at = "erased" => FilesOf(v)' \cap stored' = {}
      BY DEF SweepsHold
    <3>2. CASE x = w
      <4>1. sweep'[w] = [at |-> "claimed", upload |-> u, files |-> FilesOf(u)] /\ v = u
        BY <3>1, <3>2 DEF TypeOK
      <4> QED
        BY <1>3, <3>2, <4>1
    <3>3. CASE x # w
      <4>1. sweep'[x] = sweep[x] /\ v = sweep[x].upload
        BY <3>1, <3>3 DEF TypeOK
      <4>2. v \in Uploads /\ upload[v].status \in {"expired", "removed"}
        BY <4>1 DEF Inv, Sweeps
      <4>3. upload[v].status = "expired"
        BY <2>1, <2>2, <4>2
      <4>4. FilesOf(v)' = FilesOf(v)
        BY <1>3, <4>2
      <4> QED
        BY <2>3, <4>1, <4>3, <4>4 DEF SweepsHold
    <3> QED
      BY <3>2, <3>3
  <2> QED
    BY <1>1, <1>2, <2>3, <2>4, <2>5, <2>6, OwnRows
<1>5. CASE SweepErase(w) \/ SweepFails(w)
  <2>1. UNCHANGED upload /\ stored' \subseteq stored
    BY <1>5 DEF SweepErase, SweepFails
  <2>2. LinkedHaveMessages' /\ PurgeHolds' /\ ClosingHolds'
    BY <1>1, <1>3, <2>1, TypeFacts DEF LinkedHaveMessages, PurgeHolds, ClosingHolds, Exists
  <2>3. \A v \in Uploads : Reached(v) => Reached(v)'
    BY <1>1, <2>1 DEF Reached, Exists
  <2>4. SweepsHold'
    <3>1. CASE SweepErase(w)
      BY <1>3, <2>1, <3>1 DEF SweepErase, SweepsHold, Inv, Sweeps, TypeOK, SweepRows
    <3>2. CASE SweepFails(w)
      BY <1>3, <2>1, <3>2 DEF SweepFails, SweepsHold, Inv, Sweeps, TypeOK, NoSweep
    <3> QED
      BY <1>5, <3>1, <3>2
  <2>5. Owned'
    BY <1>1, <1>3, <2>1, <2>3, OwnedKept
  <2>6. Calm'
    BY DEF Undisturbed, Calm
  <2> QED
    BY <2>2, <2>4, <2>5, <2>6
<1>6. CASE SweepDelete(w)
  <2> DEFINE d == sweep[w].upload
  <2>1. d \in Uploads /\ sweep[w].at = "erased"
    BY <1>6 DEF SweepDelete, Inv, Sweeps
  <2>2. \A v \in Uploads :
          \/ upload'[v].status = upload[v].status
          \/ v = d /\ upload[v].status = "expired" /\ upload'[v].status = "removed"
    <3>1. \A v \in Uploads : upload[v] \in UploadRows
      BY DEF TypeOK
    <3> QED
      BY <1>6, <3>1 DEF SweepDelete, UploadRows
  <2>3. stored' = stored
    BY <1>6 DEF SweepDelete, files
  <2>4. LinkedHaveMessages' /\ PurgeHolds' /\ ClosingHolds'
    BY <1>1, <1>3, <2>2, TypeFacts DEF LinkedHaveMessages, PurgeHolds, ClosingHolds, Exists
  <2>5. SweepsHold'
    BY <1>3, <1>6, <2>2, <2>3 DEF SweepDelete, SweepsHold, Inv, Sweeps, TypeOK, NoSweep
  <2>6. Owned'
    <3> SUFFICES ASSUME NEW f \in stored, NamedBy(f) PROVE NamedBy(f)'
      BY <1>1, <2>3 DEF Owned, BeingSaved
    <3>1. PICK v \in Uploads : Reached(v) /\ f \in FilesOf(v)
      BY DEF NamedBy
    <3>2. CASE upload'[v].status = upload[v].status
      BY <1>1, <1>3, <3>1, <3>2 DEF NamedBy, Reached, Exists
    <3>3. CASE v = d /\ upload[v].status = "expired"
      BY <2>1, <3>1, <3>3 DEF SweepsHold
    <3> QED
      BY <2>2, <3>2, <3>3
  <2>7. Calm'
    BY DEF Undisturbed, Calm
  <2> QED
    BY <2>4, <2>5, <2>6, <2>7
<1> QED
  BY <1>4, <1>5, <1>6 DEF SweepStep

LEMMA OwnPurge ==
    ASSUME TypeOK, Inv, Refs, Refs', Holdings, Next, Undisturbed,
           PurgeList \/ PurgeMessages \/ PurgeUploads \/ PurgeDies
    PROVE  Holdings'
<1> USE TypeFacts DEF Holdings, files
<1>1. UNCHANGED <<stored, task, sweep, closing>> /\ doomed \subseteq doomed'
  BY DEF PurgeList, PurgeMessages, PurgeUploads, PurgeDies
<1>2. \A u \in Uploads : upload'[u].thumb = upload[u].thumb
  BY ThumbsKept
     DEF PurgeList, PurgeMessages, PurgeUploads, PurgeDies, SaveThumbnailKey, SetTask, TypeOK
<1>3. \A u \in Uploads : FilesOf(u)' = FilesOf(u)
  BY <1>2 DEF FilesOf
<1>4. Calm'
  BY DEF Undisturbed, Calm
<1>5. \A v \in Uploads : upload'[v].status = upload[v].status \/ upload'[v].status = "removed"
  BY StatusRemoved DEF PurgeList, PurgeMessages, PurgeUploads, PurgeDies
<1>6. ClosingHolds'
  BY <1>1, <1>3, <1>5 DEF ClosingHolds, Exists
<1>7. SweepsHold'
  <2> SUFFICES ASSUME NEW w \in Sweepers, sweep[w].at # "idle",
                      upload'[sweep[w].upload].status = "expired"
               PROVE  /\ FilesOf(sweep[w].upload)' \subseteq sweep[w].files
                      /\ sweep[w].at = "erased" => FilesOf(sweep[w].upload)' \cap stored = {}
    BY <1>1 DEF SweepsHold
  <2>1. sweep[w].upload \in Uploads
    BY DEF Inv, Sweeps
  <2>2. FilesOf(sweep[w].upload)' = FilesOf(sweep[w].upload)
    BY <1>1, <1>2, <2>1 DEF FilesOf
  <2>3. upload[sweep[w].upload].status = "expired"
    BY <1>5, <2>1
  <2> QED
    BY <2>2, <2>3 DEF SweepsHold
<1>8. CASE PurgeList
  <2> DEFINE old == {k \in Keys : message[k] = "old"}
  <2>1. /\ UNCHANGED <<upload, attached, doomed>> /\ purge.uploads = {}
        /\ purge'.uploads = AttachedTo(old) /\ purge'.files = FilesOfAll(AttachedTo(old))
    BY <1>8 DEF PurgeList, Refs
  <2>2. PurgeHolds'
    BY <1>3, <2>1, FilesOfAllFacts DEF PurgeHolds, AttachedTo
  <2>3. LinkedHaveMessages'
    BY <2>1 DEF LinkedHaveMessages
  <2>4. \A v \in Uploads : Reached(v) => Reached(v)'
    BY <2>1 DEF Reached, Exists
  <2> QED
    BY <1>1, <1>3, <1>4, <1>6, <1>7, <2>2, <2>3, <2>4, OwnedKept
<1>9. CASE PurgeMessages
  <2>1. /\ UNCHANGED <<upload, doomed>> /\ purge.at = "listed"
        /\ purge'.uploads = purge.uploads /\ purge'.files = purge.files
    BY <1>9 DEF PurgeMessages, TypeOK, PurgeRows
  <2>2. \A u \in Uploads : attached[u] \in purge.keys => u \in purge.uploads
    BY <2>1 DEF Refs
  <2>3. \A u \in Uploads : attached'[u] = IF attached[u] \in purge.keys THEN NoKey ELSE attached[u]
    BY <1>9 DEF PurgeMessages, Unlink
  <2>4. LinkedHaveMessages'
    BY <2>1, <2>2, <2>3 DEF LinkedHaveMessages
  <2>5. \A v \in Uploads : Reached(v) => Reached(v)'
    BY <2>1, <2>2, <2>3 DEF Reached, Exists
  <2>6. PurgeHolds'
    BY <1>3, <2>1 DEF PurgeHolds, Exists
  <2> QED
    BY <1>1, <1>3, <1>4, <1>6, <1>7, <2>4, <2>5, <2>6, OwnedKept
<1>10. CASE PurgeUploads \/ PurgeDies
  <2>1. purge' = NoPurge /\ attached' = attached
    BY <1>10 DEF PurgeUploads, PurgeDies
  <2>2. \A u \in purge.uploads : ~Exists(u)'
    <3>1. purge.at # "idle" /\ purge'.at = "idle"
      BY <1>10, <2>1 DEF PurgeUploads, PurgeDies, NoPurge
    <3> QED
      BY <3>1 DEF Undisturbed, RemovalsEnd
  <2>3. \A u \in Uploads : u \notin purge.uploads => upload'[u].status = upload[u].status
    BY <1>10, StatusRemoved DEF PurgeUploads, PurgeDies
  <2>4. LinkedHaveMessages'
    BY <2>1, <2>2, <2>3 DEF LinkedHaveMessages, Exists
  <2>5. PurgeHolds'
    BY <2>1 DEF PurgeHolds, NoPurge
  <2>6. Owned'
    <3> SUFFICES ASSUME NEW f \in stored, NamedBy(f) PROVE NamedBy(f)' \/ f \in doomed'
      BY <1>1 DEF Owned, BeingSaved
    <3>1. PICK v \in Uploads : Reached(v) /\ f \in FilesOf(v)
      BY DEF NamedBy
    <3>2. CASE v \notin purge.uploads
      <4>1. Reached(v)'
        BY <2>1, <2>3, <3>1, <3>2 DEF Reached, Exists
      <4> QED
        BY <1>3, <3>1, <4>1 DEF NamedBy
    <3>3. CASE v \in purge.uploads
      <4>1. f \in purge.files
        BY <3>1, <3>3 DEF PurgeHolds, Reached
      <4>2. CASE PurgeUploads
        BY <4>1, <4>2 DEF PurgeUploads
      <4>3. CASE PurgeDies
        BY <2>2, <3>1, <3>3, <4>3 DEF PurgeDies, Reached, Exists
      <4> QED
        BY <1>10, <4>2, <4>3
    <3> QED
      BY <3>2, <3>3
  <2> QED
    BY <1>4, <1>6, <1>7, <2>4, <2>5, <2>6
<1> QED
  BY <1>8, <1>9, <1>10

LEMMA OwnClose ==
    ASSUME TypeOK, Inv, Refs, Holdings, Next, Undisturbed, CloseList \/ CloseCommit \/ CloseFails
    PROVE  Holdings'
<1> USE TypeFacts DEF Holdings, files
<1>1. CASE CloseList \/ CloseFails
  <2>1. UNCHANGED <<upload, attached, stored, task, sweep, purge, doomed>>
    BY <1>1 DEF CloseList, CloseFails
  <2>2. \A u \in Uploads : (Reached(u) => Reached(u)') /\ FilesOf(u)' = FilesOf(u)
    BY <2>1 DEF Reached, Exists, FilesOf
  <2>3. LinkedHaveMessages' /\ SweepsHold' /\ PurgeHolds'
    BY <2>1 DEF LinkedHaveMessages, SweepsHold, PurgeHolds, Exists, FilesOf
  <2>4. ClosingHolds'
    <3>1. CASE CloseList
      <4>1. closing'.files = FilesOfAll({u \in Uploads : Exists(u)})
        BY <3>1 DEF CloseList
      <4>2. \A u \in Uploads : Exists(u)' => Exists(u)
        BY <2>1 DEF Exists
      <4> QED
        BY <2>2, <4>1, <4>2, FilesOfAllFacts DEF ClosingHolds
    <3>2. CASE CloseFails
      BY <3>2 DEF CloseFails, ClosingHolds, NoClosing
    <3> QED
      BY <1>1, <3>1, <3>2
  <2> QED
    BY <2>1, <2>2, <2>3, <2>4, OwnRows
<1>2. CASE CloseCommit
  <2>1. UNCHANGED <<stored, task, sweep, purge>> /\ doomed' = doomed \cup closing.files
    BY <1>2 DEF CloseCommit
  <2>2. \A v \in Uploads : upload'[v].status \in {"absent", "removed"}
    BY <1>2, StatusRemoved DEF CloseCommit, Exists
  <2>3. LinkedHaveMessages'
    BY <2>2 DEF LinkedHaveMessages
  <2>4. PurgeHolds'
    BY <2>1, <2>2 DEF PurgeHolds, Exists
  <2>5. SweepsHold'
    BY <2>1, <2>2 DEF SweepsHold, Inv, Sweeps
  <2>6. ClosingHolds'
    BY <1>2 DEF CloseCommit, ClosingHolds, NoClosing
  <2>7. Owned'
    BY <1>2, <2>1 DEF CloseCommit, Owned, NamedBy, BeingSaved, Reached, ClosingHolds
  <2>8. Calm'
    BY DEF Undisturbed, Calm
  <2> QED
    BY <2>3, <2>4, <2>5, <2>6, <2>7, <2>8
<1> QED
  BY <1>1, <1>2

LEMMA OwnDoomed ==
    ASSUME TypeOK, Inv, Refs, Holdings, Next, Undisturbed, NEW f \in Files,
           EraseDoomed(f) \/ ForgetDoomed(f)
    PROVE  Holdings'
<1> USE DEF Holdings
<1>1. UNCHANGED <<upload, attached, task, sweep, purge, closing>>
  BY DEF EraseDoomed, ForgetDoomed, removals
<1>2. stored' \subseteq stored /\ doomed' = doomed \ {f} /\ f \in doomed
  BY DEF EraseDoomed, ForgetDoomed
<1>3. f \notin stored'
  BY <1>2 DEF Undisturbed, RemovalsEnd
<1>4. Calm'
  BY DEF Undisturbed, Calm
<1>5. LinkedHaveMessages' /\ PurgeHolds' /\ ClosingHolds'
  BY <1>1 DEF LinkedHaveMessages, PurgeHolds, ClosingHolds, Exists, FilesOf
<1>6. SweepsHold'
  BY <1>1, <1>2 DEF SweepsHold, FilesOf
<1>7. Owned'
  BY <1>1, <1>2, <1>3 DEF Owned, NamedBy, BeingSaved, Reached, Exists, FilesOf
<1> QED
  BY <1>4, <1>5, <1>6, <1>7

LEMMA OwnStep == TypeOK /\ Inv /\ OwnInv /\ [Next]_vars => OwnInv'
<1> SUFFICES ASSUME TypeOK, Inv, OwnInv, [Next]_vars PROVE OwnInv'
  OBVIOUS
<1>1. Refs /\ Refs'
  BY RefsStep DEF OwnInv
<1>2. CASE UNCHANGED vars
  BY <1>1, <1>2
     DEF vars, rows, OwnInv, Holdings, Calm, LinkedHaveMessages, SweepsHold, PurgeHolds,
         ClosingHolds, Owned, BeingRemoved, Settled, Exists, FilesOf, NamedBy, BeingSaved, Reached
<1>3. CASE Next /\ undisturbed'
  <2>1. Holdings /\ Undisturbed
    BY <1>3 DEF Next, OwnInv
  <2> QED
    BY <1>1, <1>3, <2>1, OwnFiles, OwnThumbnail, OwnUpload, OwnSend, OwnSweep, OwnPurge,
       OwnClose, OwnDoomed
       DEF Next, Step, UploadStep, RemovalStep, OwnInv
<1>4. CASE ~undisturbed'
  BY <1>1, <1>4 DEF OwnInv
<1> QED
  BY <1>2, <1>3, <1>4

(* As long as no removal is disturbed, every file in the storage is found  *)
(* by what is still to remove it.                                          *)
THEOREM FilesCorrect == Spec => []FilesHaveOwners
<1>1. OwnInv => FilesHaveOwners
  BY DEF OwnInv, Holdings, Owned, FilesHaveOwners
<1> QED
  BY <1>1, OwnInit, OwnStep, InvHolds, PTL DEF Spec
-----------------------------------------------------------------------------
(* ChatConversation: files are attached to messages that are there, and a  *)
(* purge holds messages that are old as long as the conversation is open.  *)

LinksInv ==
    /\ \A u \in Uploads : attached[u] # NoKey => Written(attached[u])
    /\ purge.at = "listed" /\ open => \A k \in purge.keys : message[k] = "old"

LEMMA LinksInit == Init => LinksInv
  BY DEF Init, LinksInv, NoPurge

(* Whatever no message, no attachment and no purge takes part in.          *)
LEMMA MessageMoves ==
    ASSUME TypeOK, Next
    PROVE  \/ UNCHANGED <<message, attached, open>> /\ (UNCHANGED purge \/ purge' = NoPurge)
           \/ \E r \in Requests : SaveMessage(r)
           \/ \E k \in Keys : Age(k)
           \/ PurgeList \/ PurgeMessages \/ CloseCommit
<1> USE DEF removals, files
<1>1. ASSUME NEW u \in Uploads, UploadStep(u)
      PROVE  UNCHANGED <<message, attached, open, purge>>
  BY <1>1 DEF UploadStep, Reserve, RefreshUrl, Put, UrlEnds, Expire, Complete, ReadOriginal,
              StoreThumbnail, SaveThumbnailKey, ThumbnailFails
<1>2. ASSUME NEW r \in Requests, SendStep(r), ~SaveMessage(r)
      PROVE  UNCHANGED <<message, attached, open, purge>>
  BY <1>2 DEF SendStep, Check, LockUploads, SaveMeetsMessage, Fail
<1>3. ASSUME NEW w \in Sweepers, SweepStep(w)
      PROVE  UNCHANGED <<message, attached, open, purge>>
  BY <1>3 DEF SweepStep, SweepClaim, SweepErase, SweepFails, SweepDelete
<1>4. ASSUME RemovalStep
      PROVE  \/ UNCHANGED <<message, attached, open>> /\ (UNCHANGED purge \/ purge' = NoPurge)
             \/ \E k \in Keys : Age(k)
             \/ PurgeList \/ PurgeMessages \/ CloseCommit
  BY <1>4 DEF RemovalStep, PurgeUploads, PurgeDies, CloseList, CloseFails, EraseDoomed,
              ForgetDoomed
<1> QED
  BY <1>1, <1>2, <1>3, <1>4 DEF Next, Step

LEMMA LinksStep == TypeOK /\ Inv /\ LinksInv /\ [Next]_vars => LinksInv'
<1> SUFFICES ASSUME TypeOK, Inv, LinksInv, Next PROVE LinksInv'
  <2>1. LinksInv /\ UNCHANGED vars => LinksInv'
    BY DEF LinksInv, Written, vars, rows
  <2> QED
    BY <2>1
<1> USE TypeFacts DEF removals, files
<1>1. CASE UNCHANGED <<message, attached, open>> /\ (UNCHANGED purge \/ purge' = NoPurge)
  BY <1>1 DEF LinksInv, Written, NoPurge
<1>2. ASSUME NEW r \in Requests, SaveMessage(r) PROVE LinksInv'
  <2>1. \A k \in Keys : message'[k] = IF k = KeyOf[r] THEN "sent" ELSE message[k]
    BY <1>2 DEF SaveMessage, TypeOK
  <2>2. \A u \in Uploads : attached'[u] = IF u \in UploadsOf[r] THEN KeyOf[r] ELSE attached[u]
    BY <1>2 DEF SaveMessage
  <2>3. UNCHANGED <<open, purge>> /\ ~Written(KeyOf[r])
    BY <1>2 DEF SaveMessage
  <2> QED
    BY <2>1, <2>2, <2>3 DEF LinksInv, Written, TypeOK
<1>3. ASSUME NEW k \in Keys, Age(k) PROVE LinksInv'
  <2>1. /\ \A j \in Keys : message'[j] = IF j = k THEN "old" ELSE message[j]
        /\ UNCHANGED <<attached, open, purge>>
    BY <1>3 DEF Age, TypeOK
  <2> QED
    BY <2>1 DEF LinksInv, Written, TypeOK
<1>4. CASE PurgeList
  <2>1. UNCHANGED <<message, attached, open>>
    BY <1>4 DEF PurgeList
  <2>2. \A k \in purge'.keys : message[k] = "old"
    BY <1>4 DEF PurgeList
  <2> QED
    BY <2>1, <2>2 DEF LinksInv, Written
<1>5. CASE PurgeMessages
  <2>1. purge'.at = "unlinked"
    BY <1>5 DEF PurgeMessages, TypeOK, PurgeRows
  <2>2. Unlink(purge.keys)
    BY <1>5 DEF PurgeMessages
  <2> QED
    BY <2>1, <2>2 DEF LinksInv, Unlink, Written, TypeOK
<1>6. CASE CloseCommit
  <2>1. open' = FALSE /\ \A u \in Uploads : attached'[u] = NoKey
    BY <1>6 DEF CloseCommit, Unlink, TypeOK
  <2> QED
    BY <2>1 DEF LinksInv
<1> QED
  BY <1>1, <1>2, <1>3, <1>4, <1>5, <1>6, MessageMoves

(* What a reader sees of a message, once the files are known to be there.  *)
LEMMA ReaderSees ==
    ASSUME TypeOK, Inv, LinksInv, NEW k \in Keys
    PROVE  /\ Shown(k) = AttachedTo({k})
           /\ MessageOf(k) = "none" => Shown(k) = {}
           /\ MessageOf(k) = "none" <=> ~Written(k)
<1>1. Shown(k) = AttachedTo({k})
  BY DEF Shown, AttachedTo, Inv, Links, Ready
<1>2. ~Written(k) => AttachedTo({k}) = {}
  BY DEF AttachedTo, LinksInv
<1> QED
  BY <1>1, <1>2 DEF MessageOf, Written

(* The uploads that are spent stay so.                                     *)
LEMMA SpentGrows ==
    ASSUME TypeOK, Inv, Next
    PROVE  Spent \subseteq Spent' /\ Spent' \in SUBSET Uploads
<1> USE TypeFacts DEF Spent
<1>1. CASE SameStatus
  BY <1>1 DEF SameStatus
<1>2. ASSUME NEW u \in Uploads, NEW s, SetStatus(u, s), u \in Spent => s = "expired"
      PROVE  Spent \subseteq Spent'
  BY <1>2, StatusSet
<1>3. ASSUME NEW S, RemoveRows(S) PROVE Spent \subseteq Spent'
  BY <1>3, StatusRemoved
<1>4. ASSUME NEW u \in Uploads, UploadStep(u) PROVE Spent \subseteq Spent'
  <2>1. CASE Reserve(u) \/ Complete(u)
    BY <1>2, <2>1 DEF Reserve, Complete
  <2>2. CASE Expire(u) \/ SaveThumbnailKey(u)
    BY <1>1, <2>2, StatusKept DEF SameStatus
  <2>3. CASE UNCHANGED upload
    BY <2>3
  <2> QED
    BY <1>4, <2>1, <2>2, <2>3
       DEF UploadStep, RefreshUrl, Put, UrlEnds, ReadOriginal, StoreThumbnail, ThumbnailFails
<1>5. ASSUME NEW r \in Requests, SendStep(r) PROVE Spent \subseteq Spent'
  <2>1. CASE SaveMessage(r)
    <3>1. \A u \in Uploads : upload[u] \in UploadRows
      BY DEF TypeOK
    <3>2. \A u \in Uploads : upload'[u].status =
            IF u \in UploadsOf[r] THEN "linked" ELSE upload[u].status
      BY <2>1, <3>1 DEF SaveMessage, UploadRows
    <3> QED
      BY <3>2
  <2>2. CASE ~SaveMessage(r)
    <3>1. UNCHANGED upload
      BY <1>5, <2>2 DEF SendStep, Check, LockUploads, SaveMeetsMessage, Fail
    <3> QED
      BY <3>1
  <2> QED
    BY <2>1, <2>2
<1>6. ASSUME NEW w \in Sweepers, SweepStep(w) PROVE Spent \subseteq Spent'
  <2>1. ASSUME NEW u \in Uploads, SweepClaim(w, u) PROVE Spent \subseteq Spent'
    BY <1>2, <2>1 DEF SweepClaim
  <2>2. CASE SweepDelete(w)
    <3>1. \A v \in Uploads : upload[v] \in UploadRows
      BY DEF TypeOK
    <3>2. \A v \in Uploads : upload'[v].status \in {upload[v].status, "removed"}
      BY <2>2, <3>1 DEF SweepDelete, UploadRows
    <3> QED
      BY <3>2
  <2>3. CASE SweepErase(w) \/ SweepFails(w)
    BY <2>3 DEF SweepErase, SweepFails
  <2> QED
    BY <1>6, <2>1, <2>2, <2>3 DEF SweepStep
<1>7. CASE RemovalStep
  <2>1. UNCHANGED upload \/ RemoveRows(purge.uploads) \/ RemoveRows(Uploads)
    BY <1>7 DEF RemovalStep, Age, PurgeList, PurgeMessages, PurgeUploads, PurgeDies, CloseList,
                CloseCommit, CloseFails, EraseDoomed, ForgetDoomed
  <2> QED
    BY <1>3, <2>1
<1> QED
  BY <1>4, <1>5, <1>6, <1>7 DEF Next, Step

MessagesSeen == [k \in Keys |-> MessageOf(k)]
FilesSeen    == [k \in Keys |-> Shown(k)]
AnswersSeen  == [r \in Requests |-> AnswerOf(r)]

Seen == <<MessagesSeen, FilesSeen, Spent, AnswersSeen, open>>

LEMMA AnswersStay ==
    ASSUME UNCHANGED request PROVE AnswersSeen' = AnswersSeen
  BY DEF AnswersSeen, AnswerOf

LEMMA MessagesStay ==
    ASSUME TypeOK, Inv, LinksInv, Inv', LinksInv', TypeOK', UNCHANGED <<message, attached>>
    PROVE  MessagesSeen' = MessagesSeen /\ FilesSeen' = FilesSeen
<1>1. \A k \in Keys : MessageOf(k)' = MessageOf(k)
  BY DEF MessageOf, Written
<1>2. \A k \in Keys : Shown(k)' = Shown(k)
  <2>1. \A k \in Keys : AttachedTo({k})' = AttachedTo({k})
    BY DEF AttachedTo
  <2>2. \A k \in Keys : Shown(k) = AttachedTo({k})
    BY ReaderSees
  <2>3. \A k \in Keys : Shown(k)' = AttachedTo({k})'
    BY DEF Shown, AttachedTo, Inv, Links, Ready
  <2> QED
    BY <2>1, <2>2, <2>3
<1> QED
  BY <1>1, <1>2 DEF MessagesSeen, FilesSeen

(* The steps of a request are its answer, or nothing.                      *)
LEMMA AnswerSeen ==
    ASSUME TypeOK, NEW r \in Requests, request[r] \notin {"answered", "refused"},
           NEW step \in RequestSteps, Answer(r, step)
    PROVE  /\ AnswersSeen[r] = "none"
           /\ step \in {"answered", "refused"} => AnswersSeen' = [AnswersSeen EXCEPT ![r] = step]
           /\ step \notin {"answered", "refused"} => AnswersSeen' = AnswersSeen
  BY DEF AnswersSeen, AnswerOf, Answer, TypeOK

(* A request that is answered or refused, and changes nothing else.        *)
LEMMA AnsweredRefines ==
    ASSUME TypeOK, Inv, LinksInv, TypeOK', Inv', LinksInv',
           NEW r \in Requests, request[r] \notin {"answered", "refused"},
           Answer(r, "answered"), open, Written(KeyOf[r]),
           UNCHANGED <<upload, message, attached, open>>
    PROVE  Conversation!Next
<1>1. AnswersSeen[r] = "none" /\ AnswersSeen' = [AnswersSeen EXCEPT ![r] = "answered"]
  BY AnswerSeen DEF RequestSteps
<1>2. UNCHANGED <<MessagesSeen, FilesSeen, Spent>>
  BY MessagesStay DEF Spent
<1>3. MessagesSeen[KeyOf[r]] # "none"
  BY ReaderSees, TypeFacts DEF MessagesSeen
<1> QED
  BY <1>1, <1>2, <1>3
     DEF Conversation!Next, Conversation!Request, Conversation!Repeat, MessagesSeen,
         FilesSeen, AnswersSeen

LEMMA RefusedRefines ==
    ASSUME TypeOK, Inv, LinksInv, TypeOK', Inv', LinksInv',
           NEW r \in Requests, request[r] \notin {"answered", "refused"},
           Answer(r, "refused"), ~SentAs(r),
           UNCHANGED <<upload, message, attached, open>>
    PROVE  Conversation!Next
<1>1. AnswersSeen[r] = "none" /\ AnswersSeen' = [AnswersSeen EXCEPT ![r] = "refused"]
  BY AnswerSeen DEF RequestSteps
<1>2. UNCHANGED <<MessagesSeen, FilesSeen, Spent>>
  BY MessagesStay DEF Spent
<1>3. MessagesSeen[KeyOf[r]] = "none" \/ FilesSeen[KeyOf[r]] # UploadsOf[r]
  BY ReaderSees, TypeFacts DEF MessagesSeen, FilesSeen, SentAs
<1> QED
  BY <1>1, <1>2, <1>3
     DEF Conversation!Next, Conversation!Request, Conversation!Refuse, MessagesSeen,
         FilesSeen, AnswersSeen

LEMMA SaveRefines ==
    ASSUME TypeOK, Inv, LinksInv, TypeOK', Inv', LinksInv', NEW r \in Requests, SaveMessage(r)
    PROVE  Conversation!Next
<1> USE TypeFacts
<1>1. AnswersSeen[r] = "none" /\ AnswersSeen' = [AnswersSeen EXCEPT ![r] = "answered"]
  BY AnswerSeen DEF RequestSteps, SaveMessage, ReadyToSave
<1>2. \A u \in UploadsOf[r] : upload[u].status = "validated"
  BY DEF SaveMessage, ReadyToSave, Inv, Locks
<1>3. /\ attached' = [u \in Uploads |-> IF u \in UploadsOf[r] THEN KeyOf[r] ELSE attached[u]]
      /\ message' = [message EXCEPT ![KeyOf[r]] = "sent"]
      /\ open /\ open' = open /\ ~Written(KeyOf[r])
  BY DEF SaveMessage
<1>4. MessagesSeen[KeyOf[r]] = "none" /\ MessagesSeen' = [MessagesSeen EXCEPT ![KeyOf[r]] = "sent"]
  BY <1>3 DEF MessagesSeen, MessageOf, Written, TypeOK
<1>5. FilesSeen' = [FilesSeen EXCEPT ![KeyOf[r]] = UploadsOf[r]]
  <2>1. \A k \in Keys : Shown(k)' = AttachedTo({k})'
    BY DEF Shown, AttachedTo, Inv, Links, Ready
  <2>2. \A k \in Keys : Shown(k) = AttachedTo({k})
    BY ReaderSees
  <2>3. AttachedTo({KeyOf[r]}) = {}
    BY <1>3 DEF LinksInv, AttachedTo
  <2>4. \A u \in UploadsOf[r] : attached[u] = NoKey
    BY <1>2 DEF Inv, Links
  <2>5. AttachedTo({KeyOf[r]})' = UploadsOf[r]
    BY <1>3, <2>3 DEF AttachedTo
  <2>6. \A k \in Keys \ {KeyOf[r]} : AttachedTo({k})' = AttachedTo({k})
    BY <1>3, <2>4 DEF AttachedTo
  <2> QED
    BY <2>1, <2>2, <2>5, <2>6 DEF FilesSeen
<1>6. UploadsOf[r] \cap Spent = {} /\ Spent' = Spent \cup UploadsOf[r]
  <2>1. \A u \in Uploads : upload[u] \in UploadRows
    BY DEF TypeOK
  <2>2. \A u \in Uploads : upload'[u].status =
          IF u \in UploadsOf[r] THEN "linked" ELSE upload[u].status
    BY <2>1 DEF SaveMessage, UploadRows
  <2> QED
    BY <1>2, <2>2 DEF Spent
<1> QED
  BY <1>1, <1>3, <1>4, <1>5, <1>6
     DEF Conversation!Next, Conversation!Request, Conversation!Send, MessagesSeen,
         FilesSeen, AnswersSeen

LEMMA SendRefines ==
    ASSUME TypeOK, Inv, LinksInv, TypeOK', Inv', LinksInv', NEW r \in Requests, SendStep(r)
    PROVE  Conversation!Next \/ UNCHANGED Seen
<1> USE TypeFacts DEF files, removals
<1>1. ASSUME NEW step \in {"new", "checked", "locked"}, Answer(r, step),
             request[r] \notin {"answered", "refused"},
             UNCHANGED <<upload, message, attached, open>>
      PROVE  UNCHANGED Seen
  <2>1. AnswersSeen' = AnswersSeen
    BY <1>1, AnswerSeen DEF RequestSteps
  <2> QED
    BY <1>1, <2>1, MessagesStay DEF Seen, Spent
<1>2. CASE Check(r)
  <2>1. ~open => ~SentAs(r)
    BY DEF Inv, Closed, SentAs
  <2> QED
    BY <1>1, <1>2, <2>1, AnsweredRefines, RefusedRefines DEF Check
<1>3. CASE LockUploads(r)
  <2>1. /\ Answer(r, LockAnswer(r)) /\ request[r] = "checked" /\ UploadsOf[r] # {}
        /\ UNCHANGED <<upload, message, attached, open>>
    BY <1>3 DEF LockUploads
  <2>2. CASE LockAnswer(r) = "refused"
    <3>1. ASSUME SentAs(r) PROVE FALSE
      <4>1. Written(KeyOf[r]) /\ \A u \in UploadsOf[r] : u \in Uploads /\ attached[u] # NoKey
        BY <3>1 DEF SentAs, AttachedTo
      <4>2. \A u \in UploadsOf[r] : upload[u].status = "linked"
        BY <4>1 DEF Inv, Links
      <4> QED
        BY <2>1, <2>2, <4>1, <4>2 DEF LockAnswer, Usable
    <3> QED
      BY <2>1, <2>2, <3>1, RefusedRefines
  <2>3. CASE LockAnswer(r) = "answered"
    <3>1. Written(KeyOf[r])
      BY <2>3 DEF LockAnswer
    <3>2. open
      BY <3>1 DEF Inv, Closed
    <3> QED
      BY <2>1, <2>3, <3>1, <3>2, AnsweredRefines
  <2>4. CASE LockAnswer(r) = "locked"
    BY <1>1, <2>1, <2>4
  <2> QED
    BY <2>2, <2>3, <2>4 DEF LockAnswer
<1>4. CASE SaveMessage(r)
  BY <1>4, SaveRefines
<1>5. CASE SaveMeetsMessage(r)
  BY <1>5, AnsweredRefines DEF SaveMeetsMessage, ReadyToSave
<1>6. CASE Fail(r)
  BY <1>1, <1>6 DEF Fail
<1> QED
  BY <1>2, <1>3, <1>4, <1>5, <1>6 DEF SendStep

(* Messages go with their files, those of S at once.                       *)
LEMMA UnlinkRefines ==
    ASSUME TypeOK, Inv, LinksInv, TypeOK', Inv', LinksInv', NEW S \in SUBSET Keys, Unlink(S)
    PROVE  /\ MessagesSeen' = [k \in Keys |-> IF k \in S THEN "none" ELSE MessagesSeen[k]]
           /\ FilesSeen' = [k \in Keys |-> IF k \in S THEN {} ELSE FilesSeen[k]]
<1>1. \A k \in Keys : MessageOf(k)' = IF k \in S THEN "none" ELSE MessageOf(k)
  BY DEF Unlink, MessageOf, Written, TypeOK
<1>2. \A k \in Keys : Shown(k)' = AttachedTo({k})'
  BY DEF Shown, AttachedTo, Inv, Links, Ready
<1>3. \A k \in Keys : Shown(k) = AttachedTo({k})
  BY ReaderSees
<1>4. \A k \in Keys : AttachedTo({k})' = IF k \in S THEN {} ELSE AttachedTo({k})
  BY DEF Unlink, AttachedTo, TypeOK
<1> QED
  BY <1>1, <1>2, <1>3, <1>4 DEF MessagesSeen, FilesSeen

LEMMA PurgeRefines ==
    ASSUME TypeOK, Inv, LinksInv, TypeOK', Inv', LinksInv', PurgeMessages
    PROVE  Conversation!Next
<1> DEFINE S == {k \in purge.keys : Written(k)}
<1> USE TypeFacts
<1>1. S \in SUBSET Keys /\ UNCHANGED <<upload, open, request>>
  BY DEF PurgeMessages
<1>2. Unlink(S)
  BY DEF PurgeMessages, Unlink, LinksInv
<1>3. \A k \in S : MessagesSeen[k] = "old"
  BY DEF MessagesSeen, MessageOf, LinksInv, PurgeMessages, Inv, Closed
<1>4. UNCHANGED <<AnswersSeen, Spent>>
  BY <1>1, AnswersStay DEF Spent
<1> HIDE DEF S
<1>5. /\ MessagesSeen' = [k \in Keys |-> IF k \in S THEN "none" ELSE MessagesSeen[k]]
      /\ FilesSeen' = [k \in Keys |-> IF k \in S THEN {} ELSE FilesSeen[k]]
  BY <1>1, <1>2, UnlinkRefines
<1> QED
  BY <1>1, <1>3, <1>4, <1>5
     DEF Conversation!Next, Conversation!Purge, Conversation!Forget, MessagesSeen,
         FilesSeen, AnswersSeen

LEMMA CloseRefines ==
    ASSUME TypeOK, Inv, LinksInv, TypeOK', Inv', LinksInv', Next, CloseCommit
    PROVE  Conversation!Next
<1>1. UNCHANGED request /\ open' = FALSE /\ Unlink(Keys)
  BY DEF CloseCommit
<1>2. AnswersSeen' = AnswersSeen
  BY <1>1, AnswersStay
<1>3. /\ MessagesSeen' = [k \in Keys |-> IF k \in Keys THEN "none" ELSE MessagesSeen[k]]
      /\ FilesSeen' = [k \in Keys |-> IF k \in Keys THEN {} ELSE FilesSeen[k]]
  BY <1>1, UnlinkRefines
<1> QED
  BY <1>1, <1>2, <1>3, SpentGrows
     DEF Conversation!Next, Conversation!Close, Conversation!Forget, MessagesSeen,
         FilesSeen, AnswersSeen

LEMMA AgeRefines ==
    ASSUME TypeOK, Inv, LinksInv, TypeOK', Inv', LinksInv', NEW k \in Keys, Age(k)
    PROVE  Conversation!Next
<1>1. /\ message[k] = "sent" /\ message' = [message EXCEPT ![k] = "old"]
      /\ UNCHANGED <<upload, attached, open, request, stored>>
  BY DEF Age, files
<1>2. MessagesSeen[k] = "sent" /\ MessagesSeen' = [MessagesSeen EXCEPT ![k] = "old"]
  BY <1>1 DEF MessagesSeen, MessageOf, Written, TypeOK
<1>3. UNCHANGED <<FilesSeen, Spent, AnswersSeen>>
  BY <1>1, AnswersStay DEF FilesSeen, Shown, AttachedTo, Spent
<1> QED
  BY <1>1, <1>2, <1>3 DEF Conversation!Next, Conversation!Age, MessagesSeen, FilesSeen, AnswersSeen

LEMMA ConversationRefined ==
    TypeOK /\ Inv /\ LinksInv /\ TypeOK' /\ Inv' /\ LinksInv' /\ [Next]_vars
        => [Conversation!Next]_Seen
<1> SUFFICES ASSUME TypeOK, Inv, LinksInv, TypeOK', Inv', LinksInv', Next
             PROVE  Conversation!Next \/ UNCHANGED Seen
  <2>1. UNCHANGED vars => UNCHANGED Seen
    BY DEF vars, rows, Seen, MessagesSeen, MessageOf, Written, FilesSeen, Shown, AttachedTo,
           Spent, AnswersSeen, AnswerOf
  <2> QED
    BY <2>1
<1>1. CASE UNCHANGED <<message, attached, open, request>>
  <2>1. UNCHANGED <<MessagesSeen, FilesSeen, AnswersSeen, open>>
    BY <1>1, MessagesStay, AnswersStay
  <2> QED
    BY <2>1, SpentGrows
       DEF Conversation!Next, Conversation!Spend, MessagesSeen, FilesSeen,
           AnswersSeen
<1>2. ASSUME NEW u \in Uploads, UploadStep(u) PROVE UNCHANGED <<message, attached, open, request>>
  BY <1>2 DEF UploadStep, Reserve, RefreshUrl, Put, UrlEnds, Expire, Complete, ReadOriginal,
              StoreThumbnail, SaveThumbnailKey, ThumbnailFails
<1>3. ASSUME NEW w \in Sweepers, SweepStep(w) PROVE UNCHANGED <<message, attached, open, request>>
  BY <1>3 DEF SweepStep, SweepClaim, SweepErase, SweepFails, SweepDelete
<1>4. ASSUME RemovalStep
      PROVE  \/ UNCHANGED <<message, attached, open, request>>
             \/ \E k \in Keys : Age(k)
             \/ PurgeMessages \/ CloseCommit
  BY <1>4 DEF RemovalStep, PurgeList, PurgeUploads, PurgeDies, CloseList, CloseFails,
              EraseDoomed, ForgetDoomed
<1> QED
  BY <1>1, <1>2, <1>3, <1>4, SendRefines, PurgeRefines, CloseRefines, AgeRefines DEF Next, Step

(* ConversationSpec: sending, cleanup, purge and deletion implement        *)
(* ChatConversation, so a message shows the files of one request, all      *)
(* readable and in no other message, until it goes, and every answer       *)
(* agrees with that.                                                       *)
THEOREM ImplementsConversation == Spec => ConversationSpec
<1>1. Init => Conversation!Init
  BY DEF Init, Conversation!Init, MessagesSeen, MessageOf, Written, FilesSeen, Shown, AttachedTo,
         Spent, AnswersSeen, AnswerOf, NoUploadRow
<1>2. TypeOK /\ Inv /\ LinksInv /\ TypeOK' /\ Inv' /\ LinksInv' /\ [Next]_vars
        => [Conversation!Next]_Conversation!vars
  BY ConversationRefined DEF Seen, Conversation!vars, MessagesSeen, FilesSeen, AnswersSeen
<1> QED
  BY <1>1, <1>2, LinksInit, LinksStep, InvHolds, PTL
     DEF Spec, ConversationSpec, Conversation!Spec, Conversation!vars
=============================================================================
