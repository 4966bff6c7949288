--------------------------- MODULE ChatAttachments ---------------------------
(***************************************************************************)
(* The messages one member sends to one conversation, and the files sent   *)
(* with them.  A file is reserved, put into the storage by the client,     *)
(* completed, and linked to a message; a task adds a thumbnail.  A cleanup *)
(* removes what expired before it was sent, a purge what is thirty days    *)
(* old, and the conversation of a deactivated member goes with everything  *)
(* in it.                                                                  *)
(*                                                                         *)
(* The storage is in no transaction: it is a set beside the rows.  Left    *)
(* out: participants, replies, mentions, notifications and the read        *)
(* cursor; who is another member or in another conversation is refused.    *)
(***************************************************************************)
EXTENDS FiniteSets

CONSTANTS
    Uploads,
    Keys,         \* client_message_id
    Requests,     \* requests to send a message, repetitions among them
    KeyOf, UploadsOf,
    Sweepers,     \* runs of the cleanup
    NoKey, NoUpload

ASSUME ChatAssumption ==
    /\ KeyOf \in [Requests -> Keys]
    /\ UploadsOf \in [Requests -> SUBSET Uploads]
    /\ NoKey \notin Keys
    /\ NoUpload \notin Uploads

VARIABLES
    upload,       \* the ChatUpload rows
    attached,     \* the ChatMessageAttachment rows: the message of an upload
    message,      \* the ChatMessage rows
    open,         \* the ChatConversation row is there
    request,      \* where a request stands, or its answer
    stored,       \* files in the storage
    url,          \* uploads whose presigned URL still works
    task,         \* the thumbnail task of an upload
    sweep,        \* runs of the cleanup
    purge,        \* a run of the purge
    closing,      \* a deletion of the conversation
    doomed,       \* files that an on_commit callback is still to delete
    undisturbed   \* history: every removal had its files to itself

rows == <<upload, attached, message, open, request, stored, url, task,
          sweep, purge, closing, doomed>>
vars == <<rows, undisturbed>>
files == <<stored, url, task, doomed>>
removals == <<sweep, purge, closing>>

Original(u)  == <<u, "original">>
Thumbnail(u) == <<u, "thumbnail">>
Files == Uploads \X {"original", "thumbnail"}

UploadStatuses == {"absent", "reserved", "validated", "linked", "expired", "removed"}
UploadRows == [status : UploadStatuses, thumb : BOOLEAN, late : BOOLEAN]
MessageStatuses == {"none", "sent", "old", "removed"}
RequestSteps == {"new", "checked", "locked", "answered", "refused"}
TaskSteps == {"none", "queued", "read", "saved"}
SweepRows == [at : {"idle", "claimed", "erased"}, upload : Uploads \cup {NoUpload},
              files : SUBSET Files]
PurgeRows == [at : {"idle", "listed", "unlinked"}, keys : SUBSET Keys,
              uploads : SUBSET Uploads, files : SUBSET Files]
ClosingRows == [at : {"idle", "listed"}, files : SUBSET Files]

NoUploadRow == [status |-> "absent", thumb |-> FALSE, late |-> FALSE]
NoSweep   == [at |-> "idle", upload |-> NoUpload, files |-> {}]
NoPurge   == [at |-> "idle", keys |-> {}, uploads |-> {}, files |-> {}]
NoClosing == [at |-> "idle", files |-> {}]

Init ==
    /\ upload = [u \in Uploads |-> NoUploadRow]
    /\ attached = [u \in Uploads |-> NoKey]
    /\ message = [k \in Keys |-> "none"]
    /\ open = TRUE
    /\ request = [r \in Requests |-> "new"]
    /\ stored = {}
    /\ url = {}
    /\ task = [u \in Uploads |-> "none"]
    /\ sweep = [w \in Sweepers |-> NoSweep]
    /\ purge = NoPurge
    /\ closing = NoClosing
    /\ doomed = {}
    /\ undisturbed = TRUE

(* Every value is one the program knows.                                   *)
TypeOK ==
    /\ upload \in [Uploads -> UploadRows]
    /\ attached \in [Uploads -> Keys \cup {NoKey}]
    /\ message \in [Keys -> MessageStatuses]
    /\ open \in BOOLEAN
    /\ request \in [Requests -> RequestSteps]
    /\ stored \subseteq Files
    /\ url \subseteq Uploads
    /\ task \in [Uploads -> TaskSteps]
    /\ sweep \in [Sweepers -> SweepRows]
    /\ purge \in PurgeRows
    /\ closing \in ClosingRows
    /\ doomed \subseteq Files
    /\ undisturbed \in BOOLEAN

-----------------------------------------------------------------------------
Exists(u)  == upload[u].status \notin {"absent", "removed"}
Written(k) == message[k] \in {"sent", "old"}
SetStatus(u, status) == upload' = [upload EXCEPT ![u].status = status]

(* A message about to be saved holds the rows of its uploads.              *)
Held(u) == \E r \in Requests : request[r] = "locked" /\ u \in UploadsOf[r]

FilesOf_OriginalOnly(u) == {Original(u)}

(* chat_object_keys_for_uploads                                            *)
FilesOf(u) == {Original(u)} \cup (IF upload[u].thumb THEN {Thumbnail(u)} ELSE {})

FilesOfAll(S) == UNION {FilesOf(u) : u \in S}

-----------------------------------------------------------------------------
(* An upload, from its reservation to its completion                       *)

Reserve(u) ==
    /\ open
    /\ upload[u].status = "absent"
    /\ SetStatus(u, "reserved")
    /\ url' = url \cup {u}
    /\ UNCHANGED <<attached, message, open, request, stored, task, removals, doomed>>

RefreshUrl(u) ==
    /\ open
    /\ upload[u].status = "reserved" /\ ~upload[u].late
    /\ u \notin url
    /\ url' = url \cup {u}
    /\ UNCHANGED <<upload, attached, message, open, request, stored, task, removals, doomed>>

(* The client puts the content, whatever became of the row.                *)
Put(u) ==
    /\ u \in url
    /\ stored' = stored \cup {Original(u)}
    /\ UNCHANGED <<upload, attached, message, open, request, url, task, removals, doomed>>

UrlEnds(u) ==
    /\ u \in url
    /\ url' = url \ {u}
    /\ UNCHANGED <<upload, attached, message, open, request, stored, task, removals, doomed>>

(* expires_at passes                                                       *)
Expire(u) ==
    /\ Exists(u) /\ ~upload[u].late
    /\ upload' = [upload EXCEPT ![u].late = TRUE]
    /\ UNCHANGED <<attached, message, open, request, files, removals>>

(* An image queues its thumbnail task, which may be lost.  A reservation   *)
(* that is late is refused, and the status saved for it rolled back.       *)
Complete(u) ==
    /\ upload[u].status = "reserved" /\ ~upload[u].late
    /\ Original(u) \in stored
    /\ SetStatus(u, "validated")
    /\ task' \in {task, [task EXCEPT ![u] = "queued"]}
    /\ UNCHANGED <<attached, message, open, request, stored, url, removals, doomed>>

-----------------------------------------------------------------------------
(* The thumbnail: read, store, save the key, with no lock                  *)

SetTask(u, at) == task' = [task EXCEPT ![u] = at]

ReadOriginal(u) ==
    /\ task[u] = "queued"
    /\ Exists(u) /\ Original(u) \in stored
    /\ SetTask(u, "read")
    /\ UNCHANGED <<upload, attached, message, open, request, stored, url, removals, doomed>>

StoreThumbnail(u) ==
    /\ task[u] = "read"
    /\ stored' = stored \cup {Thumbnail(u)}
    /\ SetTask(u, "saved")
    /\ UNCHANGED <<upload, attached, message, open, request, url, removals, doomed>>

SaveThumbnailKey(u) ==
    /\ task[u] = "saved"
    /\ Exists(u) /\ ~Held(u)
    /\ upload' = [upload EXCEPT ![u].thumb = TRUE]
    /\ SetTask(u, "none")
    /\ UNCHANGED <<attached, message, open, request, stored, url, removals, doomed>>

(* An error, retried or for good, a row that is gone, a dead worker.       *)
ThumbnailFails(u) ==
    /\ task[u] # "none"
    /\ \E at \in {"queued", "none"} : SetTask(u, at)
    /\ UNCHANGED <<upload, attached, message, open, request, stored, url, removals, doomed>>

-----------------------------------------------------------------------------
(* create_message                                                          *)

Answer(r, answer) == request' = [request EXCEPT ![r] = answer]

(* The first look for the message of the key, without a lock.              *)
Check(r) ==
    /\ request[r] = "new"
    /\ \/ ~open /\ Answer(r, "refused")
       \/ open /\ Written(KeyOf[r]) /\ Answer(r, "answered")
       \/ open /\ ~Written(KeyOf[r]) /\ Answer(r, "checked")
    /\ UNCHANGED <<upload, attached, message, open, files, removals>>

Usable(u) ==
    \/ upload[u].status = "linked"
    \/ upload[u].status = "validated" /\ ~upload[u].late

LockAnswer_NoSecondLook(r) ==
    IF \E u \in UploadsOf[r] : ~Usable(u) \/ upload[u].status = "linked" THEN "refused"
    ELSE "locked"

(* What follows from the uploads once they are locked: when one is linked, *)
(* the message of the key is looked for again.                             *)
LockAnswer(r) ==
    IF \E u \in UploadsOf[r] : ~Usable(u) THEN "refused"
    ELSE IF \A u \in UploadsOf[r] : upload[u].status # "linked" THEN "locked"
    ELSE IF Written(KeyOf[r]) THEN "answered" ELSE "refused"

LockUploads(r) ==
    /\ request[r] = "checked" /\ UploadsOf[r] # {}
    /\ \A u \in UploadsOf[r] : ~Held(u)
    /\ Answer(r, LockAnswer(r))
    /\ UNCHANGED <<upload, attached, message, open, files, removals>>

ReadyToSave(r) ==
    \/ request[r] = "locked"
    \/ request[r] = "checked" /\ UploadsOf[r] = {}

(* The insertion, its links and the commit.                                *)
SaveMessage(r) ==
    /\ ReadyToSave(r)
    /\ open /\ ~Written(KeyOf[r])
    /\ message' = [message EXCEPT ![KeyOf[r]] = "sent"]
    /\ upload' = [u \in Uploads |->
                    IF u \in UploadsOf[r] THEN [upload[u] EXCEPT !.status = "linked"]
                    ELSE upload[u]]
    /\ attached' = [u \in Uploads |-> IF u \in UploadsOf[r] THEN KeyOf[r] ELSE attached[u]]
    /\ Answer(r, "answered")
    /\ UNCHANGED <<open, files, removals>>

SaveMeetsMessage_LinksToo(r) ==
    /\ ReadyToSave(r)
    /\ open /\ Written(KeyOf[r])
    /\ attached' = [u \in Uploads |-> IF u \in UploadsOf[r] THEN KeyOf[r] ELSE attached[u]]
    /\ Answer(r, "answered")
    /\ UNCHANGED <<upload, message, open, files, removals>>

(* The unique key tells that another request was first.                    *)
SaveMeetsMessage(r) ==
    /\ ReadyToSave(r)
    /\ open /\ Written(KeyOf[r])
    /\ Answer(r, "answered")
    /\ UNCHANGED <<upload, attached, message, open, files, removals>>

(* An error, the conversation gone, a crash: the client may repeat it.     *)
Fail(r) ==
    /\ request[r] \in {"checked", "locked"}
    /\ Answer(r, "new")
    /\ UNCHANGED <<upload, attached, message, open, files, removals>>

-----------------------------------------------------------------------------
(* cleanup_expired_chat_uploads: the claim, the files, the row             *)

Claimable_StaleList(u) ==
    /\ Exists(u)
    /\ upload[u].late

Claimable_ForgetsExpired(u) ==
    /\ upload[u].status \in {"reserved", "validated"}
    /\ upload[u].late
    /\ attached[u] = NoKey

(* Judged again under the lock; locked rows are skipped.                   *)
Claimable(u) ==
    /\ upload[u].status \in {"reserved", "validated", "expired"}
    /\ upload[u].late
    /\ attached[u] = NoKey

SweepClaim(w, u) ==
    /\ sweep[w].at = "idle"
    /\ ~Held(u) /\ Claimable(u)
    /\ SetStatus(u, "expired")
    /\ sweep' = [sweep EXCEPT ![w] = [at |-> "claimed", upload |-> u, files |-> FilesOf(u)]]
    /\ UNCHANGED <<attached, message, open, request, files, purge, closing>>

SweepErase(w) ==
    /\ sweep[w].at = "claimed"
    /\ stored' = stored \ sweep[w].files
    /\ sweep' = [sweep EXCEPT ![w].at = "erased"]
    /\ UNCHANGED <<upload, attached, message, open, request, url, task, purge, closing, doomed>>

(* The storage fails, or the run is killed: the row stays.                 *)
SweepFails(w) ==
    /\ sweep[w].at # "idle"
    /\ \E gone \in SUBSET sweep[w].files : stored' = stored \ gone
    /\ sweep' = [sweep EXCEPT ![w] = NoSweep]
    /\ UNCHANGED <<upload, attached, message, open, request, url, task, purge, closing, doomed>>

SweepDelete(w) ==
    LET u == sweep[w].upload IN
    /\ sweep[w].at = "erased"
    /\ upload' = [v \in Uploads |->
            IF v = u /\ upload[v].status = "expired" /\ attached[v] = NoKey
            THEN [upload[v] EXCEPT !.status = "removed"] ELSE upload[v]]
    /\ sweep' = [sweep EXCEPT ![w] = NoSweep]
    /\ UNCHANGED <<attached, message, open, request, files, purge, closing>>

-----------------------------------------------------------------------------
(* purge_chat_messages: messages, then uploads, then files, each on its own*)

(* Thirty days pass.                                                       *)
Age(k) ==
    /\ message[k] = "sent"
    /\ message' = [message EXCEPT ![k] = "old"]
    /\ UNCHANGED <<upload, attached, open, request, files, removals>>

AttachedTo(S) == {u \in Uploads : attached[u] \in S}

PurgeList ==
    LET old == {k \in Keys : message[k] = "old"} IN
    /\ purge.at = "idle" /\ old # {}
    /\ purge' = [at |-> "listed", keys |-> old, uploads |-> AttachedTo(old),
                 files |-> FilesOfAll(AttachedTo(old))]
    /\ UNCHANGED <<upload, attached, message, open, request, files, sweep, closing>>

(* The rows of S go, and their attachments with them.                      *)
Unlink(S) ==
    /\ message' = [k \in Keys |-> IF k \in S /\ Written(k) THEN "removed" ELSE message[k]]
    /\ attached' = [u \in Uploads |-> IF attached[u] \in S THEN NoKey ELSE attached[u]]

PurgeMessages ==
    /\ purge.at = "listed"
    /\ Unlink(purge.keys)
    /\ purge' = [purge EXCEPT !.at = "unlinked"]
    /\ UNCHANGED <<upload, open, request, files, sweep, closing>>

RemoveRows(S) ==
    upload' = [u \in Uploads |->
        IF u \in S /\ Exists(u) THEN [upload[u] EXCEPT !.status = "removed"] ELSE upload[u]]

PurgeUploads ==
    /\ purge.at = "unlinked"
    /\ RemoveRows(purge.uploads)
    /\ doomed' = doomed \cup purge.files
    /\ purge' = NoPurge
    /\ UNCHANGED <<attached, message, open, request, stored, url, task, sweep, closing>>

PurgeDies ==
    /\ purge.at # "idle"
    /\ purge' = NoPurge
    /\ UNCHANGED <<upload, attached, message, open, request, files, sweep, closing>>

-----------------------------------------------------------------------------
(* hard_delete_conversations: the files are listed, then everything goes   *)

CloseList ==
    /\ open /\ closing.at = "idle"
    /\ closing' = [at |-> "listed", files |-> FilesOfAll({u \in Uploads : Exists(u)})]
    /\ UNCHANGED <<upload, attached, message, open, request, files, sweep, purge>>

CloseCommit ==
    /\ closing.at = "listed"
    /\ \A u \in Uploads : ~Held(u)
    /\ open' = FALSE
    /\ RemoveRows(Uploads)
    /\ Unlink(Keys)
    /\ doomed' = doomed \cup closing.files
    /\ closing' = NoClosing
    /\ UNCHANGED <<request, stored, url, task, sweep, purge>>

(* An error rolls back, a message that was sent meanwhile for one.         *)
CloseFails ==
    /\ closing.at = "listed"
    /\ closing' = NoClosing
    /\ UNCHANGED <<upload, attached, message, open, request, files, sweep, purge>>

EraseDoomed(f) ==
    /\ f \in doomed
    /\ doomed' = doomed \ {f}
    /\ stored' = stored \ {f}
    /\ UNCHANGED <<upload, attached, message, open, request, url, task, removals>>

(* The storage fails, which is logged, or the process is dead.             *)
ForgetDoomed(f) ==
    /\ f \in doomed
    /\ doomed' = doomed \ {f}
    /\ UNCHANGED <<upload, attached, message, open, request, stored, url, task, removals>>

-----------------------------------------------------------------------------
UploadStep(u) ==
    \/ Reserve(u) \/ RefreshUrl(u) \/ Put(u) \/ UrlEnds(u) \/ Expire(u) \/ Complete(u)
    \/ ReadOriginal(u) \/ StoreThumbnail(u) \/ SaveThumbnailKey(u) \/ ThumbnailFails(u)

SendStep(r) ==
    Check(r) \/ LockUploads(r) \/ SaveMessage(r) \/ SaveMeetsMessage(r) \/ Fail(r)

SweepStep(w) ==
    \/ \E u \in Uploads : SweepClaim(w, u)
    \/ SweepErase(w) \/ SweepFails(w) \/ SweepDelete(w)

RemovalStep ==
    \/ \E k \in Keys : Age(k)
    \/ PurgeList \/ PurgeMessages \/ PurgeUploads \/ PurgeDies
    \/ CloseList \/ CloseCommit \/ CloseFails
    \/ \E f \in Files : EraseDoomed(f) \/ ForgetDoomed(f)

-----------------------------------------------------------------------------
(* No code keeps a file from arriving while its upload is being removed,   *)
(* and a removal may stop half-way: the files are all seen to as long as   *)
(* neither has happened.                                                   *)

BeingRemoved ==
    {sweep[w].upload : w \in Sweepers} \cup purge.uploads
    \cup {u \in Uploads : closing.at = "listed" \/ upload[u].status = "removed"}

Settled(u) == u \notin url /\ task[u] \in {"none", "queued"}

ThumbnailsNamed ==
    \A u \in Uploads : task[u] = "saved" => task'[u] = "saved" \/ upload'[u].thumb

RemovalsEnd ==
    /\ purge.at # "idle" /\ purge'.at = "idle" => \A u \in purge.uploads : ~Exists(u)'
    /\ \A f \in doomed : f \in doomed' \/ f \notin stored'

Undisturbed ==
    /\ \A u \in Uploads \cap BeingRemoved' : Settled(u)'
    /\ ThumbnailsNamed
    /\ RemovalsEnd

Step ==
    \/ \E u \in Uploads : UploadStep(u)
    \/ \E r \in Requests : SendStep(r)
    \/ \E w \in Sweepers : SweepStep(w)
    \/ RemovalStep

Next == Step /\ undisturbed' = (undisturbed /\ Undisturbed)

Spec == Init /\ [][Next]_vars

-----------------------------------------------------------------------------
(* The storage answers again in the end, and beat starts the cleanup every *)
(* night; a request ends, a URL is good for fifteen minutes.               *)
Fairness ==
    /\ \A r \in Requests :
         WF_rows(SaveMessage(r) \/ SaveMeetsMessage(r) \/ Fail(r))
    /\ \A w \in Sweepers :
         /\ \A u \in Uploads : SF_rows(SweepClaim(w, u))
         /\ SF_rows(SweepErase(w))
         /\ SF_rows(SweepDelete(w))

FairSpec == Spec /\ Fairness

-----------------------------------------------------------------------------
(* The file of an attachment is in the storage: a cleanup that found its   *)
(* upload expired, and a purge or a deletion that listed it, never take it *)
(* from a message that stays.                                              *)
AttachmentsStored == \A u \in Uploads : attached[u] # NoKey => Original(u) \in stored

(* A message keeps the files it was sent with, no more and no less, until  *)
(* it goes: a repetition with other files, another message that wants them *)
(* and a cleanup change nothing about it.                                  *)
MessageKeepsFiles ==
    [][\A k \in Keys : Written(k) /\ Written(k)' => AttachedTo({k})' = AttachedTo({k})]_vars

(* What a reader of the conversation and the senders see of all this.      *)
Shown(k)     == {u \in AttachedTo({k}) : Original(u) \in stored}
Spent        == {u \in Uploads : upload[u].status \in {"linked", "expired", "removed"}}
MessageOf(k) == IF Written(k) THEN message[k] ELSE "none"
AnswerOf(r)  == IF request[r] \in {"answered", "refused"} THEN request[r] ELSE "none"

Conversation == INSTANCE ChatConversation WITH
    message <- [k \in Keys |-> MessageOf(k)],
    shown   <- [k \in Keys |-> Shown(k)],
    spent   <- Spent,
    answer  <- [r \in Requests |-> AnswerOf(r)]

(* However requests, their repetitions, the cleanup, the purge and the end *)
(* of the conversation interleave: a message shows the files of one        *)
(* request, readable and its own, until it goes, and the answers agree.    *)
ConversationSpec == Conversation!Spec

SentAs(r) == Written(KeyOf[r]) /\ AttachedTo({KeyOf[r]}) = UploadsOf[r]

(* A request is never refused when its message is there already, sent by   *)
(* an earlier repetition of it or by one that runs beside it.              *)
RepeatsAnswered ==
    [][\A r \in Requests :
         request[r] # "refused" /\ request'[r] = "refused" => ~SentAs(r)]_vars

(* A file in the storage is found by what is still to remove it: its row,  *)
(* as long as the cleanup, a purge of its message or the end of the        *)
(* conversation comes to that row, or a removal under way.                 *)
Reached(u) ==
    Exists(u) /\ (upload[u].status = "linked" => attached[u] # NoKey \/ u \in purge.uploads)

NamedBy(f) == \E u \in Uploads : Reached(u) /\ f \in FilesOf(u)

BeingSaved(f) == \E u \in Uploads : f = Thumbnail(u) /\ task[u] = "saved"

FilesHaveOwners ==
    undisturbed => \A f \in stored : NamedBy(f) \/ BeingSaved(f) \/ f \in doomed

(* An upload that expires is sent all the same, by a request that holds it *)
(* by then, or it goes: also when its files could not be erased at first.  *)
ExpiredUploadsGo ==
    \A u \in Uploads :
        Exists(u) /\ upload[u].late ~> upload[u].status \in {"linked", "removed"}
=============================================================================
