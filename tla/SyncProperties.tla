--------------------------- MODULE SyncProperties ---------------------------
(***************************************************************************)
(* What one folder pair promises: no edit disappears without a reason,     *)
(* nothing is sent twice, and when it is quiet both sides agree.           *)
(***************************************************************************)
EXTENDS SyncEngine

(* The only local contents the daemon ever destroys that the cloud never   *)
(* had are those saved while a decision to replace or to delete stood for  *)
(* their path (apply_download and apply_delete_local do not look again at  *)
(* the file classify looked at), or between a transfer and the hash of the *)
(* path that is recorded after it.                                         *)
EditsOutsideWindowSurvive == Tagged("lost") \subseteq Tagged("racy")

M == INSTANCE Mirror WITH
    here   <- local,
    kept   <- {k.body : k \in copies},
    known  <- InCloudOnce,
    window <- Tagged("racy"),
    plan   <- {p \in Paths : AtStake(p)}

(* The engine implements the mirror: classify vouches for a file before it *)
(* decides about it, every step of apply keeps to decided paths, and where *)
(* a conflict was decided the file is moved before anything replaces it.   *)
ImplementsMirror == M!Spec

UploadComing(p) ==
    \/ p \in events
    \/ phase = "apply" /\ Act.path = p /\ FromWatcher

(* A content the user saved and that is still there has been sent, or is   *)
(* about to be, or was saved in a decided action's window, or with no      *)
(* watcher, or its one event came to nothing: the daemon has no other way  *)
(* to forget a local edit.                                                 *)
EveryLocalEditAccounted ==
    \A p \in Paths : local[p] \in Tagged("wroteHere") =>
        \/ UploadComing(p)
        \/ \E tag \in {"sent", "racy", "blind", "dropped"} : local[p] \in Tagged(tag)

DownloadComing(i) ==
    \/ cursor = None
    \/ cloud[i].rev > cursor
    \/ \E k \in DOMAIN todo : todo[k].id = i

(* A remote file below the root has been here, or a listing is still to    *)
(* report it, or an action for it is decided, or its action failed, or it  *)
(* was there before a first listing that starts from now: moving the       *)
(* cursor before the actions are applied forgets nothing else.             *)
EveryRemoteEditAccounted ==
    \A i \in Ids : LiveFile(i) /\ cloud[i].path \in Paths =>
        \/ DownloadComing(i)
        \/ cloud[i].body \in KnownHere \cup Tagged("missed") \cup Tagged("skipped")

(* No call has failed so far, and the pair is still there.                 *)
Unharmed == present /\ faults = 0

(* The daemon's own writes come back to it, from the watcher and from the  *)
(* change feed; it never sends a content the cloud has already had.  Where *)
(* several items may have one name that is so of local events only: one of *)
(* them may replace a file another is about to be replaced with.           *)
NoEcho ==
    [][phase # "sent" /\ phase' = "sent" /\ Unharmed
         /\ (Provider = "onedrive" \/ FromWatcher)
       => got'.hash \notin InCloudOnce]_vars

FilesOnly == \A i \in Ids : cloud[i].state # "gone" /\ ~cloud[i].folder

(* A conflict copy holds an edit of this user that exists nowhere else: no *)
(* copy is made of a file that only the other side changed, as long as no  *)
(* item was deleted and none of them is a folder, which conflicts with any *)
(* file in its way.                                                        *)
CopiesHoldUnsentEdits ==
    Provider = "onedrive" /\ Unharmed /\ FilesOnly =>
        \A k \in copies : k.body \in (Tagged("wroteHere") \ Tagged("sent")) \cup {Dir}

(* No event is waiting and the cursor is at the end of the change feed.    *)
Quiet == phase = "idle" /\ events = {} /\ cursor = clock

(* No folder anywhere, and no item was deleted.                            *)
Plain == FilesOnly /\ \A p \in Paths : Ancestors[p] = {}

(* When it is quiet and no call has failed, a file whose item is where its *)
(* row is about holds what the item holds, unless the edit was one of      *)
(* those EveryLocalEditAccounted lets go or the download could not be done *)
(* or was passed over; and the file is there, unless the user removed it   *)
(* (removals are never sent), or folders or deletions are about.           *)
QuietRowsInSync ==
    Quiet /\ Unharmed => \A p \in Paths :
        LET i == row[p].id
        IN  i \in Ids /\ LiveFile(i) /\ cloud[i].path = p =>
              \/ local[p] = cloud[i].body
              \/ \E tag \in {"racy", "blind", "dropped"} : local[p] \in Tagged(tag)
              \/ \E tag \in {"missed", "skipped"} : cloud[i].body \in Tagged(tag)
              \/ ~IsFile(p) /\ (May("unlink") \/ ~Plain)

-----------------------------------------------------------------------------
(* The scheduler's loop never stops: a call that was made returns, every   *)
(* tick drains the watcher before it looks at the poll timer, and the      *)
(* timer elapses again and again.                                          *)
Fairness ==
    /\ WF_vars(RunCycle \/ Apply)
    /\ WF_vars(RefreshWatchers)
    /\ \A p \in Paths : SF_vars(IgnoreEvent(p) \/ LoseEvent(p) \/ TakeEvent(p))
    /\ SF_vars(BeginPoll)

FairSpec == Spec /\ Fairness

(* Once the user and the other clients stop, everything they did has been  *)
(* listed, drained and acted on, and the daemon has nothing left to do.    *)
Settles == <>[](todo = <<>> /\ events = {} /\ cursor = clock)

-----------------------------------------------------------------------------
(* What the repository says of itself, and the code does not keep.         *)

(* conflict.rs:1-2, "never overwrite silently", here: the daemon destroys  *)
(* no local content that the cloud never had (apply_download does).        *)
NothingLost == Tagged("lost") = {}

(* conflict.rs:1-2, "never overwrite silently", there: the daemon replaces *)
(* no remote content this computer never had (apply_update does).          *)
NothingOverwritten == Tagged("overwritten") = {}

(* conflict.rs:1-2, "we keep both versions": no conflict copy is replaced  *)
(* by another one (apply_conflict's rename does).                          *)
NothingClobbered == Tagged("clobbered") = {}

(* algedi-provider-trait lib.rs:64: without a cursor list_changes starts   *)
(* "from the start", so the first listing of a pair passes over no file.   *)
FirstListingComplete == Tagged("skipped") = {}
=============================================================================
