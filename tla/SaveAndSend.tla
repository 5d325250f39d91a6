---------------------------- MODULE SaveAndSend ----------------------------
(***************************************************************************)
(* From a save to the cloud: a user makes a folder and saves a file in it, *)
(* in place and piece by piece, while the watcher settles what it hears of *)
(* and the scheduler takes what has settled, makes the folder in the       *)
(* drive, sends the file and records the digest of what it finds then.     *)
(***************************************************************************)
EXTENDS Watcher, UploadSession

CONSTANTS
    None,
    Versions,   \* what the file is saved as, each at most once
    Full,       \* how many pieces a version has
    Buffer,     \* how many pieces one write has, if not all that are left
    MaxFailures,\* bound: steps of the daemon that fail
    MaxRaw      \* bound: how many events the watcher thread lags behind

ASSUME SaveAssumption ==
    /\ Watched = {"d", "d/f"} /\ Depth["d"] < Depth["d/f"]
    /\ Full \in [Versions -> Nat \ {0}] /\ Buffer \in Nat \ {0}
    /\ MaxFailures \in Nat /\ MaxRaw \in Nat
    /\ None \notin Versions \cup Seq(Versions)

VARIABLES
    folder,     \* "d" is there
    file,       \* what "d/f" holds, piece by piece
    writing,    \* the save under way
    rowOfFolder,\* the folder has its row, with the id it got
    rowOfFile,  \* local_hash in the file's row
    remote,     \* what the drive holds of the file
    failures,
    inView,     \* notify has given the new folder a watch of its own
    saved,      \* history: the versions begun
    unreported, \* history: no event was raised for the file's last write
    retouched,  \* history: the folder was reported again after it was made
    disturbed,  \* history: the file was written since its size was read
    doubt,      \* history: what the last disturbed transfer left in doubt
    dropped     \* history: the file's last event came to nothing

userVars == <<folder, file, writing, inView, saved, unreported, retouched>>
rowVars == <<rowOfFolder, rowOfFile, remote, failures, doubt, dropped>>
vars == <<watcherVars, sessionVars, userVars, rowVars, disturbed>>

Pieces == Seq(Versions)
Whole(v) == [k \in 1 .. Full[v] |-> v]

TypeOK ==
    /\ WatcherTypeOK
    /\ stage \in Stages /\ size \in Nat /\ offset \in Nat /\ body \in Pieces
    /\ {folder, rowOfFolder, inView} \subseteq BOOLEAN
    /\ {unreported, retouched, disturbed, dropped} \subseteq BOOLEAN
    /\ {file, rowOfFile, remote} \subseteq Pieces \cup {None}
    /\ writing \in Versions \cup {None}
    /\ failures \in Nat
    /\ saved \subseteq Versions
    /\ doubt \subseteq {"remote", "row"}

Init ==
    /\ WatcherInit
    /\ SessionInit
    /\ folder = FALSE /\ file = None /\ writing = None /\ inView = FALSE
    /\ rowOfFolder = FALSE /\ rowOfFile = None /\ remote = None
    /\ failures = 0
    /\ saved = {} /\ doubt = {}
    /\ unreported = FALSE /\ retouched = FALSE /\ disturbed = FALSE /\ dropped = FALSE

-----------------------------------------------------------------------------
(* The user.                                                               *)

Notify(p) == Len(raw) < MaxRaw /\ Raise(p)

MakeDir ==
    /\ ~folder
    /\ folder' = TRUE
    /\ Notify("d")
    /\ UNCHANGED <<sessionVars, file, writing, inView, saved, unreported, retouched,
                   rowVars, disturbed>>

(* Its attributes change; the watcher hears of that too.                   *)
TouchDir ==
    /\ folder
    /\ ~retouched
    /\ retouched' = TRUE
    /\ Notify("d")
    /\ UNCHANGED <<sessionVars, folder, file, writing, inView, saved, unreported, rowVars,
                   disturbed>>

(* notify watches a new folder only when it comes to the event for it, and  *)
(* says nothing of what was written there before that; nobody else looks.   *)
WatchDir ==
    /\ folder /\ ~inView
    /\ inView' = TRUE
    /\ UNCHANGED <<watcherVars, sessionVars, folder, file, writing, saved, unreported,
                   retouched, rowVars, disturbed>>

Written ==
    /\ \/ inView /\ Notify("d/f") /\ unreported' = FALSE
       \/ ~inView /\ UNCHANGED watcherVars /\ unreported' = TRUE
    /\ disturbed' = (disturbed \/ stage # "none")
    /\ UNCHANGED <<sessionVars, folder, inView, retouched, rowVars>>

(* The file is opened with O_TRUNC ...                                     *)
BeginSave(v) ==
    /\ folder
    /\ writing = None
    /\ v \notin saved
    /\ saved' = saved \cup {v}
    /\ writing' = v
    /\ file' = <<>>
    /\ Written

(* ... and filled by one or several writes.                                *)
WriteOn ==
    /\ writing # None
    /\ LET left == Full[writing] - Len(file)
       IN  \E n \in {left, Buffer} \cap 1 .. left :
             /\ file' = file \o [k \in 1 .. n |-> writing]
             /\ writing' = IF n = left THEN None ELSE writing
    /\ UNCHANGED saved
    /\ Written

-----------------------------------------------------------------------------
(* The scheduler's drain: one settled path at a time, and local_action.    *)

Fault == failures < MaxFailures /\ failures' = failures + 1

Take(p) ==
    /\ stage = "none"
    /\ rx # <<>>
    /\ p = Head(rx)
    /\ rx' = Tail(rx)
    /\ UNCHANGED <<raw, pending, userVars>>

(* Mutated form of the definition that follows: the row is written before  *)
(* create_folder has answered.                                             *)
TakeFolderEarly ==
    /\ Take("d")
    /\ rowOfFolder' = None
    /\ UNCHANGED <<sessionVars, rowOfFile, remote, failures, doubt, dropped, disturbed>>

TakeFolder ==
    /\ Take("d")
    /\ \/ rowOfFolder' = TRUE /\ UNCHANGED failures
       \/ ~rowOfFolder /\ Fault /\ UNCHANGED rowOfFolder
    /\ UNCHANGED <<sessionVars, rowOfFile, remote, doubt, dropped, disturbed>>

(* Mutated form of the definition that follows: a file with a row is not   *)
(* looked at.                                                              *)
IgnoreKnownFile ==
    /\ Take("d/f")
    /\ file = None \/ rowOfFile # None
    /\ UNCHANGED <<sessionVars, rowVars, disturbed>>

IgnoreFile ==
    /\ Take("d/f")
    /\ file \in {None, rowOfFile}
    /\ UNCHANGED <<sessionVars, rowVars, disturbed>>

(* Without the folder's remote id there is no parent to put it into.       *)
LoseFile ==
    /\ Take("d/f")
    /\ file \notin {None, rowOfFile}
    /\ ~rowOfFolder
    /\ dropped' = TRUE
    /\ UNCHANGED <<sessionVars, rowOfFolder, rowOfFile, remote, failures, doubt, disturbed>>

TakeFile ==
    /\ Take("d/f")
    /\ file \notin {None, rowOfFile}
    /\ rowOfFolder
    /\ Metadata(file)
    /\ disturbed' = (writing # None)
    /\ dropped' = FALSE
    /\ UNCHANGED <<rowOfFolder, rowOfFile, remote, failures, doubt>>

-----------------------------------------------------------------------------
(* apply_upload and apply_update.                                          *)

Transferring == UNCHANGED <<watcherVars, userVars, rowOfFolder, rowOfFile, disturbed>>

InDoubt(what) == IF disturbed THEN doubt \cup {what} ELSE doubt \ {what}

Transfer ==
    /\ SimplePut(file) \/ PutChunk(file)
    /\ IF stage' = "stored" THEN remote' = body' /\ doubt' = InDoubt("remote")
       ELSE UNCHANGED <<remote, doubt>>
    /\ Transferring
    /\ UNCHANGED <<failures, dropped>>

(* hash_file after the answer, then record_synced.                         *)
Record ==
    /\ stage = "stored"
    /\ EndTransfer
    /\ rowOfFile' = file
    /\ doubt' = InDoubt("row")
    /\ UNCHANGED <<watcherVars, userVars, rowOfFolder, remote, failures, dropped,
                   disturbed>>

(* The file has become shorter than the range, or a call fails; nobody     *)
(* tries again before the next event.                                      *)
Fail ==
    /\ stage # "none"
    /\ \/ Fault
       \/ stage = "sending" /\ ~Readable(file) /\ UNCHANGED failures
    /\ EndTransfer
    /\ dropped' = TRUE
    /\ Transferring
    /\ UNCHANGED <<remote, doubt>>

-----------------------------------------------------------------------------
User == MakeDir \/ TouchDir \/ (\E v \in Versions : BeginSave(v)) \/ WriteOn

WatcherThread ==
    /\ Receive \/ TimeOut
    /\ UNCHANGED <<sessionVars, userVars, rowVars, disturbed>>

TimePasses == Tick /\ UNCHANGED <<sessionVars, userVars, rowVars, disturbed>>

Scheduler ==
    \/ TakeFolder \/ IgnoreFile \/ LoseFile \/ TakeFile
    \/ Transfer \/ Record \/ Fail

Next == User \/ WatchDir \/ WatcherThread \/ TimePasses \/ Scheduler

(* The thread's loop and the scheduler's go on, time passes, and a save    *)
(* that was begun comes to its end.                                        *)
Fairness ==
    /\ WF_vars(WatcherThread)
    /\ WF_vars(TimePasses)
    /\ WF_vars(Scheduler)
    /\ WF_vars(WriteOn)

Spec == Init /\ [][Next]_vars /\ Fairness

-----------------------------------------------------------------------------
(* Watcher::watch sorts by depth and apply waits for create_folder: a new  *)
(* file is lost for want of its folder's id only when the folder was       *)
(* reported again, which restarts its window, or could not be made.        *)
FileFollowsFolder ==
    dropped /\ ~rowOfFolder => retouched \/ failures > 0

(* What the drive holds is one version from its first piece to its last,   *)
(* unless the file was being written while it was sent.                    *)
CloudFileWhole ==
    remote # None /\ "remote" \notin doubt => \E v \in Versions : remote = Whole(v)

AtRest == rx = <<>> /\ stage = "none"

(* The watcher may have heard of it, but nothing is on its way.            *)
Unheard == \A k \in DOMAIN raw : raw[k] # "d/f"

(* It came to the drive, its event came to nothing, there was no event, or *)
(* the digest was taken too late.                                          *)
Explained ==
    \/ remote = file
    \/ dropped
    \/ unreported
    \/ rowOfFile = file /\ "row" \in doubt

(* An edit is forgotten silently in two races only.  The file was written  *)
(* during its transfer, and the digest recorded afterwards is that of the  *)
(* last version, which makes local_action ignore the event for it; or it   *)
(* was written in a new folder that had no watch yet, and local_action,    *)
(* given the folder's event, does not look at what the folder holds.       *)
ForgottenOnlyInRaces ==
    AtRest /\ Unheard /\ "d/f" \notin DOMAIN pending => Explained

(* An event about the file is to come to the scheduler.                    *)
OnItsWay ==
    \/ ~Unheard
    \/ "d/f" \in DOMAIN pending
    \/ \E k \in DOMAIN rx : rx[k] = "d/f"

(* Why: until it is explained, an event or a transfer is about the file    *)
(* that is there; a transfer nobody disturbed stored that file; and a row  *)
(* that no failure and no late digest left behind tells what the drive     *)
(* holds, so local_action is right to compare with it.                     *)
Followed == OnItsWay \/ stage # "none" \/ Explained

ForgetInv ==
    /\ Followed
    /\ file = None => remote = None
    /\ stage = "stored" /\ ~disturbed => remote = file
    /\ stage = "none" /\ rowOfFile # None /\ ~dropped /\ "row" \notin doubt =>
         remote = rowOfFile

(* Every save comes to the cloud in the end, or is forgotten in one of the *)
(* ways just named, or its event came to nothing.                          *)
SavesArrive == <>[]Explained
=============================================================================
