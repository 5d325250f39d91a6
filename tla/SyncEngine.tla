----------------------------- MODULE SyncEngine -----------------------------
(***************************************************************************)
(* One folder pair under the daemon: the SyncEngine the scheduler builds   *)
(* for it, the pair's folder and watcher, its rows in StateDb, the cloud   *)
(* drive, the user at this computer and the clients elsewhere.             *)
(*                                                                         *)
(* The scheduler is one task, so the engine does one thing at a time; but  *)
(* every provider call is an await and every file operation a system call, *)
(* and between two of them the user and the other clients may act.  A step *)
(* of the engine below is the code from one such point to the next.        *)
(***************************************************************************)
EXTENDS Cloud, StateDb, LocalFolder

CONSTANTS
    Env,        \* what the surroundings do: see "The surroundings" below
    MaxClock,   \* bound: other clients act while clock is below it
    MaxFaults,  \* bound: calls that fail without a reason the model knows
    MaxSecond   \* bound: the wall clock stops at this second

ASSUME BoundAssumption == MaxClock \in Nat /\ MaxFaults \in Nat /\ MaxSecond \in Nat

VARIABLES
    phase,      \* where the task is
    batch,      \* listed changes run_cycle has not classified yet
    todo,       \* decided actions; the head is the one being applied
    got,        \* what the last provider call brought
    newCursor,  \* the cursor the listing came with
    paused,     \* the pair's paused flag
    faults,     \* how many calls have failed so
    ledger      \* history: what became of each content (no code reads it)

engineVars == <<phase, batch, todo, got, newCursor>>
vars == <<cloudVars, dbVars, folderVars, engineVars, paused, faults, ledger>>

Phases == {"idle", "due", "classify", "apply", "moved", "fetched",
           "installed", "sent"}

Action == [kind : {"download", "upload", "update", "conflict", "delete"},
           path : Paths, id : Ids \cup {None}, parent : Holder,
           folder : BOOLEAN, hash : Content \cup {None}]

Got == [id : Ids \cup {None}, hash : Content \cup {None},
        body : Content \cup {None}]
Nothing == [id |-> None, hash |-> None, body |-> None]

Tags == {"wroteHere",   \* saved by the user at this computer
         "wroteThere",  \* stored in the cloud by another client
         "sent",        \* stored in the cloud by the daemon
         "fetched",     \* put into the folder by the daemon
         "racy",        \* saved here while the path was at stake
         "blind",       \* saved here, or pending, with no watcher
         "dropped",     \* its event was consumed and nothing came of it
         "missed",      \* listed, and the action for it failed
         "paused",      \* saved here while the pair was paused
         "skipped",     \* in the cloud before the first listing began
         "lost",        \* destroyed by the daemon here, never in the cloud
         "overwritten", \* replaced by the daemon there, never been here
         "clobbered"}   \* a conflict copy that another copy replaced

Tagged(tag) == {c \in Content : <<c, tag>> \in ledger}
InCloudOnce == Tagged("wroteThere") \cup Tagged("sent")
KnownHere == Tagged("wroteHere") \cup Tagged("fetched")
Mark(cs, tag) == (cs \cap Content) \X {tag}

EngineTypeOK ==
    /\ phase \in Phases
    /\ batch \in SUBSET Change
    /\ todo \in Seq(Action)
    /\ got \in Got
    /\ newCursor \in Nat \cup {None}

TypeOK ==
    /\ CloudTypeOK
    /\ DbTypeOK
    /\ FolderTypeOK
    /\ EngineTypeOK
    /\ paused \in BOOLEAN
    /\ faults \in Nat
    /\ ledger \in SUBSET (Content \X Tags)

Init ==
    /\ CloudInit
    /\ DbInit
    /\ FolderInit
    /\ phase = "idle"
    /\ batch = {}
    /\ todo = <<>>
    /\ got = Nothing
    /\ newCursor = None
    /\ paused = FALSE
    /\ faults = 0
    /\ ledger = {}

Idle == phase = "idle"
Working == phase \in {"apply", "moved", "fetched", "installed", "sent"}

(* A call fails for a reason outside the model: the network, the disk, a   *)
(* refused token, a quota.                                                 *)
Fault == faults < MaxFaults /\ faults' = faults + 1
NoFault == UNCHANGED faults

-----------------------------------------------------------------------------
(* The watcher map and the local events (scheduler.rs, first half of the   *)
(* loop; SyncEngine::local_action).                                        *)

(* due_syncs: the pair is in its account's handle and not paused.          *)
Due == present /\ ~paused

(* The map follows the pairs that are due: pausing or removing the pair    *)
(* drops the watcher and everything it had not delivered.                  *)
RefreshWatchers ==
    /\ Idle
    /\ watching # Due
    /\ watching' = Due
    /\ events' = {}
    /\ ledger' = ledger \cup Mark({local[p] : p \in events}, "blind")
    /\ UNCHANGED <<cloudVars, dbVars, engineVars, local, copies, now, paused, faults>>

ParentId(p) == IF Ancestors[p] = {} THEN Root ELSE RemoteIdForRelativePath(ParentOf(p))

(* Mutated forms of the definition that follows: the content of a known    *)
(* file is not looked at, or is not compared with the row.                 *)
KnownIsEnough(p) == local[p] = Absent \/ row[p].id # None
ContentNotCompared(p) == local[p] = Absent \/ (local[p] = Dir /\ row[p].id # None)

(* Gone again, or as the row last recorded it.  A directory with a row     *)
(* counts as recorded, whatever the row is about.                          *)
NothingToSend(p) ==
    \/ local[p] = Absent
    \/ /\ row[p].id # None
       /\ local[p] = Dir \/ Hash(local[p]) = row[p].lhash

LocalAction(p) ==
    [kind   |-> IF row[p].id = None THEN "upload" ELSE "update",
     path   |-> p,
     id     |-> row[p].id,
     parent |-> ParentId(p),
     folder |-> local[p] = Dir,
     hash   |-> row[p].rhash]

Deliver(p) ==
    /\ Idle
    /\ watching
    /\ p \in events
    /\ events' = events \ {p}
    /\ UNCHANGED <<cloudVars, dbVars, local, copies, watching, now, batch, got,
                   newCursor, paused>>

IgnoreEvent(p) ==
    /\ Deliver(p)
    /\ NothingToSend(p)
    /\ UNCHANGED <<phase, todo, faults, ledger>>

(* The parent folder has no remote id yet, or the file cannot be read.     *)
LoseEvent(p) ==
    /\ Deliver(p)
    /\ ~NothingToSend(p)
    /\ \/ ParentId(p) = None /\ NoFault
       \/ Fault
    /\ ledger' = ledger \cup Mark({local[p]}, "dropped")
    /\ UNCHANGED <<phase, todo>>

TakeEvent(p) ==
    /\ Deliver(p)
    /\ ~NothingToSend(p)
    /\ ParentId(p) # None
    /\ todo' = <<LocalAction(p)>>
    /\ phase' = "apply"
    /\ UNCHANGED <<faults, ledger>>

-----------------------------------------------------------------------------
(* run_cycle.  The scheduler clones the due pairs, so that the pair is due *)
(* is found out once, before the listing.                                  *)

BeginPoll ==
    /\ Idle
    /\ Due
    /\ phase' = "due"
    /\ UNCHANGED <<cloudVars, dbVars, folderVars, batch, todo, got, newCursor,
                   paused, faults, ledger>>

List ==
    /\ phase = "due"
    /\ present
    /\ batch' = ListChanges(cursor)
    /\ newCursor' = clock
    /\ phase' = "classify"
    /\ ledger' = IF cursor # None THEN ledger
                 ELSE ledger \cup Mark({cloud[i].body : i \in
                        {j \in Ids : LiveFile(j) /\ cloud[j].rev <= Since(None)}},
                        "skipped")
    /\ UNCHANGED <<cloudVars, dbVars, folderVars, todo, got, paused, faults>>

(* The relative path a change is about: a deletion is looked up by remote  *)
(* id first; otherwise the parents are walked, which fails when the folder *)
(* that held the item is gone, and when a name is no path component.       *)
PathsFor(ch) ==
    IF ch.deleted /\ RelativePathsForRemoteId(ch.id) # {}
    THEN RelativePathsForRemoteId(ch.id)
    ELSE {ch.path} \cap Paths

(* Mutated form: a deletion that names no parent is an error too.          *)
ResolvesByParent(ch) == Reachable(ch.parent) /\ ch.path \notin {Awkward, Elsewhere}

Resolves(ch) ==
    \/ ch.deleted /\ RelativePathsForRemoteId(ch.id) # {}
    \/ Reachable(ch.parent) /\ ch.path # Awkward

(* Mutated forms: without a row nothing counts as changed.                 *)
LocalChangedSinceRow(p) == row[p].id # None /\ Hash(local[p]) # row[p].lhash
RemoteChangedSinceRow(p, ch) == row[p].id # None /\ ch.hash # row[p].rhash

LocalChanged(p) == Hash(local[p]) # row[p].lhash
RemoteChanged(p, ch) == ch.hash # row[p].rhash

(* Mutated form: a conflict as soon as both sides have the file.           *)
ConflictIfBothExist(p, ch) ==
    IF ch.deleted THEN IF LocalChanged(p) THEN "conflict" ELSE "delete"
    ELSE IF IsFile(p) /\ RemoteChanged(p, ch) THEN "conflict" ELSE "download"

Verdict(p, ch) ==
    IF ch.deleted THEN IF LocalChanged(p) THEN "conflict" ELSE "delete"
    ELSE IF ch.folder THEN IF IsFile(p) THEN "conflict" ELSE "download"
    ELSE IF RemoteChanged(p, ch)
         THEN IF LocalChanged(p) THEN "conflict" ELSE "download"
         ELSE IF LocalChanged(p) THEN "upload" ELSE "noop"

RemoteAction(p, ch) ==
    [kind |-> Verdict(p, ch), path |-> p, id |-> ch.id, parent |-> ch.parent,
     folder |-> ch.folder, hash |-> ch.hash]

(* apply does nothing for a NoOp, so it is left out of the list.           *)
Queue(p, ch) ==
    IF Verdict(p, ch) = "noop" THEN todo ELSE Append(todo, RemoteAction(p, ch))

ClassifyChange(ch) ==
    /\ phase = "classify"
    /\ ch \in batch
    /\ Resolves(ch)
    /\ batch' = batch \ {ch}
    /\ \/ /\ PathsFor(ch) = {}
          /\ UNCHANGED todo
       \/ \E p \in PathsFor(ch) : todo' = Queue(p, ch)
    /\ UNCHANGED <<cloudVars, dbVars, folderVars, phase, got, newCursor, paused, faults,
                   ledger>>

(* A failed call, a pair without its row, or one change that does not      *)
(* resolve, ends the cycle.                                                *)
CycleFails ==
    /\ \/ phase \in {"due", "classify"} /\ Fault
       \/ phase = "due" /\ ~present /\ NoFault
       \/ phase = "classify" /\ (\E ch \in batch : ~Resolves(ch)) /\ NoFault
    /\ phase' = "idle"
    /\ batch' = {}
    /\ todo' = <<>>
    /\ newCursor' = None
    /\ UNCHANGED <<cloudVars, dbVars, folderVars, got, paused, ledger>>

CommitCursor ==
    /\ phase = "classify"
    /\ batch = {}
    /\ SetChangeCursor(newCursor)
    /\ newCursor' = None
    /\ phase' = IF todo = <<>> THEN "idle" ELSE "apply"
    /\ UNCHANGED <<cloudVars, present, row, conflicts, folderVars, batch, todo, got, paused, faults,
                   ledger>>

-----------------------------------------------------------------------------
(* apply.  Act is the action being applied.                                *)

Act == Head(todo)

Finish ==
    /\ todo' = Tail(todo)
    /\ phase' = IF Tail(todo) = <<>> THEN "idle" ELSE "apply"
    /\ got' = Nothing

(* What a write of the daemon destroys at path p.                          *)
Destroyed(p) == Mark({local[p]} \ InCloudOnce, "lost")

(* An action that comes to nothing: whose content it concerned.            *)
FromWatcher == \/ Act.kind = "update"
               \/ Act.kind = "upload" /\ Act.id = None
Unserved ==
    IF FromWatcher
    THEN Mark(IF Act.path \in events THEN {} ELSE {local[Act.path]}, "dropped")
    ELSE Mark(IF Act.kind = "upload" THEN {} ELSE {Act.hash}, "missed")

(* The original path is free for the remote version.                       *)
Cleared ==
    \/ phase = "moved"
    \/ /\ phase = "apply"
       /\ \/ Act.kind = "download"
          \/ local[Act.path] = Absent
          \/ Act.folder /\ ~IsFile(Act.path)

(* A statement that records fails without a reason, or for want of the     *)
(* pair's row.                                                             *)
DbFails == Fault \/ (~present /\ NoFault)

(* apply_conflict: rename, then record_conflict, which may fail.           *)
CanMoveAside ==
    /\ phase = "apply"
    /\ Act.kind = "conflict"
    /\ ~Cleared
    /\ CanRenameAside(Act.path, ConflictingFileName(Act.path))

MoveAside ==
    LET copy == ConflictingFileName(Act.path)
    IN  /\ CanMoveAside
        /\ RenameAside(Act.path, copy)
        /\ LET gone == Mark({k.body : k \in Named(copy)}, "clobbered")
           IN  \/ /\ RecordConflict(Act.path, copy)
                  /\ phase' = "moved"
                  /\ ledger' = ledger \cup gone
                  /\ NoFault
                  /\ UNCHANGED <<todo, got>>
               \/ /\ DbFails
                  /\ Finish
                  /\ ledger' = ledger \cup gone \cup Unserved
                  /\ UNCHANGED conflicts
        /\ UNCHANGED <<cloudVars, present, row, cursor, watching, now, batch, newCursor, paused>>

(* The folder branches of apply_download and apply_conflict.               *)
CanMakeFolder ==
    /\ Cleared
    /\ Act.kind \in {"download", "conflict"}
    /\ Act.folder
    /\ CanMakeDirs(Ancestors[Act.path] \cup {Act.path})

MakeFolder ==
    /\ CanMakeFolder
    /\ MakeDirs(Ancestors[Act.path] \cup {Act.path})
    /\ \/ RecordFileState(Act.path, Act.id, None, None,
                          IF phase = "moved" THEN "conflict" ELSE "synced")
       \/ ~present /\ UNCHANGED row
    /\ Finish
    /\ UNCHANGED <<cloudVars, present, cursor, conflicts, copies, watching, now, batch,
                   newCursor, paused, faults, ledger>>

(* create_dir_all on the parent, then download: into a temporary file ...  *)
CanFetch ==
    /\ Cleared
    /\ Act.kind \in {"download", "conflict"}
    /\ ~Act.folder
    /\ CanMakeDirs(Ancestors[Act.path])

Fetch ==
    /\ CanFetch
    /\ MakeDirs(Ancestors[Act.path])
    /\ \/ /\ Act.id \in Ids /\ LiveFile(Act.id)
          /\ got' = [id |-> Act.id, hash |-> Act.hash, body |-> cloud[Act.id].body]
          /\ phase' = "fetched"
          /\ NoFault
          /\ UNCHANGED <<todo, ledger>>
       \/ /\ \/ Fault
             \/ ~(Act.id \in Ids /\ LiveFile(Act.id)) /\ NoFault
          /\ Finish
          /\ ledger' = ledger \cup Unserved
    /\ UNCHANGED <<cloudVars, dbVars, copies, watching, now, batch, newCursor, paused>>

(* ... which is renamed over the destination.                              *)
CanInstall == phase = "fetched" /\ local[Act.path] # Dir /\ InFolders(Act.path)

Install ==
    /\ CanInstall
    /\ Put(Act.path, got.body)
    /\ phase' = "installed"
    /\ ledger' = ledger \cup Destroyed(Act.path) \cup Mark({got.body}, "fetched")
    /\ UNCHANGED <<cloudVars, dbVars, copies, watching, now, batch, todo, got,
                   newCursor, paused, faults>>

(* hash_file on whatever the path holds by now, then the row.              *)
CanRecord == phase \in {"installed", "sent"} /\ IsFile(Act.path) /\ present

Record ==
    /\ CanRecord
    /\ RecordFileState(Act.path, got.id, Hash(local[Act.path]), got.hash,
                       IF Act.kind = "conflict" THEN "conflict" ELSE "synced")
    /\ Finish
    /\ UNCHANGED <<cloudVars, present, cursor, conflicts, folderVars, batch, newCursor,
                   paused, faults, ledger>>

(* Where something new lands: the folder it is put into may itself have    *)
(* been renamed by OneDrive when it was created.                           *)
Landing ==
    IF Act.parent \in Ids /\ cloud[Act.parent].path = Elsewhere
    THEN Elsewhere ELSE Act.path

(* OneDrive keeps names unique: a clash makes it pick another name.        *)
LandingOfNew ==
    IF Provider = "onedrive" /\ LiveAt(Landing) # {} THEN Elsewhere ELSE Landing

(* The folder branch of apply_upload.                                      *)
CanCreateFolder ==
    /\ phase = "apply"
    /\ Act.kind = "upload" /\ Act.folder
    /\ local[Act.path] = Dir
    /\ Reachable(Act.parent)
    /\ FreeIds # {}

CreateFolder ==
    /\ CanCreateFolder
    /\ \E i \in FreeIds :
         /\ Store(i, TRUE, None, LandingOfNew, Act.parent)
         /\ \/ RecordSynced(Act.path, i, None, None) /\ NoFault
            \/ DbFails /\ UNCHANGED row     \* or the answer was lost
    /\ Finish
    /\ UNCHANGED <<present, cursor, conflicts, folderVars, batch, newCursor, paused, ledger>>

(* The remote items a file can be stored in, and the place it then has.    *)
(* update replaces the content of the known item.  upload creates an item, *)
(* except that OneDrive's simple PUT replaces a file of the same name; its *)
(* upload session (large files) picks a new name instead.                  *)
Targets ==
    IF Act.kind = "update"
    THEN {<<i, cloud[i].path, cloud[i].parent>> : i \in {j \in Ids : j = Act.id /\ LiveFile(j)}}
    ELSE IF ~Reachable(Act.parent) THEN {}
    ELSE (FreeIds \X {LandingOfNew} \X {Act.parent})
         \cup (IF Provider = "onedrive" /\ Landing \in Paths
               THEN {j \in LiveAt(Landing) : ~cloud[j].folder} \X {Landing}
                      \X {Act.parent}
               ELSE {})

CanSend ==
    /\ phase = "apply"
    /\ Act.kind \in {"update", "upload"}
    /\ Act.kind = "upload" => ~Act.folder
    /\ IsFile(Act.path)
    /\ Targets # {}

Send ==
    /\ CanSend
    /\ \E t \in Targets :
         LET sent == Mark({local[Act.path]}, "sent")
             gone == Mark({cloud[t[1]].body} \ KnownHere, "overwritten")
         IN  /\ Store(t[1], FALSE, local[Act.path], t[2], t[3])
             /\ \/ /\ phase' = "sent"
                   /\ got' = [id |-> t[1], hash |-> local[Act.path], body |-> None]
                   /\ ledger' = ledger \cup sent \cup gone
                   /\ NoFault
                   /\ UNCHANGED todo
                \/ /\ Fault                   \* the answer was lost
                   /\ Finish
                   /\ ledger' = ledger \cup sent \cup gone \cup Unserved
    /\ UNCHANGED <<dbVars, folderVars, batch, newCursor, paused>>

(* apply_delete_local                                                      *)
CanDeleteLocal ==
    /\ phase = "apply"
    /\ Act.kind = "delete"
    /\ local[Act.path] = Dir => Empty(Act.path)

DeleteLocal ==
    /\ CanDeleteLocal
    /\ IF local[Act.path] = Absent THEN UNCHANGED <<local, events>>
       ELSE Put(Act.path, Absent)
    /\ RemoveFileRecord(Act.path)
    /\ ledger' = ledger \cup Destroyed(Act.path)
    /\ Finish
    /\ UNCHANGED <<cloudVars, present, cursor, conflicts, copies, watching, now, batch,
                   newCursor, paused, faults>>

(* Any step of an action may fail; one that cannot go on does.  The error  *)
(* is logged, and nothing brings the action back.                          *)
Able == CanMoveAside \/ CanMakeFolder \/ CanFetch \/ CanInstall \/ CanRecord
          \/ CanCreateFolder \/ CanSend \/ CanDeleteLocal

ActionFails ==
    /\ Working
    /\ Fault \/ (~Able /\ NoFault)
    /\ Finish
    /\ ledger' = ledger \cup Unserved
    /\ UNCHANGED <<cloudVars, dbVars, folderVars, batch, newCursor, paused>>

-----------------------------------------------------------------------------
(* The surroundings.  Env names the ones a run has:                        *)
(*   "write", "mkdir", "unlink", "open"  the user in the folder            *)
(*   "create", "createdir", "awkward", "edit", "remove", "move"  clients   *)
(*   "pause", "unpair", "second"  PausePair/ResumePair, RemoveFolderPair,   *)
(*                                the clock                                *)

May(what) == what \in Env
Unused(c) == \A t \in Tags : <<c, t>> \notin ledger

(* A decided action will replace or delete what is at p, or is about to    *)
(* note in the row what p holds by then.                                   *)
AtStake(p) ==
    \/ \E k \in DOMAIN todo : todo[k].path = p /\ todo[k].kind \in {"download", "delete"}
    \/ phase \in {"moved", "fetched", "installed", "sent"} /\ Act.path = p

ByUser == UNCHANGED <<cloudVars, dbVars, copies, watching, now, engineVars, paused, faults>>

UserWrite(p, c) ==
    /\ May("write")
    /\ Unused(c)
    /\ local[p] # Dir
    /\ InFolders(p)
    /\ Put(p, c)
    /\ ledger' = ledger \cup Mark({c}, "wroteHere")
                        \cup (IF AtStake(p) THEN Mark({c}, "racy") ELSE {})
                        \cup (IF watching THEN {} ELSE Mark({c}, "blind"))
                        \cup (IF paused THEN Mark({c}, "paused") ELSE {})
    /\ ByUser

UserMakeDir(p) ==
    /\ May("mkdir")
    /\ Below(p) # {}
    /\ local[p] = Absent
    /\ InFolders(p)
    /\ Put(p, Dir)
    /\ UNCHANGED ledger
    /\ ByUser

UserRemove(p) ==
    /\ May("unlink")
    /\ local[p] # Absent
    /\ Empty(p)
    /\ Put(p, Absent)
    /\ UNCHANGED ledger
    /\ ByUser

(* The watcher also reports that a file was opened or its attributes set.  *)
FileTouched(p) ==
    /\ May("open")
    /\ local[p] # Absent
    /\ watching
    /\ p \notin events
    /\ Notify({p})
    /\ UNCHANGED <<local, ledger>>
    /\ ByUser

ByClient ==
    /\ clock < MaxClock
    /\ UNCHANGED <<dbVars, folderVars, engineVars, paused, faults>>

NameFree(p) == Provider = "gdrive" \/ p \notin Paths \/ LiveAt(p) = {}

RemoteCreate(i, p, c) ==
    /\ May("create")
    /\ i \in FreeIds
    /\ Unused(c)
    /\ NameFree(p)
    /\ \E h \in HoldersFor(p) : Store(i, FALSE, c, p, h)
    /\ ledger' = ledger \cup Mark({c}, "wroteThere")
    /\ ByClient

(* A name with a slash in it, anywhere in the drive.                       *)
RemoteCreateAwkward(i, c) ==
    /\ May("awkward")
    /\ i \in FreeIds
    /\ Unused(c)
    /\ Store(i, FALSE, c, Awkward, None)
    /\ ledger' = ledger \cup Mark({c}, "wroteThere")
    /\ ByClient

RemoteCreateFolder(i, p) ==
    /\ May("createdir")
    /\ i \in FreeIds
    /\ Below(p) # {}
    /\ NameFree(p)
    /\ \E h \in HoldersFor(p) : Store(i, TRUE, None, p, h)
    /\ UNCHANGED ledger
    /\ ByClient

RemoteEdit(i, c) ==
    /\ May("edit")
    /\ LiveFile(i)
    /\ Unused(c)
    /\ Store(i, FALSE, c, cloud[i].path, cloud[i].parent)
    /\ ledger' = ledger \cup Mark({c}, "wroteThere")
    /\ ByClient

RemoteDelete(i) ==
    /\ May("remove")
    /\ Drop(i)
    /\ UNCHANGED ledger
    /\ ByClient

RemoteMove(i, p) ==
    /\ May("move")
    /\ LiveFile(i)
    /\ p # cloud[i].path
    /\ NameFree(p)
    /\ \E h \in HoldersFor(p) : Store(i, FALSE, cloud[i].body, p, h)
    /\ UNCHANGED ledger
    /\ ByClient

SetPaused ==
    /\ May("pause")
    /\ present
    /\ paused' = ~paused
    /\ UNCHANGED <<cloudVars, dbVars, folderVars, engineVars, faults, ledger>>

(* Whatever the engine is doing meanwhile: a cycle runs without the lock.  *)
RemovePair ==
    /\ May("unpair")
    /\ present
    /\ RemovePairRow
    /\ UNCHANGED <<cloudVars, folderVars, engineVars, paused, faults, ledger>>

NextSecond ==
    /\ May("second")
    /\ now < MaxSecond
    /\ now' = now + 1
    /\ UNCHANGED <<cloudVars, dbVars, local, copies, events, watching, engineVars,
                   paused, faults, ledger>>
-----------------------------------------------------------------------------
LocalEvents == \E p \in Paths : IgnoreEvent(p) \/ LoseEvent(p) \/ TakeEvent(p)

RunCycle == List \/ (\E ch \in batch : ClassifyChange(ch)) \/ CycleFails \/ CommitCursor

Apply == \/ MoveAside \/ MakeFolder \/ Fetch \/ Install \/ Record
         \/ CreateFolder \/ Send \/ DeleteLocal \/ ActionFails

Daemon == RefreshWatchers \/ LocalEvents \/ BeginPoll \/ RunCycle \/ Apply

User == \/ \E p \in Paths, c \in Content : UserWrite(p, c)
        \/ \E p \in Paths : UserMakeDir(p) \/ UserRemove(p) \/ FileTouched(p)
        \/ SetPaused \/ RemovePair

Clients == \/ \E i \in Ids, c \in Content :
                \/ \E p \in Paths : RemoteCreate(i, p, c)
                \/ RemoteCreateAwkward(i, c)
           \/ \E i \in Ids, p \in Paths : RemoteCreateFolder(i, p)
           \/ \E i \in Ids, c \in Content : RemoteEdit(i, c)
           \/ \E i \in Ids : RemoteDelete(i)
           \/ \E i \in Ids, p \in Paths \cup {Elsewhere} : RemoteMove(i, p)

Next == Daemon \/ User \/ Clients \/ NextSecond

Spec == Init /\ [][Next]_vars

=============================================================================
