--------------------------- MODULE SyncInvariant ---------------------------
(***************************************************************************)
(* Why EditsOutsideWindowSurvive holds: a strengthening that every step    *)
(* preserves.  Its heart is that the row's local hash, which is all that   *)
(* classify compares a file with, is always the digest of something the    *)
(* cloud has had or of an edit that fell into an action's window.          *)
(***************************************************************************)
EXTENDS SyncProperties

(* A content whose destruction here is excused.                            *)
Covered == InCloudOnce \cup Tagged("racy")

Safe(p) == IsFile(p) => local[p] \in Covered

(* The head of todo is there whenever a step reads it.                     *)
TaskInv ==
    /\ Working => todo # <<>>
    /\ phase \in {"idle", "due"} => todo = <<>>

(* What is downloaded is a file's content.                                 *)
ContentInv ==
    /\ \A i \in Ids : LiveFile(i) => cloud[i].body \in Content
    /\ phase = "fetched" => got.body \in Content

(* Type correctness is inductive together with the last two.               *)
TypeInv == TypeOK /\ TaskInv /\ ContentInv

CloudCovered == \A i \in Ids : cloud[i].body \in InCloudOnce \cup {None}

(* What classify and local_action take for the synced state.               *)
RowsCovered == \A p \in Paths : row[p].lhash \in Covered \cup {None}

(* A decision to overwrite or to delete, made or still queued.             *)
DecisionsSafe ==
    \A k \in DOMAIN todo :
        todo[k].kind \in {"download", "delete"} => Safe(todo[k].path)

(* The same for the action under way, whatever it was decided to be.       *)
StepSafe ==
    /\ phase \in {"moved", "fetched", "installed", "sent"} => Safe(Act.path)
    /\ phase = "fetched" => got.body \in InCloudOnce

(* The inductive invariant behind EditsOutsideWindowSurvive: files that an *)
(* action decided by run_cycle may destroy are known to the cloud or were  *)
(* saved after the decision.                                               *)
SurvivalInv ==
    /\ TypeInv
    /\ CloudCovered
    /\ RowsCovered
    /\ DecisionsSafe
    /\ StepSafe
    /\ EditsOutsideWindowSurvive

-----------------------------------------------------------------------------
(* Why EveryLocalEditAccounted holds: the origin of a content is settled   *)
(* when it is first stored, and a file nothing is about to send came from  *)
(* elsewhere or was let go.                                                *)

OriginsApart == Tagged("wroteHere") \cap Tagged("wroteThere") = {}

Served == Tagged("wroteThere") \cup Tagged("sent") \cup Tagged("racy")
            \cup Tagged("blind") \cup Tagged("dropped")

FilesServed == \A p \in Paths : IsFile(p) => UploadComing(p) \/ local[p] \in Served

LocalInv == OriginsApart /\ FilesServed

-----------------------------------------------------------------------------
(* Why EveryRemoteEditAccounted holds.  The change feed is read up to a    *)
(* position: the one of the listing that is being classified, otherwise    *)
(* the cursor.  What lies behind it has been reported, is in the batch, or *)
(* is carried by a decided action.                                         *)

Reported == KnownHere \cup Tagged("missed") \cup Tagged("skipped")

Heard == IF phase = "classify" THEN newCursor ELSE cursor
Unheard(i, position) == position = None \/ cloud[i].rev > position

CursorInv ==
    /\ cursor # None => cursor <= clock
    /\ phase = "classify" => newCursor \in Nat /\ newCursor <= clock
    /\ ~present => cursor = None

FilesKnown == \A p \in Paths : IsFile(p) => local[p] \in KnownHere

(* No item but i, if any, holds content c, unless c has been reported: so  *)
(* a digest taken from an earlier version of i vouches for nothing else.   *)
HeldOnlyBy(c, i) ==
    c \in Content =>
        /\ c \in InCloudOnce
        /\ c \in Reported \/ \A j \in Ids : Live(j) /\ cloud[j].body = c => j = i

BodiesApart == \A i \in Ids : cloud[i].state # "gone" => HeldOnlyBy(cloud[i].body, i)

(* RemoteChanged compares with this: equal means seen.                     *)
RowsKnown == \A p \in Paths : HeldOnlyBy(row[p].rhash, None)

Brings(a) == a.kind \in {"download", "conflict"}

DecisionsTraced ==
    /\ \A ch \in batch : HeldOnlyBy(ch.hash, ch.id)
    /\ \A k \in DOMAIN todo : Brings(todo[k]) => HeldOnlyBy(todo[k].hash, todo[k].id)

(* A download fetches the item as it is by then; what the row will say of  *)
(* it is the digest that was listed.                                       *)
TransferTraced ==
    /\ phase \in {"moved", "fetched", "installed"} => Brings(Act)
    /\ phase = "sent" => ~Brings(Act)
    /\ phase \in {"fetched", "installed"} =>
         /\ Act.id \in Ids
         /\ got.hash = got.body \/ HeldOnlyBy(got.hash, None)
         /\ LiveFile(Act.id) => Unheard(Act.id, cursor) \/ cloud[Act.id].body = got.body
    /\ phase = "installed" => got.body \in Tagged("fetched")
    /\ phase \in {"installed", "sent"} => HeldOnlyBy(got.hash, None)

Carried(i) ==
    \E k \in DOMAIN todo :
        Brings(todo[k]) /\ ~todo[k].folder /\ todo[k].id = i /\ todo[k].hash = cloud[i].body

InFolder(i) == LiveFile(i) /\ cloud[i].path \in Paths

(* Read up to Heard, and meanwhile still accounted for by the old cursor.  *)
ItemsAccounted ==
    \A i \in Ids : InFolder(i) =>
        \/ Unheard(i, Heard)
        \/ cloud[i].body \in Reported
        \/ Carried(i)
        \/ phase = "classify" /\ ChangeOf(i) \in batch

CycleMayFail ==
    phase = "classify" =>
        \A i \in Ids : InFolder(i) => Unheard(i, cursor) \/ cloud[i].body \in Reported

RemoteInv ==
    /\ CursorInv
    /\ FilesKnown
    /\ BodiesApart
    /\ RowsKnown
    /\ DecisionsTraced
    /\ TransferTraced
    /\ ItemsAccounted
    /\ CycleMayFail

(* The inductive invariant behind the two accounts of edits.               *)
AccountInv == SurvivalInv /\ LocalInv /\ RemoteInv

-----------------------------------------------------------------------------
(* Why NoEcho and CopiesHoldUnsentEdits hold.  A content the cloud has had *)
(* is in the folder only where the row says so; a file the cloud never had *)
(* is in one place; and no two decided actions that bring or send a file   *)
(* are about one path where names are unique.                              *)

NamesUnique ==
    Provider = "onedrive" =>
        \A i, j \in Ids :
            Live(i) /\ Live(j) /\ cloud[i].path = cloud[j].path /\ cloud[i].path \in Paths
              => i = j

FreeBlank == \A i \in FreeIds : cloud[i].path = Elsewhere /\ ~cloud[i].folder

Reports(ch) == ~ch.deleted /\ ~ch.folder /\ ch.path \in Paths

ByWatcher(a) == a.kind = "update" \/ (a.kind = "upload" /\ a.id = None)
Sends(a) == a.kind \in {"upload", "update"}
Claims(a) == Sends(a) \/ (Brings(a) /\ ~a.folder /\ a.hash # None)

(* What was listed as deleted or as a folder is so for good.               *)
BatchTrue ==
    \A ch \in batch :
        /\ phase = "classify"
        /\ ch.deleted => ch.hash = None /\ cloud[ch.id].state = "gone"
        /\ ch.folder => cloud[ch.id].folder
        /\ Reports(ch) => ch.hash # None

Bodiless(a) ==
    /\ a.id \in Ids
    /\ IF a.folder THEN cloud[a.id].folder ELSE cloud[a.id].state = "gone"

TodoTrue ==
    \A k \in DOMAIN todo : Brings(todo[k]) => Claims(todo[k]) \/ Bodiless(todo[k])

(* A local event is served on its own.                                     *)
WatcherAlone ==
    \A k \in DOMAIN todo :
        ByWatcher(todo[k]) => Len(todo) = 1 /\ phase \in {"apply", "sent"}

ClaimsApart ==
    Provider = "onedrive" =>
        /\ \A a, b \in batch : Reports(a) /\ Reports(b) /\ a.path = b.path => a = b
        /\ \A a \in batch, k \in DOMAIN todo :
             Reports(a) /\ Claims(todo[k]) => todo[k].path # a.path
        /\ \A j, k \in DOMAIN todo :
             Claims(todo[j]) /\ Claims(todo[k]) /\ todo[j].path = todo[k].path => j = k

GotTrue ==
    /\ phase \in {"fetched", "installed", "sent"} => got.id # None
    /\ phase = "fetched" => Claims(Act)

DecisionsTrue ==
    /\ NamesUnique /\ FreeBlank
    /\ BatchTrue /\ TodoTrue /\ WatcherAlone /\ ClaimsApart /\ GotTrue

(* What the cloud never had is the user's, and in one place.               *)
Unsent(c) == c \in Content /\ c \notin InCloudOnce

UnsentOnce ==
    /\ \A p \in Paths : Unsent(local[p]) =>
         /\ local[p] \in Tagged("wroteHere")
         /\ \A q \in Paths : local[q] = local[p] => q = p
    /\ \A k \in copies : Unsent(k.body) =>
         /\ k.body \in Tagged("wroteHere")
         /\ \A p \in Paths : local[p] # k.body

Fresh(p) == local[p] \notin InCloudOnce

RowsCurrent ==
    \A p \in Paths :
        \/ Fresh(p)
        \/ row[p].id # None /\ row[p].lhash = local[p]
        \/ phase \in {"installed", "sent"} /\ Act.path = p

SendsFresh ==
    \A k \in DOMAIN todo :
        /\ Sends(todo[k])
        /\ Provider = "onedrive" \/ ByWatcher(todo[k])
        /\ k = 1 => phase # "sent"
        => Fresh(todo[k].path)

CopiesFresh ==
    /\ \A k \in DOMAIN todo :
         /\ todo[k].kind = "conflict"
         /\ k = 1 => phase \notin {"moved", "fetched", "installed"}
         => Fresh(todo[k].path)
    /\ \A k \in copies : k.body \notin InCloudOnce

EchoInv ==
    /\ AccountInv
    /\ DecisionsTrue
    /\ UnsentOnce
    /\ Unharmed => RowsCurrent /\ SendsFresh
    /\ Provider = "onedrive" /\ Unharmed /\ FilesOnly => CopiesFresh

-----------------------------------------------------------------------------
(* Why QuietRowsInSync holds.  Where an item is at the place its row is    *)
(* about, the row knows its latest version, or the item is still to be     *)
(* heard of; and a row that knows the remote version is right about the    *)
(* local one.                                                              *)

RevsPast ==
    \A i \in Ids : /\ cloud[i].rev <= clock
                   /\ cloud[i].state = "free" <=> cloud[i].rev = 0

Taken(i) == i \in Ids => i \notin FreeIds

IdsTaken ==
    /\ \A p \in Paths : Taken(row[p].id)
    /\ \A ch \in batch : Taken(ch.id)
    /\ \A k \in DOMAIN todo : Taken(todo[k].id)
    /\ phase \in {"fetched", "installed", "sent"} => Taken(got.id)

(* An item is how it was listed, or has changed since.                     *)
AsListed(i, hash, path) ==
    LiveFile(i) => Unheard(i, Heard) \/ (cloud[i].body = hash /\ cloud[i].path = path)

DecisionsHeard ==
    /\ \A ch \in batch : AsListed(ch.id, ch.hash, ch.path)
    /\ \A k \in DOMAIN todo :
         /\ Brings(todo[k]) =>
              todo[k].id \in Ids /\ AsListed(todo[k].id, todo[k].hash, todo[k].path)
         /\ todo[k].kind = "delete" => todo[k].id \in Ids /\ cloud[todo[k].id].state = "gone"

(* What was fetched is the version that was listed, or a later one.        *)
TransferHeard ==
    /\ phase \in {"fetched", "installed"} =>
         /\ got.id = Act.id /\ got.hash = Act.hash
         /\ LiveFile(Act.id) /\ cloud[Act.id].body = got.hash => got.body = got.hash
    /\ phase = "sent" => got.id \in Ids /\ Unheard(got.id, cursor)
    /\ phase = "installed" /\ IsFile(Act.path) =>
         local[Act.path] = got.body \/ local[Act.path] \in Tagged("racy")
    /\ phase = "sent" /\ IsFile(Act.path) =>
         local[Act.path] = got.hash \/ local[Act.path] \in Tagged("racy")

(* The item of the row is a file where the row is.                         *)
InPlace(p) ==
    row[p].id \in Ids /\ LiveFile(row[p].id) /\ cloud[row[p].id].path = p

Recorded(p) ==
    \/ cloud[row[p].id].body = row[p].rhash
    \/ \E tag \in {"missed", "skipped"} : cloud[row[p].id].body \in Tagged(tag)

RowsHeard ==
    \A p \in Paths : InPlace(p) =>
        \/ Unheard(row[p].id, Heard)
        \/ Recorded(p)
        \/ Carried(row[p].id)
        \/ phase = "classify" /\ ChangeOf(row[p].id) \in batch

RowsMayFail ==
    phase = "classify" =>
        \A p \in Paths : InPlace(p) => Unheard(row[p].id, cursor) \/ Recorded(p)

RowsTrue ==
    \A p \in Paths :
        LET i == row[p].id
        IN  i \in Ids /\ LiveFile(i) /\ cloud[i].body = row[p].rhash =>
              row[p].lhash = row[p].rhash \/ row[p].lhash \in Tagged("racy")

(* A file that was put aside is replaced.                                  *)
FilesStay ==
    \A p \in Paths :
        /\ local[p] # Dir
        /\ row[p].id # None => IsFile(p) \/ (phase \in {"moved", "fetched"} /\ Act.path = p)

QuietInv ==
    /\ EchoInv
    /\ RevsPast /\ IdsTaken
    /\ DecisionsHeard /\ TransferHeard /\ RowsHeard /\ RowsMayFail
    /\ Unharmed => RowsTrue
    /\ Unharmed /\ Plain /\ ~May("unlink") => FilesStay
=============================================================================
