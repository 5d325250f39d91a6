------------------------------- MODULE Cloud -------------------------------
(***************************************************************************)
(* The cloud drive as the engine sees it through the CloudProvider trait.  *)
(* The service itself is not part of the repository: it is modelled from   *)
(* what the two adapters ask of it.  An item keeps the position (rev) of   *)
(* its latest change; a cursor (Drive page token, Graph delta link) is a   *)
(* position too, and list_changes answers with the present state of every  *)
(* item changed after it.                                                  *)
(***************************************************************************)
EXTENDS SyncTypes

VARIABLES
    cloud,  \* cloud[i]: the remote item with id i
    clock   \* position of the latest change of the drive

cloudVars == <<cloud, clock>>

Place == Paths \cup {Elsewhere, Awkward}
Holder == Ids \cup {Root, None}

Item == [state : {"free", "live", "gone"}, folder : BOOLEAN,
         body : Content \cup {None}, path : Place, parent : Holder, rev : Nat]

(* What list_changes reports of one item (RemoteChange and RemoteFile).    *)
Change == [id : Ids, deleted : BOOLEAN, folder : BOOLEAN,
           hash : Content \cup {None}, path : Place, parent : Holder]

CloudTypeOK ==
    /\ cloud \in [Ids -> Item]
    /\ clock \in Nat

CloudInit ==
    /\ cloud = [i \in Ids |-> [state |-> "free", folder |-> FALSE, body |-> None,
                               path |-> Elsewhere, parent |-> None, rev |-> 0]]
    /\ clock = 0

FreeIds == {i \in Ids : cloud[i].state = "free"}
Live(i) == cloud[i].state = "live"
LiveAt(p) == {i \in Ids : Live(i) /\ cloud[i].path = p}
LiveFile(i) == Live(i) /\ ~cloud[i].folder

(* The remote folders an item may be put in to sit at path p.              *)
HoldersFor(p) ==
    IF p \notin Paths THEN {None}
    ELSE IF Ancestors[p] = {} THEN {Root}
    ELSE {i \in LiveAt(ParentOf(p)) : cloud[i].folder}

(* get_metadata(h) answers with a folder.  A live folder sits in live      *)
(* folders, so every later step of a walk to the root succeeds as well.    *)
Reachable(h) == h \in Ids => Live(h) /\ cloud[h].folder

-----------------------------------------------------------------------------
(* Effects the service can have, used by the engine and by other clients.  *)

Store(i, folder, body, path, parent) ==
    /\ clock' = clock + 1
    /\ cloud' = [cloud EXCEPT ![i] =
                   [state |-> "live", folder |-> folder, body |-> body,
                    path |-> path, parent |-> parent, rev |-> clock + 1]]

(* A folder is emptied before it is deleted; deleting a full one makes the *)
(* service report the same items deleted, in one go.                       *)
Drop(i) ==
    /\ Live(i)
    /\ \A j \in Ids : Live(j) => cloud[j].parent # i
    /\ clock' = clock + 1
    /\ cloud' = [cloud EXCEPT ![i].state = "gone", ![i].rev = clock + 1]

-----------------------------------------------------------------------------
(* list_changes.  A removed Drive entry carries only the id; a deleted     *)
(* Graph item keeps its facets and its parent reference.                   *)

ChangeOf(i) ==
    LET gone == cloud[i].state = "gone"
        bare == gone /\ Provider = "gdrive"
    IN  [id      |-> i,
         deleted |-> gone,
         folder  |-> cloud[i].folder /\ ~bare,
         hash    |-> IF gone THEN None ELSE cloud[i].body,
         path    |-> IF bare THEN Elsewhere ELSE cloud[i].path,
         parent  |-> IF bare THEN None ELSE cloud[i].parent]

(* Where the listing starts.  Without a cursor Drive asks for the start    *)
(* page token, the position of now; Graph enumerates the whole drive.      *)
Since(cursor) ==
    IF cursor # None THEN cursor
    ELSE IF Provider = "gdrive" THEN clock ELSE 0

ListChanges(cursor) ==
    {ChangeOf(i) : i \in {j \in Ids : cloud[j].rev > Since(cursor)}}

=============================================================================
