------------------------- MODULE SyncSurvivalProofs -------------------------
(***************************************************************************)
(* The state of one folder pair is well typed, and the daemon destroys no  *)
(* local edit outside the window of a decided action, for every set of     *)
(* paths, ids and contents, either provider, any surroundings and any      *)
(* bounds: SurvivalInv is inductive.                                       *)
(***************************************************************************)
EXTENDS SyncInvariant, TLAPS

-----------------------------------------------------------------------------
(* The operators the steps are built from.                                 *)

(* The history only ever speaks of contents.                               *)
LEMMA MarkType ==
  ASSUME NEW cs, NEW tag \in Tags
  PROVE  Mark(cs, tag) \in SUBSET (Content \X Tags)
  BY DEF Mark

(* hash_file answers with a digest or with nothing.                        *)
LEMMA HashType ==
  ASSUME NEW b
  PROVE  Hash(b) \in Content \cup {None}
  BY DEF Hash

(* A change stored in the cloud keeps its items well typed, and a file     *)
(* that has a content keeps having one.                                    *)
LEMMA StoreType ==
  ASSUME CloudTypeOK, NEW i \in Ids, NEW folder \in BOOLEAN,
         NEW body \in Content \cup {None}, NEW path \in Place, NEW parent \in Holder,
         Store(i, folder, body, path, parent)
  PROVE  CloudTypeOK'
  BY DEF CloudTypeOK, Store, Item

(* An item that is marked deleted is still an item.                        *)
LEMMA GoneType ==
  ASSUME NEW x \in Item, NEW n \in Nat
  PROVE  [x EXCEPT !.state = "gone", !.rev = n] \in Item
  BY DEF Item

(* So does a deletion in the cloud: the item is gone and otherwise as it was. *)
LEMMA DropType ==
  ASSUME CloudTypeOK, NEW i \in Ids, Drop(i)
  PROVE  CloudTypeOK'
  <1>1. cloud[i] \in Item /\ clock + 1 \in Nat
    BY DEF CloudTypeOK
  <1>2. [cloud[i] EXCEPT !.state = "gone", !.rev = clock + 1] \in Item
    BY <1>1, GoneType, Zenon
  <1>3. cloud' = [cloud EXCEPT ![i] = [cloud[i] EXCEPT !.state = "gone", !.rev = clock + 1]]
    BY Zenon DEF Drop
  <1> QED
    BY <1>1, <1>2, <1>3 DEF CloudTypeOK, Drop

(* list_changes reports well-typed changes, wherever it starts.            *)
LEMMA ListChangesType ==
  ASSUME CloudTypeOK, NEW c
  PROVE  ListChanges(c) \in SUBSET Change
  <1> SUFFICES ASSUME NEW i \in Ids PROVE ChangeOf(i) \in Change
    BY DEF ListChanges
  <1>1. cloud[i] \in Item
    BY DEF CloudTypeOK
  <1> QED
    BY <1>1 DEF ChangeOf, Change, Item, Holder, Place

(* record_file_state writes a well-typed row.                              *)
LEMMA FileStateType ==
  ASSUME DbTypeOK, NEW p \in Paths, NEW id \in Ids \cup {None},
         NEW lhash \in Content \cup {None}, NEW rhash \in Content \cup {None},
         NEW status \in Status, RecordFileState(p, id, lhash, rhash, status)
  PROVE  row' \in [Paths -> Row]
  BY DEF DbTypeOK, RecordFileState, Row

(* create_dir_all leaves a folder tree of the same shape.                  *)
LEMMA MakeDirsType ==
  ASSUME FolderTypeOK, NEW ps \in SUBSET Paths, MakeDirs(ps), UNCHANGED <<copies, watching, now>>
  PROVE  FolderTypeOK'
  BY DEF FolderTypeOK, MakeDirs, Notify

(* local_action asks the folder's row for the parent's remote id.          *)
LEMMA ParentIdType ==
  ASSUME DbTypeOK, NEW p \in Paths
  PROVE  ParentId(p) \in Holder
  <1>1. CASE Ancestors[p] = {}
    BY <1>1 DEF ParentId, Holder
  <1>2. CASE Ancestors[p] # {}
    <2>1. ParentOf(p) \in Ancestors[p] /\ Ancestors[p] \subseteq Paths
      BY <1>2, SyncAssumption DEF ParentOf
    <2> QED
      BY <1>2, <2>1 DEF ParentId, RemoteIdForRelativePath, DbTypeOK, Row, Holder
  <1> QED
    BY <1>1, <1>2

(* What is applied is one of the decided actions.                          *)
LEMMA ActType ==
  ASSUME todo \in Seq(Action), todo # <<>>
  PROVE  Act \in Action /\ Tail(todo) \in Seq(Action)
  BY DEF Act

(* The end of an action leaves the rest of the list, or an idle task.      *)
LEMMA FinishType ==
  ASSUME EngineTypeOK, todo # <<>>, Finish
  PROVE  /\ todo' \in Seq(Action) /\ phase' \in Phases /\ got' \in Got
         /\ TaskInv' /\ phase' # "fetched"
  <1>1. todo' \in Seq(Action)
    BY ActType DEF EngineTypeOK, Finish
  <1>2. got' \in Got
    BY DEF Finish, Nothing, Got
  <1> QED
    BY <1>1, <1>2 DEF Finish, Phases, TaskInv, Working

(* The marks an action that fails leaves.                                  *)
LEMMA UnservedType == Unserved \in SUBSET (Content \X Tags)
  BY MarkType DEF Unserved, Tags

(* The marks a write or a removal of the daemon leaves.                    *)
LEMMA DestroyedType ==
  ASSUME NEW p PROVE Destroyed(p) \in SUBSET (Content \X Tags)
  BY MarkType DEF Destroyed, Tags

(* A step that leaves a component alone leaves it well typed.              *)
LEMMA Frames ==
  /\ CloudTypeOK /\ UNCHANGED cloudVars => CloudTypeOK'
  /\ DbTypeOK /\ UNCHANGED dbVars => DbTypeOK'
  /\ FolderTypeOK /\ UNCHANGED folderVars => FolderTypeOK'
  /\ EngineTypeOK /\ UNCHANGED engineVars => EngineTypeOK'
  /\ ContentInv /\ UNCHANGED <<cloud, phase, got>> => ContentInv'
  /\ ContentInv /\ UNCHANGED cloud /\ phase' # "fetched" => ContentInv'
  BY DEF CloudTypeOK, cloudVars, DbTypeOK, dbVars, FolderTypeOK, folderVars,
         EngineTypeOK, engineVars, ContentInv, LiveFile, Live
-----------------------------------------------------------------------------
(* Type correctness.                                                       *)

(* The daemon starts with an empty database and nothing under way.         *)
LEMMA InitTypeInv == Init => TypeInv
  <1> SUFFICES ASSUME Init PROVE TypeInv
    OBVIOUS
  <1>1. CloudTypeOK
    BY DEF Init, CloudInit, CloudTypeOK, Item, Place, Holder
  <1>2. DbTypeOK
    BY DEF Init, DbInit, DbTypeOK, Row, NoRow, Status
  <1>3. FolderTypeOK
    BY DEF Init, FolderInit, FolderTypeOK
  <1>4. EngineTypeOK
    BY DEF Init, EngineTypeOK, Phases, Got, Nothing
  <1>5. TaskInv
    BY DEF Init, TaskInv, Working
  <1>6. ContentInv
    BY DEF Init, ContentInv, CloudInit, LiveFile, Live
  <1> QED
    BY <1>1, <1>2, <1>3, <1>4, <1>5, <1>6 DEF Init, TypeInv, TypeOK


(* Every step of the daemon, of the user and of the other clients keeps    *)
(* the state well typed, the action under way at the head of the list, and *)
(* a body in every file.                                                   *)
LEMMA NextTypeInv == TypeInv /\ [Next]_vars => TypeInv'
  <1> DEFINE Rest == /\ paused \in BOOLEAN
                     /\ faults \in Nat
                     /\ ledger \in SUBSET (Content \X Tags)
  <1> SUFFICES ASSUME CloudTypeOK, DbTypeOK, FolderTypeOK, EngineTypeOK, Rest,
                      TaskInv, ContentInv, [Next]_vars
               PROVE  TypeInv'
    BY DEF TypeInv, TypeOK
  <1> USE DEF cloudVars, dbVars, folderVars, engineVars
  <1>1. CASE RefreshWatchers
    <2>1. CloudTypeOK' /\ DbTypeOK' /\ EngineTypeOK' /\ TaskInv' /\ ContentInv'
      BY <1>1, Frames DEF RefreshWatchers, TaskInv, Working
    <2>2. FolderTypeOK'
      <3>1. Due \in BOOLEAN
        BY DEF Due
      <3> QED
        BY <1>1, <3>1 DEF RefreshWatchers, FolderTypeOK
    <2>3. Rest'
      BY <1>1, MarkType DEF RefreshWatchers, Tags
    <2> QED
      BY <2>1, <2>2, <2>3 DEF TypeInv, TypeOK
  <1>2. ASSUME NEW p \in Paths, IgnoreEvent(p) PROVE TypeInv'
    <2>1. CloudTypeOK' /\ DbTypeOK' /\ EngineTypeOK' /\ TaskInv' /\ ContentInv' /\ Rest'
      BY <1>2, Frames DEF IgnoreEvent, Deliver, TaskInv, Working
    <2>2. FolderTypeOK'
      BY <1>2 DEF IgnoreEvent, Deliver, FolderTypeOK
    <2> QED
      BY <2>1, <2>2 DEF TypeInv, TypeOK
  <1>3. ASSUME NEW p \in Paths, LoseEvent(p) PROVE TypeInv'
    <2>1. CloudTypeOK' /\ DbTypeOK' /\ EngineTypeOK' /\ TaskInv' /\ ContentInv'
      BY <1>3, Frames DEF LoseEvent, Deliver, TaskInv, Working
    <2>2. FolderTypeOK'
      BY <1>3 DEF LoseEvent, Deliver, FolderTypeOK
    <2>3. Rest'
      BY <1>3, MarkType DEF LoseEvent, Deliver, Fault, NoFault, Tags
    <2> QED
      BY <2>1, <2>2, <2>3 DEF TypeInv, TypeOK
  <1>4. ASSUME NEW p \in Paths, TakeEvent(p) PROVE TypeInv'
    <2>1. CloudTypeOK' /\ DbTypeOK' /\ Rest'
      BY <1>4, Frames DEF TakeEvent, Deliver
    <2>2. FolderTypeOK'
      BY <1>4 DEF TakeEvent, Deliver, FolderTypeOK
    <2>3. LocalAction(p) \in Action
      BY ParentIdType DEF LocalAction, Action, DbTypeOK, Row
    <2>4. EngineTypeOK' /\ TaskInv' /\ ContentInv'
      BY <1>4, <2>3, Frames
      DEF TakeEvent, Deliver, EngineTypeOK, Phases, TaskInv, Working
    <2> QED
      BY <2>1, <2>2, <2>4 DEF TypeInv, TypeOK
  <1>5. CASE BeginPoll
    <2>1. CloudTypeOK' /\ DbTypeOK' /\ FolderTypeOK' /\ ContentInv' /\ Rest'
      BY <1>5, Frames DEF BeginPoll
    <2>2. EngineTypeOK' /\ TaskInv'
      BY <1>5 DEF BeginPoll, Idle, EngineTypeOK, Phases, TaskInv, Working
    <2> QED
      BY <2>1, <2>2 DEF TypeInv, TypeOK
  <1>6. CASE List
    <2>1. CloudTypeOK' /\ DbTypeOK' /\ FolderTypeOK' /\ ContentInv'
      BY <1>6, Frames DEF List
    <2>2. EngineTypeOK' /\ TaskInv'
      BY <1>6, ListChangesType
      DEF List, EngineTypeOK, Phases, TaskInv, Working, CloudTypeOK
    <2>3. Rest'
      BY <1>6, MarkType DEF List, Tags
    <2> QED
      BY <2>1, <2>2, <2>3 DEF TypeInv, TypeOK
  <1>7. ASSUME NEW ch \in batch, ClassifyChange(ch) PROVE TypeInv'
    <2>1. CloudTypeOK' /\ DbTypeOK' /\ FolderTypeOK' /\ ContentInv' /\ Rest'
      BY <1>7, Frames DEF ClassifyChange
    <2>2. \A p \in Paths : Verdict(p, ch) # "noop" => RemoteAction(p, ch) \in Action
      BY <1>7 DEF EngineTypeOK, Change, RemoteAction, Action, Verdict
    <2>3. PathsFor(ch) \subseteq Paths
      BY DEF PathsFor, RelativePathsForRemoteId
    <2>4. todo' \in Seq(Action)
      BY <1>7, <2>2, <2>3 DEF ClassifyChange, Queue, EngineTypeOK
    <2>5. EngineTypeOK' /\ TaskInv'
      BY <1>7, <2>4 DEF ClassifyChange, EngineTypeOK, TaskInv, Working
    <2> QED
      BY <2>1, <2>5 DEF TypeInv, TypeOK
  <1>8. CASE CycleFails
    <2>1. CloudTypeOK' /\ DbTypeOK' /\ FolderTypeOK' /\ ContentInv'
      BY <1>8, Frames DEF CycleFails
    <2>2. EngineTypeOK' /\ TaskInv' /\ Rest'
      BY <1>8
      DEF CycleFails, EngineTypeOK, Phases, TaskInv, Working, Fault, NoFault
    <2> QED
      BY <2>1, <2>2 DEF TypeInv, TypeOK
  <1>9. CASE CommitCursor
    <2>1. CloudTypeOK' /\ FolderTypeOK' /\ ContentInv' /\ Rest'
      BY <1>9, Frames DEF CommitCursor
    <2>2. DbTypeOK'
      BY <1>9 DEF CommitCursor, SetChangeCursor, DbTypeOK, EngineTypeOK
    <2>3. EngineTypeOK' /\ TaskInv'
      BY <1>9 DEF CommitCursor, EngineTypeOK, Phases, TaskInv, Working
    <2> QED
      BY <2>1, <2>2, <2>3 DEF TypeInv, TypeOK
  <1>10. CASE MoveAside
    <2> DEFINE copy == ConflictingFileName(Act.path)
    <2>1. /\ todo # <<>> /\ Act \in Action /\ Tail(todo) \in Seq(Action)
          /\ phase = "apply" /\ local[Act.path] # Absent /\ RenameAside(Act.path, copy)
      BY <1>10, ActType
      DEF MoveAside, CanMoveAside, CanRenameAside, TaskInv, Working, EngineTypeOK
    <2>2. CloudTypeOK'
      BY <1>10, Frames DEF MoveAside
    <2>3. copy \in CopyName /\ copy[1] = Act.path /\ copy[2] = now /\ now \in Nat
      BY <2>1 DEF ConflictingFileName, CopyName, Action, FolderTypeOK
    <2>4. DbTypeOK'
      <3>1. RecordConflict(Act.path, copy) \/ UNCHANGED conflicts
        BY <1>10 DEF MoveAside
      <3>2. UNCHANGED <<present, row, cursor>>
        BY <1>10 DEF MoveAside
      <3> QED
        BY <2>1, <2>3, <3>1, <3>2 DEF RecordConflict, DbTypeOK, CopyName, Action
    <2>5. FolderTypeOK'
      <3>1. [path |-> copy[1], at |-> copy[2], body |-> local[Act.path]] \in Copy
        BY <2>1, <2>3 DEF FolderTypeOK, Copy, Action
      <3> QED
        BY <1>10, <2>1, <3>1 DEF MoveAside, RenameAside, Notify, FolderTypeOK, Action
    <2>6. EngineTypeOK' /\ TaskInv' /\ ContentInv'
      <3>1. CASE phase' = "moved" /\ UNCHANGED <<todo, got>>
        BY <1>10, <2>1, <3>1, Frames
        DEF MoveAside, EngineTypeOK, Phases, TaskInv, Working
      <3>2. CASE Finish
        BY <1>10, <2>1, <3>2, FinishType, Frames DEF MoveAside, EngineTypeOK
      <3> QED
        BY <1>10, <3>1, <3>2 DEF MoveAside
    <2>7. Rest'
      <3> DEFINE gone == Mark({k.body : k \in Named(copy)}, "clobbered")
      <3>1. ledger' = ledger \cup gone \/ ledger' = ledger \cup gone \cup Unserved
        BY <1>10 DEF MoveAside
      <3>2. gone \in SUBSET (Content \X Tags)
        BY MarkType DEF Tags
      <3> HIDE DEF gone
      <3> QED
        BY <1>10, <3>1, <3>2, UnservedType DEF MoveAside, DbFails, Fault, NoFault
    <2> QED
      BY <2>2, <2>4, <2>5, <2>6, <2>7 DEF TypeInv, TypeOK
  <1>11. CASE MakeFolder
    <2>1. todo # <<>> /\ Act \in Action
      BY <1>11, ActType
      DEF MakeFolder, CanMakeFolder, Cleared, TaskInv, Working, EngineTypeOK
    <2>2. CloudTypeOK' /\ Rest'
      BY <1>11, Frames DEF MakeFolder
    <2>3. DbTypeOK'
      <3>1. row' \in [Paths -> Row]
        <4>1. CASE UNCHANGED row
          BY <4>1 DEF DbTypeOK
        <4>2. CASE ~UNCHANGED row
          BY <1>11, <2>1, <4>2, FileStateType DEF MakeFolder, Status, Action
        <4> QED
          BY <4>1, <4>2
      <3> QED
        BY <1>11, <3>1 DEF MakeFolder, DbTypeOK
    <2>4. FolderTypeOK'
      <3>1. MakeDirs(Ancestors[Act.path] \cup {Act.path})
        BY <1>11 DEF MakeFolder
      <3>2. Ancestors[Act.path] \cup {Act.path} \subseteq Paths
        BY <2>1, SyncAssumption DEF Action
      <3> QED
        BY <1>11, <3>1, <3>2, MakeDirsType DEF MakeFolder
    <2>5. EngineTypeOK' /\ TaskInv' /\ ContentInv'
      BY <1>11, <2>1, FinishType, Frames DEF MakeFolder, EngineTypeOK
    <2> QED
      BY <2>2, <2>3, <2>4, <2>5 DEF TypeInv, TypeOK
  <1>12. CASE Fetch
    <2>1. todo # <<>> /\ Act \in Action
      BY <1>12, ActType DEF Fetch, CanFetch, Cleared, TaskInv, Working, EngineTypeOK
    <2>2. CloudTypeOK' /\ DbTypeOK'
      BY <1>12, Frames DEF Fetch
    <2>3. FolderTypeOK'
      <3>1. Ancestors[Act.path] \subseteq Paths
        BY <2>1, SyncAssumption DEF Action
      <3> QED
        BY <1>12, <3>1, MakeDirsType DEF Fetch
    <2>4. EngineTypeOK' /\ TaskInv' /\ ContentInv'
      <3>1. CASE /\ Act.id \in Ids /\ LiveFile(Act.id)
                 /\ got' = [id |-> Act.id, hash |-> Act.hash, body |-> cloud[Act.id].body]
                 /\ phase' = "fetched" /\ UNCHANGED todo
        <4>1. cloud[Act.id].body \in Content
          BY <3>1 DEF ContentInv
        <4>2. got' \in Got
          BY <2>1, <3>1, <4>1 DEF Got, Action
        <4>3. ContentInv'
          BY <1>12, <3>1, <4>1 DEF Fetch, ContentInv, LiveFile, Live
        <4> QED
          BY <1>12, <2>1, <3>1, <4>2, <4>3
          DEF Fetch, EngineTypeOK, Phases, TaskInv, Working
      <3>2. CASE Finish
        BY <1>12, <2>1, <3>2, FinishType, Frames DEF Fetch, EngineTypeOK
      <3> QED
        BY <1>12, <3>1, <3>2 DEF Fetch
    <2>5. Rest'
      BY <1>12, UnservedType DEF Fetch, Fault, NoFault
    <2> QED
      BY <2>2, <2>3, <2>4, <2>5 DEF TypeInv, TypeOK
  <1>13. CASE Install
    <2>1. phase = "fetched" /\ got.body \in Content
      BY <1>13 DEF Install, CanInstall, ContentInv
    <2>2. CloudTypeOK' /\ DbTypeOK' /\ ContentInv'
      BY <1>13, Frames DEF Install
    <2>3. FolderTypeOK'
      <3>1. Act.path \in Paths
        BY <2>1, ActType DEF TaskInv, Working, EngineTypeOK, Action
      <3> QED
        BY <1>13, <2>1, <3>1 DEF Install, Put, Notify, FolderTypeOK
    <2>4. EngineTypeOK' /\ TaskInv'
      BY <1>13, <2>1 DEF Install, EngineTypeOK, Phases, TaskInv, Working
    <2>5. Rest'
      BY <1>13, MarkType, DestroyedType DEF Install, Tags
    <2> QED
      BY <2>2, <2>3, <2>4, <2>5 DEF TypeInv, TypeOK
  <1>14. CASE Record
    <2>1. todo # <<>> /\ Act \in Action
      BY <1>14, ActType DEF Record, CanRecord, TaskInv, Working, EngineTypeOK
    <2>2. CloudTypeOK' /\ FolderTypeOK' /\ Rest'
      BY <1>14, Frames DEF Record
    <2>3. DbTypeOK'
      <3>1. row' \in [Paths -> Row]
        BY <1>14, <2>1, FileStateType, HashType
        DEF Record, Status, Action, EngineTypeOK, Got
      <3> QED
        BY <1>14, <3>1 DEF Record, DbTypeOK
    <2>4. EngineTypeOK' /\ TaskInv' /\ ContentInv'
      BY <1>14, <2>1, FinishType, Frames DEF Record, EngineTypeOK
    <2> QED
      BY <2>2, <2>3, <2>4 DEF TypeInv, TypeOK
  <1>15. CASE CreateFolder
    <2>1. todo # <<>> /\ Act \in Action
      BY <1>15, ActType DEF CreateFolder, CanCreateFolder, TaskInv, Working, EngineTypeOK
    <2>2. FolderTypeOK'
      BY <1>15, Frames DEF CreateFolder
    <2>3. PICK i \in FreeIds :
            /\ Store(i, TRUE, None, LandingOfNew, Act.parent)
            /\ \/ RecordSynced(Act.path, i, None, None) /\ NoFault
               \/ DbFails /\ UNCHANGED row
      BY <1>15 DEF CreateFolder
    <2>4. LandingOfNew \in Place /\ i \in Ids /\ Act.parent \in Holder /\ Act.path \in Paths
      BY <2>1, <2>3 DEF LandingOfNew, Landing, Place, Action, FreeIds
    <2>5. CloudTypeOK' /\ ContentInv'
      <3>1. CloudTypeOK'
        BY <2>3, <2>4, StoreType
      <3>2. ContentInv'
        BY <1>15, <2>1, <2>3, FinishType
        DEF CreateFolder, ContentInv, Store, LiveFile, Live, CloudTypeOK
      <3> QED
        BY <3>1, <3>2
    <2>6. DbTypeOK'
      <3>1. row' \in [Paths -> Row]
        BY <2>3, <2>4, FileStateType DEF RecordSynced, Status, DbTypeOK
      <3> QED
        BY <1>15, <3>1 DEF CreateFolder, DbTypeOK
    <2>7. EngineTypeOK' /\ TaskInv' /\ Rest'
      BY <1>15, <2>1, <2>3, FinishType DEF CreateFolder, EngineTypeOK, DbFails, Fault, NoFault
    <2> QED
      BY <2>2, <2>5, <2>6, <2>7 DEF TypeInv, TypeOK
  <1>16. CASE Send
    <2> DEFINE sent == Mark({local[Act.path]}, "sent")
               gone(i) == Mark({cloud[i].body} \ KnownHere, "overwritten")
    <2>1. todo # <<>> /\ Act \in Action /\ IsFile(Act.path) /\ phase = "apply"
      BY <1>16, ActType DEF Send, CanSend, TaskInv, Working, EngineTypeOK
    <2>2. DbTypeOK' /\ FolderTypeOK'
      BY <1>16, Frames DEF Send
    <2>3. PICK t \in Targets :
            /\ Store(t[1], FALSE, local[Act.path], t[2], t[3])
            /\ \/ /\ phase' = "sent"
                  /\ got' = [id |-> t[1], hash |-> local[Act.path], body |-> None]
                  /\ ledger' = ledger \cup sent \cup gone(t[1])
                  /\ NoFault
                  /\ UNCHANGED todo
               \/ /\ Fault
                  /\ Finish
                  /\ ledger' = ledger \cup sent \cup gone(t[1]) \cup Unserved
      BY <1>16 DEF Send
    <2>4. t[1] \in Ids /\ t[2] \in Place /\ t[3] \in Holder
      <3>1. CASE Act.kind = "update"
        <4>1. PICK i \in Ids : t = <<i, cloud[i].path, cloud[i].parent>>
          BY <3>1, <2>3 DEF Targets
        <4>2. cloud[i] \in Item
          BY DEF CloudTypeOK
        <4> QED
          BY <4>1, <4>2 DEF Item
      <3>2. CASE Act.kind # "update"
        <4>1. t \in Ids \X {Landing, LandingOfNew} \X {Act.parent}
          BY <3>2, <2>3 DEF Targets, FreeIds, LiveAt
        <4> QED
          BY <2>1, <4>1 DEF LandingOfNew, Landing, Place, Action
      <3> QED
        BY <3>1, <3>2
    <2>5. local[Act.path] \in Content
      BY <2>1 DEF IsFile
    <2>6. CloudTypeOK'
      BY <2>3, <2>4, <2>5, StoreType
    <2>7. EngineTypeOK' /\ TaskInv' /\ phase' # "fetched"
      <3>1. CASE phase' = "sent" /\ UNCHANGED todo
                 /\ got' = [id |-> t[1], hash |-> local[Act.path], body |-> None]
        BY <1>16, <2>1, <2>4, <2>5, <3>1
        DEF Send, EngineTypeOK, Phases, Got, TaskInv, Working
      <3>2. CASE Finish
        BY <1>16, <2>1, <3>2, FinishType DEF Send, EngineTypeOK
      <3> QED
        BY <2>3, <3>1, <3>2
    <2>8. ContentInv'
      BY <2>3, <2>4, <2>5, <2>7 DEF ContentInv, Store, LiveFile, Live, CloudTypeOK
    <2>9. Rest'
      BY <1>16, <2>3, MarkType, UnservedType DEF Send, Fault, NoFault, Tags
    <2> QED
      BY <2>2, <2>6, <2>7, <2>8, <2>9 DEF TypeInv, TypeOK
  <1>17. CASE DeleteLocal
    <2>1. todo # <<>> /\ Act \in Action
      BY <1>17, ActType DEF DeleteLocal, CanDeleteLocal, TaskInv, Working, EngineTypeOK
    <2>2. CloudTypeOK'
      BY <1>17, Frames DEF DeleteLocal
    <2>3. DbTypeOK'
      BY <1>17 DEF DeleteLocal, RemoveFileRecord, DbTypeOK, Row, NoRow, Status
    <2>4. FolderTypeOK'
      BY <1>17, <2>1 DEF DeleteLocal, Put, Notify, FolderTypeOK, Action
    <2>5. EngineTypeOK' /\ TaskInv' /\ ContentInv'
      BY <1>17, <2>1, FinishType, Frames DEF DeleteLocal, EngineTypeOK
    <2>6. Rest'
      BY <1>17, DestroyedType DEF DeleteLocal
    <2> QED
      BY <2>2, <2>3, <2>4, <2>5, <2>6 DEF TypeInv, TypeOK
  <1>18. CASE ActionFails
    <2>1. todo # <<>>
      BY <1>18 DEF ActionFails, TaskInv
    <2>2. CloudTypeOK' /\ DbTypeOK' /\ FolderTypeOK'
      BY <1>18, Frames DEF ActionFails
    <2>3. EngineTypeOK' /\ TaskInv' /\ ContentInv'
      BY <1>18, <2>1, FinishType, Frames DEF ActionFails, EngineTypeOK
    <2>4. Rest'
      BY <1>18, UnservedType DEF ActionFails, Fault, NoFault
    <2> QED
      BY <2>2, <2>3, <2>4 DEF TypeInv, TypeOK
  <1>19. ASSUME NEW p \in Paths, NEW c \in Content, UserWrite(p, c) PROVE TypeInv'
    <2>1. /\ CloudTypeOK' /\ DbTypeOK' /\ EngineTypeOK' /\ TaskInv' /\ ContentInv'
      BY <1>19, Frames DEF UserWrite, ByUser, TaskInv, Working
    <2>2. FolderTypeOK'
      BY <1>19 DEF UserWrite, ByUser, Put, Notify, FolderTypeOK
    <2>3. Rest'
      <3>1. \A tag \in Tags : Mark({c}, tag) \in SUBSET (Content \X Tags)
        BY MarkType
      <3> QED
        BY <1>19, <3>1 DEF UserWrite, ByUser, Tags
    <2> QED
      BY <2>1, <2>2, <2>3 DEF TypeInv, TypeOK
  <1>20. ASSUME NEW p \in Paths, UserMakeDir(p) \/ UserRemove(p) \/ FileTouched(p)
         PROVE  TypeInv'
    <2>1. CloudTypeOK' /\ DbTypeOK' /\ EngineTypeOK' /\ TaskInv' /\ ContentInv' /\ Rest'
      BY <1>20, Frames DEF UserMakeDir, UserRemove, FileTouched, ByUser, TaskInv, Working
    <2>2. FolderTypeOK'
      BY <1>20
      DEF UserMakeDir, UserRemove, FileTouched, ByUser, Put, Notify, FolderTypeOK
    <2> QED
      BY <2>1, <2>2 DEF TypeInv, TypeOK
  <1>21. CASE SetPaused \/ NextSecond
    <2>1. CloudTypeOK' /\ DbTypeOK' /\ EngineTypeOK' /\ TaskInv' /\ ContentInv' /\ Rest'
      BY <1>21, Frames DEF SetPaused, NextSecond, TaskInv, Working
    <2>2. FolderTypeOK'
      BY <1>21 DEF SetPaused, NextSecond, FolderTypeOK
    <2> QED
      BY <2>1, <2>2 DEF TypeInv, TypeOK
  <1>21a. CASE RemovePair
    <2>1. CloudTypeOK' /\ FolderTypeOK' /\ EngineTypeOK' /\ TaskInv' /\ ContentInv' /\ Rest'
      BY <1>21a, Frames DEF RemovePair, TaskInv, Working
    <2>2. DbTypeOK'
      BY <1>21a DEF RemovePair, RemovePairRow, DbTypeOK, Row, NoRow, Status
    <2> QED
      BY <2>1, <2>2 DEF TypeInv, TypeOK
  <1>22. ASSUME ByClient, NEW i \in Ids, NEW folder \in BOOLEAN,
                NEW body \in Content \cup {None}, NEW path \in Place, NEW parent \in Holder,
                Store(i, folder, body, path, parent), ~folder => body \in Content,
                ledger' \in SUBSET (Content \X Tags)
         PROVE  TypeInv'
    <2>1. DbTypeOK' /\ FolderTypeOK' /\ EngineTypeOK' /\ TaskInv' /\ Rest'
      BY <1>22, Frames DEF ByClient, TaskInv, Working
    <2>2. CloudTypeOK'
      BY <1>22, StoreType
    <2>3. ContentInv'
      BY <1>22 DEF ByClient, ContentInv, Store, LiveFile, Live, CloudTypeOK
    <2> QED
      BY <2>1, <2>2, <2>3 DEF TypeInv, TypeOK
  <1>23. \A p \in Place : HoldersFor(p) \subseteq Holder
    BY DEF HoldersFor, Holder, LiveAt
  <1>24. ASSUME NEW i \in Ids, NEW p \in Paths, NEW c \in Content, RemoteCreate(i, p, c)
         PROVE  TypeInv'
    BY <1>22, <1>23, <1>24, MarkType DEF RemoteCreate, Place, Tags
  <1>25. ASSUME NEW i \in Ids, NEW c \in Content, RemoteCreateAwkward(i, c)
         PROVE  TypeInv'
    BY <1>22, <1>25, MarkType DEF RemoteCreateAwkward, Place, Holder, Tags
  <1>26. ASSUME NEW i \in Ids, NEW p \in Paths, RemoteCreateFolder(i, p)
         PROVE  TypeInv'
    BY <1>22, <1>23, <1>26 DEF RemoteCreateFolder, Place
  <1>27. ASSUME NEW i \in Ids, NEW c \in Content, RemoteEdit(i, c) PROVE TypeInv'
    <2>1. cloud[i].path \in Place /\ cloud[i].parent \in Holder
      BY DEF CloudTypeOK, Item
    <2> QED
      BY <1>22, <1>27, <2>1, MarkType DEF RemoteEdit, Tags
  <1>28. ASSUME NEW i \in Ids, NEW p \in Paths \cup {Elsewhere}, RemoteMove(i, p)
         PROVE  TypeInv'
    <2>1. cloud[i].body \in Content /\ p \in Place
      BY <1>28 DEF RemoteMove, ContentInv, Place
    <2> QED
      BY <1>22, <1>23, <1>28, <2>1 DEF RemoteMove
  <1>29. ASSUME NEW i \in Ids, RemoteDelete(i) PROVE TypeInv'
    <2>1. DbTypeOK' /\ FolderTypeOK' /\ EngineTypeOK' /\ TaskInv' /\ Rest'
      BY <1>29, Frames DEF RemoteDelete, ByClient, TaskInv, Working
    <2>2. CloudTypeOK'
      BY <1>29, DropType DEF RemoteDelete
    <2>3. ContentInv'
      BY <1>29 DEF RemoteDelete, ByClient, Drop, ContentInv, LiveFile, Live, CloudTypeOK, Item
    <2> QED
      BY <2>1, <2>2, <2>3 DEF TypeInv, TypeOK
  <1>30. CASE UNCHANGED vars
    <2>1. TaskInv' /\ ContentInv' /\ Rest'
      BY <1>30, Frames DEF vars, TaskInv, Working
    <2> QED
      BY <1>30, <2>1, Frames DEF vars, TypeInv, TypeOK
  <1>31. CASE Daemon
    BY <1>1, <1>2, <1>3, <1>4, <1>5, <1>6, <1>7, <1>8, <1>9, <1>10, <1>11, <1>12,
       <1>13, <1>14, <1>15, <1>16, <1>17, <1>18, <1>31
    DEF Daemon, LocalEvents, RunCycle, Apply
  <1>32. CASE User \/ Clients \/ NextSecond
    BY <1>19, <1>20, <1>21, <1>21a, <1>24, <1>25, <1>26, <1>27, <1>28, <1>29, <1>32
    DEF User, Clients
  <1> QED
    BY <1>30, <1>31, <1>32 DEF Next

(* TypeOK holds in every state the daemon can reach.                       *)
THEOREM TypeCorrect == Spec => []TypeOK
  <1>1. TypeInv => TypeOK
    BY DEF TypeInv
  <1> QED
    BY <1>1, InitTypeInv, NextTypeInv, PTL DEF Spec

-----------------------------------------------------------------------------
(* Survival of local edits.                                                *)

(* Of the files at stake, a step changes only into files whose destruction *)
(* is excused, or into no file.                                            *)
FilesKept ==
    \A p \in Paths : AtStake(p) =>
        local'[p] = local[p] \/ local'[p] \notin Content \/ local'[p] \in Covered'

-----------------------------------------------------------------------------
(* A mark of one kind changes what is tagged with no other.                *)
LEMMA OtherTag ==
  ASSUME NEW cs, NEW tag, NEW other \in Tags \ {tag}, NEW c
  PROVE  <<c, tag>> \notin Mark(cs, other)
  BY DEF Mark

(* A mark other than "lost" takes nothing out of the history and adds      *)
(* nothing to what was lost.                                               *)
LEMMA MarkNotLost ==
  ASSUME NEW cs, NEW tag \in Tags \ {"lost"}, NEW c
  PROVE  <<c, "lost">> \notin Mark(cs, tag)
  BY DEF Mark

(* An action that comes to nothing destroys nothing.                       *)
LEMMA UnservedNotLost == \A c : <<c, "lost">> \notin Unserved
  BY MarkNotLost DEF Unserved, Tags

(* So a step that only makes other marks leaves what was lost as it was.   *)
LEMMA NothingNewLost ==
  ASSUME NEW S, ledger' = ledger \cup S, \A c : <<c, "lost">> \notin S
  PROVE  ledger \subseteq ledger' /\ Tagged("lost")' = Tagged("lost")
  BY DEF Tagged

(* What the cloud has had, and what an action's window excuses, only grow. *)
LEMMA CoveredGrows ==
  ASSUME ledger \subseteq ledger'
  PROVE  InCloudOnce \subseteq InCloudOnce' /\ Covered \subseteq Covered'
  BY DEF InCloudOnce, Covered, Tagged

(* The action under way is a decided one; from its first effect on, its    *)
(* path is at stake.                                                       *)
LEMMA ActDecided ==
  ASSUME TypeInv, Working
  PROVE  /\ 1 \in DOMAIN todo /\ todo[1] = Act
         /\ Act \in Action /\ Act.path \in Paths
         /\ phase # "apply" \/ Act.kind \in {"download", "delete"} => AtStake(Act.path)
  <1>1. todo \in Seq(Action) /\ todo # <<>>
    BY DEF TypeInv, TypeOK, EngineTypeOK, TaskInv
  <1>2. 1 \in DOMAIN todo /\ todo[1] = Act
    BY <1>1 DEF Act
  <1> QED
    BY <1>1, <1>2, ActType DEF AtStake, Action, Working

(* A file that is what its row says is one the cloud has had, or one saved *)
(* in an action's window.                                                  *)
LEMMA UnchangedIsSafe ==
  ASSUME RowsCovered, NEW p \in Paths, ~LocalChanged(p)
  PROVE  Safe(p)
  BY SyncAssumption DEF RowsCovered, LocalChanged, Safe, IsFile, Hash

(* classify only decides to overwrite or to delete what is so.             *)
LEMMA VerdictSafe ==
  ASSUME RowsCovered, NEW p \in Paths, NEW ch,
         Verdict(p, ch) \in {"download", "delete"}
  PROVE  Safe(p)
  <1>1. CASE ~LocalChanged(p)
    BY <1>1, UnchangedIsSafe
  <1>2. CASE LocalChanged(p)
    <2>1. ~IsFile(p)
      BY <1>2 DEF Verdict
    <2> QED
      BY <2>1 DEF Safe
  <1> QED
    BY <1>1, <1>2

(* The parts of SurvivalInv a step does not disturb.                       *)
LEMMA Kept ==
  ASSUME SurvivalInv, ledger \subseteq ledger'
  PROVE  /\ UNCHANGED cloud => CloudCovered'
         /\ UNCHANGED row => RowsCovered'
         /\ phase' \in {"idle", "due", "classify", "apply"} => StepSafe'
         /\ Tagged("lost")' = Tagged("lost") => EditsOutsideWindowSurvive'
  <1>1. UNCHANGED cloud => CloudCovered'
    BY CoveredGrows DEF SurvivalInv, CloudCovered
  <1>2. UNCHANGED row => RowsCovered'
    BY CoveredGrows DEF SurvivalInv, RowsCovered
  <1>3. phase' \in {"idle", "due", "classify", "apply"} => StepSafe'
    BY DEF StepSafe
  <1>4. Tagged("lost")' = Tagged("lost") => EditsOutsideWindowSurvive'
    BY DEF SurvivalInv, EditsOutsideWindowSurvive, Tagged
  <1> QED
    BY <1>1, <1>2, <1>3, <1>4

(* Decisions stay safe while the list only shrinks.                        *)
LEMMA DecisionsKept ==
  ASSUME SurvivalInv, ledger \subseteq ledger', FilesKept,
         \/ UNCHANGED todo
         \/ todo # <<>> /\ todo' = Tail(todo)
         \/ todo' = <<>>
  PROVE  DecisionsSafe'
  <1>1. todo \in Seq(Action)
    BY DEF SurvivalInv, TypeInv, TypeOK, EngineTypeOK
  <1>2. ASSUME NEW k \in DOMAIN todo', todo'[k].kind \in {"download", "delete"}
        PROVE  local'[todo'[k].path] \in Content => local'[todo'[k].path] \in Covered'
    <2>1. PICK j \in DOMAIN todo : todo'[k] = todo[j]
      <3>1. CASE todo # <<>> /\ todo' = Tail(todo)
        <4>1. k + 1 \in DOMAIN todo /\ todo'[k] = todo[k + 1]
          BY <1>1, <1>2, <3>1
        <4> QED
          BY <4>1
      <3>2. CASE UNCHANGED todo
        BY <1>2, <3>2
      <3>3. CASE todo' = <<>>
        BY <1>2, <3>3
      <3> QED
        BY <3>1, <3>2, <3>3
    <2>2. todo[j].path \in Paths /\ AtStake(todo[j].path) /\ Safe(todo[j].path)
      <3>1. todo[j] \in Action
        BY <1>1
      <3>2. Safe(todo[j].path)
        BY <1>2, <2>1 DEF SurvivalInv, DecisionsSafe
      <3> QED
        BY <1>2, <2>1, <3>1, <3>2 DEF Action, AtStake
    <2> QED
      BY <2>1, <2>2, CoveredGrows DEF FilesKept, Safe, IsFile
  <1> QED
    BY <1>2 DEF DecisionsSafe, Safe, IsFile

(* So does the action under way, while it is the same and its path holds   *)
(* no other file.                                                          *)
LEMMA StepKept ==
  ASSUME SurvivalInv, ledger \subseteq ledger', FilesKept, UNCHANGED <<todo, phase, got>>
  PROVE  StepSafe'
  <1>1. CASE phase \in {"moved", "fetched", "installed", "sent"}
    <2>1. Act.path \in Paths /\ AtStake(Act.path) /\ Safe(Act.path)
      BY <1>1, ActDecided DEF SurvivalInv, Working, StepSafe
    <2>2. Act' = Act
      BY DEF Act
    <2>3. Safe(Act.path)'
      BY <2>1, <2>2, CoveredGrows DEF FilesKept, Safe, IsFile
    <2> QED
      BY <1>1, <2>3, CoveredGrows DEF SurvivalInv, StepSafe
  <1>2. CASE phase \notin {"moved", "fetched", "installed", "sent"}
    BY <1>2 DEF StepSafe
  <1> QED
    BY <1>1, <1>2

(* Nothing is decided and nothing has been recorded at the start.          *)
LEMMA InitSurvivalInv == Init => SurvivalInv
  <1> SUFFICES ASSUME Init PROVE SurvivalInv
    OBVIOUS
  <1>1. TypeInv
    BY InitTypeInv
  <1>2. CloudCovered /\ RowsCovered
    BY DEF Init, CloudInit, DbInit, NoRow, CloudCovered, RowsCovered
  <1>3. DecisionsSafe /\ StepSafe /\ EditsOutsideWindowSurvive
    BY DEF Init, DecisionsSafe, StepSafe, EditsOutsideWindowSurvive, Tagged
  <1> QED
    BY <1>1, <1>2, <1>3 DEF SurvivalInv

(* A step that touches no file, item, row or decision disturbs nothing.    *)
LEMMA ElsewhereStep ==
  ASSUME SurvivalInv, ledger \subseteq ledger', Tagged("lost")' = Tagged("lost"),
         UNCHANGED <<local, cloud, row, todo>>,
         UNCHANGED <<phase, got>> \/ phase' \in {"idle", "due", "classify", "apply"}
  PROVE  /\ CloudCovered' /\ RowsCovered' /\ DecisionsSafe' /\ StepSafe'
         /\ EditsOutsideWindowSurvive'
  <1>1. FilesKept
    BY DEF FilesKept
  <1> QED
    BY <1>1, Kept, DecisionsKept, StepKept

(* The end of an action leaves the later decisions as safe as they were.   *)
LEMMA FinishStep ==
  ASSUME SurvivalInv, ledger \subseteq ledger', FilesKept, Working, Finish
  PROVE  DecisionsSafe' /\ StepSafe'
  <1>1. todo # <<>> /\ todo' = Tail(todo) /\ phase' \in {"idle", "apply"}
    BY DEF Finish, SurvivalInv, TypeInv, TaskInv
  <1> QED
    BY <1>1, DecisionsKept, Kept

(* What the daemon may destroy at the path of the action under way is      *)
(* excused: nothing is lost there that was not saved in the window.        *)
LEMMA DestroyedIsRacy ==
  ASSUME SurvivalInv, Safe(Act.path), ledger \subseteq ledger',
         \A c : <<c, "lost">> \in ledger' => <<c, "lost">> \in ledger \cup Destroyed(Act.path)
  PROVE  EditsOutsideWindowSurvive'
  <1>1. \A c \in Content : <<c, "lost">> \in Destroyed(Act.path) =>
          c \in Tagged("racy")
    BY DEF Destroyed, Mark, Safe, IsFile, Covered
  <1> QED
    BY <1>1 DEF SurvivalInv, EditsOutsideWindowSurvive, Tagged

(* A decision is put at the end, behind the ones already made.             *)
LEMMA AppendElement ==
  ASSUME NEW S, NEW s \in Seq(S), NEW x, NEW k \in DOMAIN Append(s, x)
  PROVE  Append(s, x)[k] = x \/ (k \in DOMAIN s /\ Append(s, x)[k] = s[k])
  OBVIOUS

-----------------------------------------------------------------------------
(* Every step of the daemon, of the user and of the other clients keeps    *)
(* SurvivalInv.                                                            *)
LEMMA NextSurvivalInv == SurvivalInv /\ [Next]_vars => SurvivalInv'
  <1> DEFINE Goal == /\ CloudCovered /\ RowsCovered /\ DecisionsSafe /\ StepSafe
                     /\ EditsOutsideWindowSurvive
  <1> SUFFICES ASSUME SurvivalInv, [Next]_vars PROVE Goal'
    BY NextTypeInv DEF SurvivalInv
  <1> USE DEF cloudVars, dbVars, folderVars, engineVars
  <1>0. TypeInv
    BY DEF SurvivalInv
  <1>1. CASE RefreshWatchers
    BY <1>1, ElsewhereStep, NothingNewLost, MarkNotLost DEF RefreshWatchers, Tags
  <1>2. ASSUME NEW p \in Paths, IgnoreEvent(p) PROVE Goal'
    BY <1>2, ElsewhereStep DEF IgnoreEvent, Deliver, Tagged
  <1>3. ASSUME NEW p \in Paths, LoseEvent(p) PROVE Goal'
    BY <1>3, ElsewhereStep, NothingNewLost, MarkNotLost DEF LoseEvent, Deliver, Tags
  <1>4. ASSUME NEW p \in Paths, TakeEvent(p) PROVE Goal'
    <2>1. ledger \subseteq ledger' /\ Tagged("lost")' = Tagged("lost")
      BY <1>4 DEF TakeEvent, Tagged
    <2>2. DecisionsSafe'
      BY <1>4 DEF TakeEvent, LocalAction, DecisionsSafe
    <2> QED
      BY <1>4, <2>1, <2>2, Kept DEF TakeEvent, Deliver
  <1>5. CASE BeginPoll
    BY <1>5, ElsewhereStep DEF BeginPoll, Tagged
  <1>6. CASE List
    <2>1. ledger \subseteq ledger' /\ Tagged("lost")' = Tagged("lost")
      BY <1>6, NothingNewLost, MarkNotLost DEF List, Tags, Tagged
    <2> QED
      BY <1>6, <2>1, ElsewhereStep DEF List
  <1>7. ASSUME NEW ch \in batch, ClassifyChange(ch) PROVE Goal'
    <2>1. ledger \subseteq ledger' /\ Tagged("lost")' = Tagged("lost")
      BY <1>7 DEF ClassifyChange, Tagged
    <2>2. CASE UNCHANGED todo
      BY <1>7, <2>1, <2>2, ElsewhereStep DEF ClassifyChange
    <2>3. ASSUME NEW p \in PathsFor(ch), todo' = Append(todo, RemoteAction(p, ch))
          PROVE  DecisionsSafe'
      <3>1. p \in Paths /\ todo \in Seq(Action)
        BY <1>0 DEF PathsFor, RelativePathsForRemoteId, TypeInv, TypeOK, EngineTypeOK
      <3>2. Verdict(p, ch) \in {"download", "delete"} => Safe(p)
        BY <3>1, VerdictSafe DEF SurvivalInv
      <3>3. ASSUME NEW k \in DOMAIN todo', todo'[k].kind \in {"download", "delete"}
            PROVE  \/ Safe(p) /\ todo'[k].path = p
                   \/ k \in DOMAIN todo /\ todo'[k] = todo[k]
        <4>1. \/ todo'[k] = RemoteAction(p, ch)
              \/ k \in DOMAIN todo /\ todo'[k] = todo[k]
          BY <2>3, <3>1, <3>3, AppendElement
        <4> QED
          BY <3>2, <3>3, <4>1 DEF RemoteAction
      <3> QED
        BY <1>7, <3>3
        DEF ClassifyChange, SurvivalInv, DecisionsSafe, Safe, IsFile, Covered, InCloudOnce, Tagged
    <2> QED
      BY <1>7, <2>1, <2>2, <2>3, Kept DEF ClassifyChange, Queue, StepSafe
  <1>8. CASE CycleFails
    <2>1. /\ ledger \subseteq ledger' /\ Tagged("lost")' = Tagged("lost")
          /\ FilesKept
      BY <1>8 DEF CycleFails, Tagged, FilesKept
    <2> QED
      BY <1>8, <2>1, Kept, DecisionsKept DEF CycleFails
  <1>9. CASE CommitCursor
    BY <1>9, ElsewhereStep DEF CommitCursor, Tagged
  <1>10. CASE MoveAside
    <2> DEFINE copy == ConflictingFileName(Act.path)
    <2>1. phase = "apply" /\ Working /\ RenameAside(Act.path, copy)
      BY <1>10 DEF MoveAside, CanMoveAside, Working
    <2>2. ledger \subseteq ledger' /\ Tagged("lost")' = Tagged("lost")
      <3> DEFINE gone == Mark({k.body : k \in Named(copy)}, "clobbered")
      <3>1. \A c : <<c, "lost">> \notin gone
        BY MarkNotLost DEF Tags
      <3>2. ledger' = ledger \cup gone \/ ledger' = ledger \cup (gone \cup Unserved)
        BY <1>10 DEF MoveAside
      <3> HIDE DEF gone
      <3> QED
        BY <3>1, <3>2, UnservedNotLost, NothingNewLost
    <2>3. FilesKept /\ local'[Act.path] = Absent
      <3>1. Act.path \in Paths
        BY <1>0, <2>1, ActDecided
      <3> QED
        BY <2>1, <3>1, SyncAssumption DEF FilesKept, RenameAside
    <2>4. CASE phase' = "moved" /\ UNCHANGED <<todo, got>>
      <3>1. StepSafe'
        BY <2>3, <2>4, SyncAssumption DEF StepSafe, Safe, IsFile, Act
      <3> QED
        BY <1>10, <2>2, <2>3, <2>4, <3>1, Kept, DecisionsKept DEF MoveAside
    <2>5. CASE Finish
      BY <1>10, <2>1, <2>2, <2>3, <2>5, Kept, FinishStep DEF MoveAside
    <2> QED
      BY <1>10, <2>4, <2>5 DEF MoveAside
  <1>11. ASSUME NEW ps, MakeDirs(ps) PROVE FilesKept
    BY <1>11, SyncAssumption DEF MakeDirs, FilesKept
  <1>12. CASE MakeFolder
    <2>1. Working /\ Finish /\ FilesKept
      BY <1>11, <1>12 DEF MakeFolder, CanMakeFolder, Cleared, Working
    <2>2. ledger \subseteq ledger' /\ Tagged("lost")' = Tagged("lost")
      BY <1>12 DEF MakeFolder, Tagged
    <2>3. RowsCovered'
      BY <1>12, <2>2, CoveredGrows
      DEF MakeFolder, RecordFileState, SurvivalInv, RowsCovered, TypeInv, TypeOK, DbTypeOK
    <2> QED
      BY <1>12, <2>1, <2>2, <2>3, Kept, FinishStep DEF MakeFolder
  <1>13. CASE Fetch
    <2>1. Working /\ FilesKept
      BY <1>11, <1>13 DEF Fetch, CanFetch, Cleared, Working
    <2>2. ledger \subseteq ledger' /\ Tagged("lost")' = Tagged("lost")
      BY <1>13, NothingNewLost, UnservedNotLost DEF Fetch, Tagged
    <2>3. CASE /\ Act.id \in Ids /\ LiveFile(Act.id) /\ phase' = "fetched"
               /\ got'.body = cloud[Act.id].body /\ UNCHANGED todo
      <3>1. got'.body \in InCloudOnce
        <4>1. cloud[Act.id].body \in Content
          BY <1>0, <2>3 DEF TypeInv, ContentInv
        <4> QED
          BY <2>3, <4>1, SyncAssumption DEF SurvivalInv, CloudCovered
      <3>2. Safe(Act.path)
        <4>1. CASE phase = "moved" \/ ~IsFile(Act.path)
          BY <4>1 DEF SurvivalInv, StepSafe, Safe
        <4>2. CASE phase = "apply" /\ IsFile(Act.path)
          <5>1. Act.kind = "download"
            BY <1>13, <4>2, SyncAssumption DEF Fetch, CanFetch, Cleared, IsFile
          <5> QED
            BY <1>0, <2>1, <5>1, ActDecided DEF SurvivalInv, DecisionsSafe
        <4> QED
          BY <1>13, <4>1, <4>2 DEF Fetch, CanFetch, Cleared
      <3>3. local'[Act.path] \in Content => local'[Act.path] \in Covered'
        <4>1. local'[Act.path] \in {local[Act.path], Dir}
          BY <1>0, <1>13, <2>1, ActDecided DEF Fetch, MakeDirs
        <4> QED
          BY <2>2, <3>2, <4>1, SyncAssumption, CoveredGrows DEF Safe, IsFile
      <3>4. StepSafe'
        BY <2>2, <2>3, <3>1, <3>3, CoveredGrows DEF StepSafe, Safe, IsFile, Act
      <3> QED
        BY <1>13, <2>1, <2>2, <2>3, <3>4, Kept, DecisionsKept DEF Fetch
    <2>4. CASE Finish
      BY <1>13, <2>1, <2>2, <2>4, Kept, FinishStep DEF Fetch
    <2> QED
      BY <1>13, <2>3, <2>4 DEF Fetch
  <1>14. CASE Install
    <2>1. /\ phase = "fetched" /\ Working /\ Safe(Act.path)
          /\ got.body \in InCloudOnce /\ Act.path \in Paths
      BY <1>0, <1>14, ActDecided DEF Install, CanInstall, Working, SurvivalInv, StepSafe
    <2>2. ledger \subseteq ledger' /\ EditsOutsideWindowSurvive'
      <3>1. \A c : <<c, "lost">> \notin Mark({got.body}, "fetched")
        BY MarkNotLost DEF Tags
      <3> QED
        BY <1>14, <2>1, <3>1, DestroyedIsRacy DEF Install
    <2>3. /\ local' = [local EXCEPT ![Act.path] = got.body]
          /\ UNCHANGED <<todo, row, cloud>> /\ phase' = "installed"
      BY <1>14 DEF Install, Put
    <2>4. FilesKept /\ local'[Act.path] \in Covered'
      <3>1. local \in [Paths -> Content \cup {Absent, Dir}]
        BY <1>0 DEF TypeInv, TypeOK, FolderTypeOK
      <3> QED
        BY <2>1, <2>2, <2>3, <3>1, CoveredGrows DEF FilesKept, Covered
    <2>5. StepSafe'
      BY <2>3, <2>4 DEF StepSafe, Safe, Act
    <2> QED
      BY <2>2, <2>3, <2>4, <2>5, Kept, DecisionsKept
  <1>15. CASE Record
    <2>1. /\ phase \in {"installed", "sent"} /\ Working /\ IsFile(Act.path)
          /\ Safe(Act.path)
      BY <1>15 DEF Record, CanRecord, Working, SurvivalInv, StepSafe
    <2>2. ledger \subseteq ledger' /\ Tagged("lost")' = Tagged("lost") /\ FilesKept
      BY <1>15 DEF Record, Tagged, FilesKept
    <2>3. RowsCovered'
      <3>1. Hash(local[Act.path]) \in Covered
        BY <2>1 DEF Safe, Hash, IsFile
      <3> QED
        BY <1>15, <2>2, <3>1, CoveredGrows
        DEF Record, RecordFileState, SurvivalInv, RowsCovered, TypeInv, TypeOK, DbTypeOK
    <2> QED
      BY <1>15, <2>1, <2>2, <2>3, Kept, FinishStep DEF Record
  <1>16. CASE CreateFolder
    <2>1. Working /\ Finish
      BY <1>16 DEF CreateFolder, CanCreateFolder, Working
    <2>2. ledger \subseteq ledger' /\ Tagged("lost")' = Tagged("lost") /\ FilesKept
      BY <1>16 DEF CreateFolder, Tagged, FilesKept
    <2>3. PICK i \in FreeIds :
            /\ Store(i, TRUE, None, LandingOfNew, Act.parent)
            /\ \/ RecordSynced(Act.path, i, None, None)
               \/ UNCHANGED row
      BY <1>16 DEF CreateFolder
    <2>4. CloudCovered'
      BY <1>0, <2>2, <2>3, CoveredGrows
      DEF Store, SurvivalInv, CloudCovered, FreeIds, TypeInv, TypeOK, CloudTypeOK
    <2>5. RowsCovered'
      BY <1>0, <2>2, <2>3, CoveredGrows
      DEF RecordSynced, RecordFileState, SurvivalInv, RowsCovered, TypeInv, TypeOK, DbTypeOK
    <2> QED
      BY <2>1, <2>2, <2>4, <2>5, Kept, FinishStep
  <1>17. CASE Send
    <2> DEFINE sent == Mark({local[Act.path]}, "sent")
               gone(i) == Mark({cloud[i].body} \ KnownHere, "overwritten")
    <2>1. Working /\ IsFile(Act.path) /\ Act.path \in Paths /\ UNCHANGED <<local, row>>
      BY <1>0, <1>17, ActDecided DEF Send, CanSend, Working
    <2>2. PICK t \in Targets :
            /\ Store(t[1], FALSE, local[Act.path], t[2], t[3])
            /\ \/ /\ phase' = "sent"
                  /\ ledger' = ledger \cup (sent \cup gone(t[1]))
                  /\ UNCHANGED todo
               \/ /\ Finish
                  /\ ledger' = ledger \cup (sent \cup gone(t[1]) \cup Unserved)
      BY <1>17 DEF Send
    <2>3. ledger \subseteq ledger' /\ Tagged("lost")' = Tagged("lost") /\ FilesKept
      <3>1. \A c : <<c, "lost">> \notin sent \cup gone(t[1]) \cup Unserved
        BY MarkNotLost, UnservedNotLost DEF Tags
      <3> HIDE DEF sent, gone
      <3> QED
        BY <2>1, <2>2, <3>1, NothingNewLost DEF FilesKept
    <2>4. local[Act.path] \in InCloudOnce'
      <3>1. <<local[Act.path], "sent">> \in sent
        BY <2>1 DEF Mark, IsFile
      <3> HIDE DEF sent, gone
      <3> QED
        BY <2>1, <2>2, <3>1 DEF InCloudOnce, Tagged, IsFile
    <2>5. CloudCovered'
      <3>1. \A i \in Ids : cloud'[i].body \in {cloud[i].body, local[Act.path]}
        BY <1>0, <2>2 DEF Store, TypeInv, TypeOK, CloudTypeOK
      <3> QED
        BY <2>3, <2>4, <3>1, CoveredGrows DEF SurvivalInv, CloudCovered
    <2>6. CASE phase' = "sent" /\ UNCHANGED todo
      <3>1. StepSafe'
        BY <2>1, <2>4, <2>6 DEF StepSafe, Safe, Covered, Act
      <3> QED
        BY <2>1, <2>3, <2>5, <2>6, <3>1, Kept, DecisionsKept
    <2>7. CASE Finish
      BY <2>1, <2>3, <2>5, <2>7, Kept, FinishStep
    <2> QED
      BY <2>2, <2>6, <2>7
  <1>18. CASE DeleteLocal
    <2>1. /\ Working /\ Finish /\ Act.path \in Paths /\ Safe(Act.path)
          /\ UNCHANGED cloud
      BY <1>0, <1>18, ActDecided
      DEF DeleteLocal, CanDeleteLocal, Working, SurvivalInv, DecisionsSafe
    <2>2. ledger \subseteq ledger' /\ EditsOutsideWindowSurvive'
      BY <1>18, <2>1, DestroyedIsRacy DEF DeleteLocal
    <2>3. FilesKept
      <3>1. local \in [Paths -> Content \cup {Absent, Dir}]
        BY <1>0 DEF TypeInv, TypeOK, FolderTypeOK
      <3> QED
        BY <1>18, <2>1, <3>1, SyncAssumption DEF DeleteLocal, Put, FilesKept
    <2>4. RowsCovered'
      BY <1>0, <1>18, <2>1, <2>2, CoveredGrows
      DEF DeleteLocal, RemoveFileRecord, NoRow, SurvivalInv, RowsCovered, TypeInv, TypeOK, DbTypeOK
    <2> QED
      BY <2>1, <2>2, <2>3, <2>4, Kept, FinishStep
  <1>19. CASE ActionFails
    <2>1. ledger \subseteq ledger' /\ Tagged("lost")' = Tagged("lost") /\ FilesKept
      BY <1>19, NothingNewLost, UnservedNotLost DEF ActionFails, FilesKept
    <2> QED
      BY <1>19, <2>1, Kept, FinishStep DEF ActionFails
  <1>20. ASSUME NEW p \in Paths, NEW c \in Content, UserWrite(p, c) PROVE Goal'
    <2>1. ledger \subseteq ledger' /\ Tagged("lost")' = Tagged("lost")
      <3> DEFINE S == Mark({c}, "wroteHere")
                        \cup (IF AtStake(p) THEN Mark({c}, "racy") ELSE {})
                        \cup (IF watching THEN {} ELSE Mark({c}, "blind"))
                        \cup (IF paused THEN Mark({c}, "paused") ELSE {})
      <3>1. \A d : <<d, "lost">> \notin S
        BY MarkNotLost DEF Tags
      <3>2. ledger' = ledger \cup S
        BY <1>20 DEF UserWrite
      <3> HIDE DEF S
      <3> QED
        BY <3>1, <3>2, NothingNewLost
    <2>2. AtStake(p) => c \in Covered'
      <3>1. AtStake(p) => <<c, "racy">> \in ledger'
        BY <1>20 DEF UserWrite, Mark
      <3> QED
        BY <3>1 DEF Covered, Tagged
    <2>3. FilesKept
      <3>1. local \in [Paths -> Content \cup {Absent, Dir}]
        BY <1>0 DEF TypeInv, TypeOK, FolderTypeOK
      <3> QED
        BY <1>20, <2>2, <3>1 DEF UserWrite, Put, FilesKept
    <2> QED
      BY <1>20, <2>1, <2>3, Kept, DecisionsKept, StepKept DEF UserWrite, ByUser
  <1>21. ASSUME NEW p \in Paths, UserMakeDir(p) \/ UserRemove(p) \/ FileTouched(p)
         PROVE  Goal'
    <2>1. ledger \subseteq ledger' /\ Tagged("lost")' = Tagged("lost")
      BY <1>21 DEF UserMakeDir, UserRemove, FileTouched, Tagged
    <2>2. FilesKept
      <3>1. local \in [Paths -> Content \cup {Absent, Dir}]
        BY <1>0 DEF TypeInv, TypeOK, FolderTypeOK
      <3> QED
        BY <1>21, <3>1, SyncAssumption
        DEF UserMakeDir, UserRemove, FileTouched, Put, FilesKept
    <2> QED
      BY <1>21, <2>1, <2>2, Kept, DecisionsKept, StepKept
      DEF UserMakeDir, UserRemove, FileTouched, ByUser
  <1>22. CASE SetPaused \/ NextSecond
    BY <1>22, ElsewhereStep DEF SetPaused, NextSecond, Tagged
  <1>22a. CASE RemovePair
    <2>1. /\ ledger \subseteq ledger' /\ Tagged("lost")' = Tagged("lost")
          /\ FilesKept
      BY <1>22a DEF RemovePair, Tagged, FilesKept
    <2>2. RowsCovered'
      BY <1>22a DEF RemovePair, RemovePairRow, NoRow, RowsCovered
    <2> QED
      BY <1>22a, <2>1, <2>2, Kept, DecisionsKept, StepKept DEF RemovePair
  <1>23. ASSUME ByClient, ledger \subseteq ledger', Tagged("lost")' = Tagged("lost"),
                CloudCovered'
         PROVE  Goal'
    <2>1. FilesKept
      BY <1>23 DEF ByClient, FilesKept
    <2> QED
      BY <1>23, <2>1, Kept, DecisionsKept, StepKept DEF ByClient
  <1>24. ASSUME NEW i \in Ids, NEW c \in Content, NEW path, NEW parent, ByClient,
                Store(i, FALSE, c, path, parent), ledger' = ledger \cup Mark({c}, "wroteThere")
         PROVE  Goal'
    <2>1. ledger \subseteq ledger' /\ Tagged("lost")' = Tagged("lost")
      BY <1>24, NothingNewLost, MarkNotLost DEF Tags
    <2>2. c \in InCloudOnce'
      BY <1>24 DEF InCloudOnce, Tagged, Mark
    <2>3. CloudCovered'
      <3>1. \A j \in Ids : cloud'[j].body \in {cloud[j].body, c}
        BY <1>0, <1>24 DEF Store, TypeInv, TypeOK, CloudTypeOK
      <3> QED
        BY <2>1, <2>2, <3>1, CoveredGrows DEF SurvivalInv, CloudCovered
    <2> QED
      BY <1>23, <1>24, <2>1, <2>3
  <1>25. ASSUME NEW i \in Ids, NEW c \in Content,
                \/ \E p \in Paths : RemoteCreate(i, p, c)
                \/ RemoteCreateAwkward(i, c)
                \/ RemoteEdit(i, c)
         PROVE  Goal'
    BY <1>24, <1>25 DEF RemoteCreate, RemoteCreateAwkward, RemoteEdit
  <1>26. ASSUME NEW i \in Ids,
                \/ \E p \in Paths : RemoteCreateFolder(i, p)
                \/ \E p \in Paths \cup {Elsewhere} : RemoteMove(i, p)
                \/ RemoteDelete(i)
         PROVE  Goal'
    <2>1. ledger \subseteq ledger' /\ Tagged("lost")' = Tagged("lost") /\ ByClient
      BY <1>26 DEF RemoteCreateFolder, RemoteMove, RemoteDelete, Tagged
    <2>2. \A j \in Ids : cloud'[j].body \in {cloud[j].body, None}
      <3>1. cloud \in [Ids -> Item]
        BY <1>0 DEF TypeInv, TypeOK, CloudTypeOK
      <3>2. CASE \E p \in Paths : RemoteCreateFolder(i, p)
        BY <3>1, <3>2 DEF RemoteCreateFolder, Store
      <3>3. CASE \E p \in Paths \cup {Elsewhere} : RemoteMove(i, p)
        BY <3>1, <3>3 DEF RemoteMove, Store
      <3>4. CASE RemoteDelete(i)
        BY <3>1, <3>4 DEF RemoteDelete, Drop, Item
      <3> QED
        BY <1>26, <3>2, <3>3, <3>4
    <2>3. CloudCovered'
      BY <2>1, <2>2, CoveredGrows DEF SurvivalInv, CloudCovered
    <2> QED
      BY <1>23, <2>1, <2>3
  <1>27. CASE UNCHANGED vars
    BY <1>27, ElsewhereStep DEF vars, Tagged
  <1>28. CASE Daemon
    BY <1>1, <1>2, <1>3, <1>4, <1>5, <1>6, <1>7, <1>8, <1>9, <1>10, <1>12, <1>13,
       <1>14, <1>15, <1>16, <1>17, <1>18, <1>19, <1>28
    DEF Daemon, LocalEvents, RunCycle, Apply
  <1>29. CASE User \/ NextSecond
    BY <1>20, <1>21, <1>22, <1>29, <1>22a DEF User
  <1>30. CASE Clients
    BY <1>25, <1>26, <1>30 DEF Clients
  <1> QED
    BY <1>27, <1>28, <1>29, <1>30 DEF Next

(* The inductive invariant holds in every state the daemon can reach.      *)
THEOREM SurvivalInvariant == Spec => []SurvivalInv
  BY InitSurvivalInv, NextSurvivalInv, PTL DEF Spec

(* The daemon never destroys a local edit that the cloud does not have,    *)
(* unless it was saved while its path was at stake: apply_download and     *)
(* apply_delete_local do not look at the file again.                       *)
THEOREM EditsSurvive == Spec => []EditsOutsideWindowSurvive
  <1>1. SurvivalInv => EditsOutsideWindowSurvive
    BY DEF SurvivalInv
  <1> QED
    BY <1>1, SurvivalInvariant, PTL
=============================================================================
