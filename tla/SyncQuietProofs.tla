--------------------------- MODULE SyncQuietProofs ---------------------------
(***************************************************************************)
(* When it is quiet, files and items agree, for any tree, contents, items  *)
(* and surroundings.                                                       *)
(***************************************************************************)
EXTENDS SyncEchoProofs

(* The one change a step may make to the drive: item i gets a position of  *)
(* its own, and a content it had before, or that nobody had, or that the   *)
(* daemon sends.                                                           *)
CloudMove(i) ==
    /\ clock' = clock + 1 /\ cloud'[i].rev = clock + 1 /\ cloud'[i].state # "free"
    /\ \A j \in Ids \ {i} : cloud'[j] = cloud[j]
    /\ LiveFile(i)' =>
         \/ LiveFile(i) /\ cloud'[i].body = cloud[i].body
         \/ Unused(cloud'[i].body)
         \/ /\ Send
            /\ cloud'[i].body = local[Act.path]
            /\ i \in FreeIds \/ Act.kind = "update" \/ Provider = "onedrive"

LEMMA StoreMove ==
  ASSUME TypeInv, NEW i \in Ids, NEW folder, NEW body, NEW path, NEW parent,
         Store(i, folder, body, path, parent),
         \/ folder
         \/ LiveFile(i) /\ body = cloud[i].body
         \/ Unused(body)
         \/ /\ Send /\ body = local[Act.path]
            /\ i \in FreeIds \/ Act.kind = "update" \/ Provider = "onedrive"
  PROVE  CloudMove(i)
  <1>1. /\ cloud' = [cloud EXCEPT ![i] =
                       [state |-> "live", folder |-> folder, body |-> body,
                        path |-> path, parent |-> parent, rev |-> clock + 1]]
        /\ clock' = clock + 1
        /\ cloud \in [Ids -> Item]
    BY DEF Store, TypeInv, TypeOK, CloudTypeOK
  <1>2. \A j \in Ids \ {i} : cloud'[j] = cloud[j]
    BY <1>1
  <1>3. /\ cloud'[i].rev = clock + 1 /\ cloud'[i].state = "live" /\ cloud'[i].body = body
        /\ cloud'[i].folder = folder
    BY <1>1
  <1> QED
    BY <1>1, <1>2, <1>3 DEF CloudMove, LiveFile

LEMMA DropMove ==
  ASSUME TypeInv, NEW i \in Ids, Drop(i)
  PROVE  CloudMove(i)
  <1>1. /\ cloud' = [cloud EXCEPT ![i] = [cloud[i] EXCEPT !.state = "gone", !.rev = clock + 1]]
        /\ clock' = clock + 1
    BY Zenon DEF Drop
  <1>2. cloud \in [Ids -> Item]
    BY DEF TypeInv, TypeOK, CloudTypeOK
  <1>3. \A j \in Ids \ {i} : cloud'[j] = cloud[j]
    BY <1>1, <1>2
  <1>4. cloud'[i].rev = clock + 1 /\ cloud'[i].state = "gone"
    BY <1>1, <1>2 DEF Item
  <1> QED
    BY <1>1, <1>3, <1>4 DEF CloudMove, LiveFile, Live

LEMMA NextCloud ==
  ASSUME TypeInv, [Next]_vars
  PROVE  UNCHANGED <<cloud, clock>> \/ \E i \in Ids : CloudMove(i)
  <1> DEFINE Goal == UNCHANGED <<cloud, clock>> \/ \E i \in Ids : CloudMove(i)
  <1> USE DEF cloudVars
  <1>1. CASE CreateFolder
    <2>1. PICK i \in FreeIds : Store(i, TRUE, None, LandingOfNew, Act.parent)
      BY <1>1 DEF CreateFolder
    <2> QED
      BY <2>1, StoreMove DEF FreeIds
  <1>2. CASE Send
    <2>1. PICK t \in Targets : Store(t[1], FALSE, local[Act.path], t[2], t[3])
      BY <1>2 DEF Send
    <2>2. t[1] \in Ids /\ (t[1] \in FreeIds \/ Act.kind = "update" \/ Provider = "onedrive")
      BY DEF Targets, FreeIds, LiveAt
    <2> QED
      BY <1>2, <2>1, <2>2, StoreMove
  <1>3. ASSUME NEW i \in Ids, NEW c \in Content,
               (\E p \in Paths : RemoteCreate(i, p, c)) \/ RemoteCreateAwkward(i, c) \/ RemoteEdit(i, c)
        PROVE  Goal
    <2>1. PICK path, parent : Store(i, FALSE, c, path, parent)
      BY <1>3 DEF RemoteCreate, RemoteCreateAwkward, RemoteEdit
    <2>2. Unused(c)
      BY <1>3 DEF RemoteCreate, RemoteCreateAwkward, RemoteEdit
    <2> QED
      BY <2>1, <2>2, StoreMove
  <1>4. ASSUME NEW i \in Ids, NEW p \in Paths, RemoteCreateFolder(i, p) PROVE Goal
    <2>1. PICK parent : Store(i, TRUE, None, p, parent)
      BY <1>4 DEF RemoteCreateFolder
    <2> QED
      BY <2>1, StoreMove
  <1>5. ASSUME NEW i \in Ids, NEW p \in Paths \cup {Elsewhere}, RemoteMove(i, p) PROVE Goal
    <2>1. PICK parent : Store(i, FALSE, cloud[i].body, p, parent)
      BY <1>5 DEF RemoteMove
    <2>2. LiveFile(i)
      BY <1>5 DEF RemoteMove
    <2> QED
      BY <2>1, <2>2, StoreMove
  <1>6. ASSUME NEW i \in Ids, RemoteDelete(i) PROVE Goal
    BY <1>6, DropMove DEF RemoteDelete
  <1>7. CASE Clients
    BY <1>3, <1>4, <1>5, <1>6, <1>7 DEF Clients
  <1>8. CASE User \/ NextSecond
    BY <1>8
    DEF User, UserWrite, UserMakeDir, UserRemove, FileTouched, ByUser, SetPaused, RemovePair,
        NextSecond
  <1>9. CASE RefreshWatchers \/ LocalEvents \/ BeginPoll \/ RunCycle
    BY <1>9
    DEF RefreshWatchers, LocalEvents, IgnoreEvent, LoseEvent, TakeEvent, Deliver, BeginPoll,
        RunCycle, List, ClassifyChange, CycleFails, CommitCursor
  <1>10. CASE Apply
    BY <1>1, <1>2, <1>10
    DEF Apply, MoveAside, MakeFolder, Fetch, Install, Record, DeleteLocal, ActionFails
  <1>11. CASE UNCHANGED vars
    BY <1>11 DEF vars
  <1> QED
    BY <1>7, <1>8, <1>9, <1>10, <1>11 DEF Next, Daemon

-----------------------------------------------------------------------------
(* What a step does to the task, the transfer under way and the rows.      *)

(* Only listing, ending a cycle and removing the pair move the position up *)
(* to which the feed is read; the end of an action that brings a file      *)
(* records it or reports the failure.                                      *)
LEMMA NextTask ==
  ASSUME TypeInv, [Next]_vars
  PROVE  \/ List \/ CycleFails \/ CommitCursor
         \/ \E ch \in batch : ClassifyChange(ch)
         \/ \E p \in Paths : TakeEvent(p)
         \/ /\ UNCHANGED <<batch, todo, newCursor>> /\ (cursor' = cursor \/ cursor' = None)
            /\ phase' = phase \/ (phase # "classify" /\ phase' # "classify")
         \/ /\ Working /\ Finish /\ UNCHANGED <<batch, newCursor, cursor>>
            /\ Record \/ ~Brings(Act) \/ Act.folder \/ Unserved \subseteq ledger'
  <1> USE DEF engineVars, dbVars
  <1>1. CASE User \/ Clients \/ NextSecond
    BY <1>1
    DEF User, UserWrite, UserMakeDir, UserRemove, FileTouched, ByUser, SetPaused, RemovePair,
        RemovePairRow, Clients, RemoteCreate, RemoteCreateAwkward, RemoteCreateFolder,
        RemoteEdit, RemoteDelete, RemoteMove, ByClient, NextSecond
  <1>2. CASE RefreshWatchers \/ LocalEvents \/ BeginPoll
    BY <1>2
    DEF RefreshWatchers, LocalEvents, IgnoreEvent, LoseEvent, Deliver, BeginPoll, Idle
  <1>3. CASE RunCycle
    BY <1>3 DEF RunCycle
  <1>4. CASE MoveAside \/ Fetch \/ ActionFails
    BY <1>4
    DEF MoveAside, CanMoveAside, Fetch, CanFetch, Cleared, ActionFails, Working, Finish
  <1>5. CASE MakeFolder \/ CreateFolder \/ DeleteLocal
    BY <1>5
    DEF MakeFolder, CanMakeFolder, Cleared, CreateFolder, CanCreateFolder, DeleteLocal,
        CanDeleteLocal, Working, Brings
  <1>6. CASE Install
    BY <1>6 DEF Install, CanInstall
  <1>7. CASE Record
    BY <1>7 DEF Record, CanRecord, Working
  <1>8. CASE Send
    <2>1. /\ Working /\ ~Brings(Act) /\ UNCHANGED <<batch, newCursor, cursor>>
          /\ phase = "apply"
          /\ (phase' = "sent" /\ UNCHANGED todo) \/ Finish
      BY <1>8 DEF Send, CanSend, Working, Brings
    <2> QED
      BY <2>1
  <1>9. CASE UNCHANGED vars
    BY <1>9 DEF vars
  <1> QED
    BY <1>1, <1>2, <1>3, <1>4, <1>5, <1>6, <1>7, <1>8, <1>9 DEF Next, Daemon, Apply

LEMMA NextTransfer ==
  ASSUME TypeInv, [Next]_vars
  PROVE  \/ phase' \notin {"fetched", "installed", "sent"}
         \/ UNCHANGED <<phase, todo, got>>
         \/ Install /\ UNCHANGED <<todo, got>>
         \/ /\ Fetch /\ phase' = "fetched" /\ UNCHANGED <<todo, cloud>>
            /\ Act.id \in Ids /\ LiveFile(Act.id)
            /\ got' = [id |-> Act.id, hash |-> Act.hash, body |-> cloud[Act.id].body]
         \/ /\ phase = "apply" /\ phase' = "sent" /\ UNCHANGED <<todo, local, cursor>>
            /\ got'.hash = local[Act.path] /\ got'.id \in Ids /\ cloud'[got'.id].rev = clock + 1
  <1> USE DEF engineVars
  <1>1. CASE User \/ Clients \/ NextSecond
    BY <1>1
    DEF User, UserWrite, UserMakeDir, UserRemove, FileTouched, ByUser, SetPaused, RemovePair,
        Clients, RemoteCreate, RemoteCreateAwkward, RemoteCreateFolder, RemoteEdit, RemoteDelete,
        RemoteMove, ByClient, NextSecond
  <1>2. CASE RefreshWatchers \/ LocalEvents \/ BeginPoll
    BY <1>2
    DEF RefreshWatchers, LocalEvents, IgnoreEvent, LoseEvent, TakeEvent, Deliver, BeginPoll, Idle
  <1>3. CASE RunCycle
    BY <1>3 DEF RunCycle, List, ClassifyChange, CycleFails, CommitCursor
  <1>4. CASE MoveAside \/ ActionFails \/ MakeFolder \/ CreateFolder \/ DeleteLocal \/ Record
    BY <1>4
    DEF MoveAside, ActionFails, MakeFolder, CreateFolder, DeleteLocal, Record, Finish
  <1>5. CASE Install
    BY <1>5 DEF Install
  <1>6. CASE Fetch
    BY <1>6 DEF Fetch, Finish, cloudVars
  <1>7. CASE Send
    <2>1. PICK t \in Targets :
            /\ Store(t[1], FALSE, local[Act.path], t[2], t[3])
            /\ \/ /\ phase' = "sent" /\ UNCHANGED todo
                  /\ got' = [id |-> t[1], hash |-> local[Act.path], body |-> None]
               \/ Finish
      BY <1>7 DEF Send
    <2>2. t[1] \in Ids
      BY DEF Targets, FreeIds, LiveAt
    <2>3. cloud'[t[1]].rev = clock + 1
      BY <2>1, <2>2 DEF Store, TypeInv, TypeOK, CloudTypeOK
    <2>4. phase = "apply" /\ UNCHANGED <<local, cursor>>
      BY <1>7 DEF Send, CanSend, folderVars, dbVars
    <2> QED
      BY <2>1, <2>2, <2>3, <2>4 DEF Finish
  <1>8. CASE UNCHANGED vars
    BY <1>8 DEF vars
  <1> QED
    BY <1>1, <1>2, <1>3, <1>4, <1>5, <1>6, <1>7, <1>8 DEF Next, Daemon, Apply

(* A row is recorded after a transfer, or for a folder, or taken away.     *)
LEMMA NextRow ==
  ASSUME TypeInv, NamesInv, TodoTrue, TransferTraced, [Next]_vars, NEW p \in Paths
  PROVE  \/ row'[p] = row[p]
         \/ row'[p].id = None
         \/ /\ row'[p].id \in Ids /\ cloud'[row'[p].id].folder
            /\ row'[p].rhash = None
         \/ Record /\ p = Act.path
  <1> USE DEF dbVars
  <1>0. row \in [Paths -> Row]
    BY DEF TypeInv, TypeOK, DbTypeOK
  <1>a. CASE RemovePair
    BY <1>a DEF RemovePair, RemovePairRow, NoRow
  <1>1. CASE User \/ Clients \/ NextSecond
    BY <1>1, <1>a
    DEF User, UserWrite, UserMakeDir, UserRemove, FileTouched, ByUser, SetPaused, Clients,
        RemoteCreate, RemoteCreateAwkward, RemoteCreateFolder, RemoteEdit, RemoteDelete,
        RemoteMove, ByClient, NextSecond
  <1>2. CASE RefreshWatchers \/ LocalEvents \/ BeginPoll \/ RunCycle
    BY <1>2
    DEF RefreshWatchers, LocalEvents, IgnoreEvent, LoseEvent, TakeEvent, Deliver, BeginPoll,
        RunCycle, List, ClassifyChange, CycleFails, CommitCursor
  <1>3. CASE MoveAside \/ Fetch \/ ActionFails \/ Install \/ Send
    BY <1>3 DEF MoveAside, Fetch, ActionFails, Install, Send
  <1>4. CASE MakeFolder
    <2>1. /\ phase \in {"moved", "apply"} /\ Working /\ Brings(Act) /\ Act.folder /\ UNCHANGED cloud
      BY <1>4 DEF MakeFolder, CanMakeFolder, Cleared, Working, Brings, cloudVars
    <2>2. Act.id \in Ids /\ cloud[Act.id].folder
      BY <2>1, ActDecided DEF TodoTrue, Claims, Sends, Brings, Bodiless
    <2>3. row'[p] = row[p] \/ (row'[p].id = Act.id /\ row'[p].rhash = None)
      BY <1>0, <1>4 DEF MakeFolder, RecordFileState
    <2> QED
      BY <2>1, <2>2, <2>3
  <1>5. CASE CreateFolder
    <2>1. PICK i \in FreeIds :
            /\ Store(i, TRUE, None, LandingOfNew, Act.parent)
            /\ RecordSynced(Act.path, i, None, None) \/ UNCHANGED row
      BY <1>5 DEF CreateFolder
    <2>2. i \in Ids /\ cloud'[i].folder
      BY <2>1 DEF Store, FreeIds, TypeInv, TypeOK, CloudTypeOK
    <2>3. row'[p] = row[p] \/ (row'[p].id = i /\ row'[p].rhash = None)
      BY <1>0, <2>1 DEF RecordSynced, RecordFileState
    <2> QED
      BY <2>2, <2>3
  <1>6. CASE DeleteLocal
    BY <1>0, <1>6 DEF DeleteLocal, RemoveFileRecord, NoRow
  <1>7. CASE Record
    BY <1>0, <1>7 DEF Record, RecordFileState
  <1>8. CASE UNCHANGED vars
    BY <1>8 DEF vars
  <1> QED
    BY <1>1, <1>2, <1>3, <1>4, <1>5, <1>6, <1>7, <1>8 DEF Next, Daemon, Apply

(* An action was there before, or was just decided.                        *)
LEMMA NextAction ==
  ASSUME TypeInv, [Next]_vars, NEW k \in DOMAIN todo'
  PROVE  \/ \E j \in DOMAIN todo : todo'[k] = todo[j]
         \/ \E p \in Paths : TakeEvent(p) /\ todo'[k] = LocalAction(p)
         \/ \E ch \in batch : /\ ClassifyChange(ch)
                              /\ \E p \in PathsFor(ch) : todo'[k] = RemoteAction(p, ch)
  <1>0. todo \in Seq(Action)
    BY DEF TypeInv, TypeOK, EngineTypeOK
  <1>1. CASE todo' = todo \/ todo' = <<>>
    BY <1>1
  <1>2. CASE Working /\ todo' = Tail(todo)
    <2>1. todo # <<>>
      BY <1>2 DEF TypeInv, TaskInv
    <2>2. k + 1 \in DOMAIN todo /\ todo'[k] = todo[k + 1]
      BY <1>0, <1>2, <2>1
    <2> QED
      BY <2>2
  <1>3. ASSUME NEW p \in Paths, TakeEvent(p) PROVE TakeEvent(p) /\ todo'[k] = LocalAction(p)
    <2>1. todo' = <<LocalAction(p)>>
      BY <1>3 DEF TakeEvent
    <2> QED
      BY <1>3, <2>1
  <1>4. ASSUME NEW ch \in batch, ClassifyChange(ch)
        PROVE  \/ \E j \in DOMAIN todo : todo'[k] = todo[j]
               \/ \E p \in PathsFor(ch) : todo'[k] = RemoteAction(p, ch)
    <2>1. CASE todo' = todo
      BY <2>1
    <2>2. ASSUME NEW p \in PathsFor(ch), todo' = Append(todo, RemoteAction(p, ch))
          PROVE  \/ \E j \in DOMAIN todo : todo'[k] = todo[j]
                 \/ todo'[k] = RemoteAction(p, ch)
      BY <1>0, <2>2, AppendElement
    <2> QED
      BY <1>4, <2>1, <2>2 DEF ClassifyChange, Queue
  <1> QED
    BY <1>1, <1>2, <1>3, <1>4, NextDecisions

LEMMA NextBatch ==
  ASSUME TypeInv, [Next]_vars
  PROVE  batch' \subseteq batch \/ List
  <1>1. CASE CycleFails \/ CommitCursor \/ (\E ch \in batch : ClassifyChange(ch))
             \/ (\E p \in Paths : TakeEvent(p))
    BY <1>1 DEF CycleFails, CommitCursor, ClassifyChange, TakeEvent, Deliver
  <1> QED
    BY <1>1, NextTask

-----------------------------------------------------------------------------
(* Positions.                                                              *)

LEMMA NextRevs ==
  ASSUME TypeInv, RevsPast, [Next]_vars
  PROVE  RevsPast' /\ FreeIds' \subseteq FreeIds
  <1>0. clock \in Nat /\ cloud \in [Ids -> Item] /\ \A i \in Ids : cloud[i].rev \in Nat
    BY DEF TypeInv, TypeOK, CloudTypeOK, Item
  <1>1. CASE UNCHANGED <<cloud, clock>>
    BY <1>1 DEF RevsPast, FreeIds
  <1>2. ASSUME NEW i \in Ids, CloudMove(i) PROVE RevsPast' /\ FreeIds' \subseteq FreeIds
    <2>1. /\ clock' = clock + 1 /\ cloud'[i].rev = clock + 1 /\ cloud'[i].state # "free"
          /\ \A j \in Ids \ {i} : cloud'[j] = cloud[j]
      BY <1>2 DEF CloudMove
    <2>2. RevsPast'
      BY <1>0, <2>1 DEF RevsPast
    <2> QED
      BY <2>1, <2>2 DEF FreeIds
  <1> QED
    BY <1>1, <1>2, NextCloud

(* An item that changes is beyond whatever has been read.                  *)
LEMMA ChangedIsUnheard ==
  ASSUME TypeInv, CursorInv, [Next]_vars, NEW i \in Ids, cloud'[i] # cloud[i]
  PROVE  /\ cloud'[i].rev = clock + 1
         /\ \A c \in {Heard, cursor, None} : c = None \/ cloud'[i].rev > c
  <1>1. cloud'[i].rev = clock + 1
    BY NextCloud DEF CloudMove
  <1>2. /\ clock \in Nat /\ cursor \in Nat \cup {None}
        /\ Heard # None => Heard \in Nat /\ Heard <= clock
        /\ cursor # None => cursor <= clock
    BY DEF TypeInv, TypeOK, CloudTypeOK, DbTypeOK, CursorInv, Heard
  <1> QED
    BY <1>1, <1>2

LEMMA NextHeard ==
  ASSUME TypeInv, CursorInv, [Next]_vars, ~List, ~CycleFails
  PROVE  Heard' = Heard \/ Heard' = None
  <1>1. CASE CommitCursor
    <2>1. present \in BOOLEAN
      BY DEF TypeInv, TypeOK, DbTypeOK
    <2>2. CASE present
      BY <1>1, <2>2 DEF CommitCursor, SetChangeCursor, Heard
    <2>3. CASE ~present
      BY <1>1, <2>3 DEF CommitCursor, SetChangeCursor, Heard, CursorInv
    <2> QED
      BY <2>1, <2>2, <2>3
  <1>2. ASSUME NEW ch \in batch, ClassifyChange(ch) PROVE Heard' = Heard
    BY <1>2 DEF ClassifyChange, dbVars, Heard
  <1>3. ASSUME NEW p \in Paths, TakeEvent(p) PROVE Heard' = Heard
    BY <1>3 DEF TakeEvent, Deliver, Idle, dbVars, Heard
  <1>4. CASE Working /\ Finish /\ UNCHANGED <<batch, newCursor, cursor>>
    BY <1>4 DEF Working, Finish, Heard
  <1>5. CASE /\ UNCHANGED <<batch, todo, newCursor>> /\ (cursor' = cursor \/ cursor' = None)
             /\ phase' = phase \/ (phase # "classify" /\ phase' # "classify")
    BY <1>5 DEF Heard
  <1> QED
    BY <1>1, <1>2, <1>3, <1>4, <1>5, NextTask

LEMMA UnheardKept ==
  ASSUME TypeInv, CursorInv, [Next]_vars, ~List, ~CycleFails, NEW i \in Ids,
         Unheard(i, Heard) \/ cloud'[i] # cloud[i]
  PROVE  Unheard(i, Heard)'
  <1>1. Heard' = Heard \/ Heard' = None
    BY NextHeard
  <1>2. CASE cloud'[i] # cloud[i]
    BY <1>1, <1>2, ChangedIsUnheard DEF Unheard
  <1>3. CASE cloud'[i] = cloud[i] /\ Unheard(i, Heard)
    BY <1>1, <1>3 DEF Unheard
  <1> QED
    BY <1>2, <1>3

(* What was listed stays how it was listed, or changes and is heard of.    *)
LEMMA ListedKept ==
  ASSUME TypeInv, CursorInv, [Next]_vars, ~List, ~CycleFails,
         NEW i \in Ids, NEW hash, NEW path, AsListed(i, hash, path)
  PROVE  AsListed(i, hash, path)'
  <1>1. CASE cloud'[i] = cloud[i]
    BY <1>1, UnheardKept DEF AsListed, LiveFile, Live
  <1>2. CASE cloud'[i] # cloud[i]
    BY <1>2, UnheardKept DEF AsListed
  <1> QED
    BY <1>1, <1>2

-----------------------------------------------------------------------------
(* Every step keeps the parts of QuietInv.                                 *)

LEMMA NextTaken ==
  ASSUME TypeInv, RemoteInv, NamesInv, TodoTrue, RevsPast, IdsTaken, [Next]_vars
  PROVE  IdsTaken'
  <1>1. RevsPast' /\ FreeIds' \subseteq FreeIds /\ FreeBlank' /\ clock \in Nat
    BY NextRevs, NextNames DEF NamesInv, TypeInv, TypeOK, CloudTypeOK
  <1>2. ASSUME NEW i, Taken(i) PROVE Taken(i)'
    BY <1>1, <1>2 DEF Taken
  <1>3. ASSUME NEW i, i \notin Ids \/ cloud'[i].folder \/ cloud'[i].rev = clock + 1
        PROVE  Taken(i)'
    BY <1>1, <1>3 DEF Taken, FreeBlank, FreeIds, RevsPast
  <1>4. ASSUME NEW p \in Paths, NEW i, row'[p].id = i PROVE Taken(i)'
    <2>1. CASE row'[p] = row[p]
      BY <1>2, <1>4, <2>1 DEF IdsTaken
    <2>2. CASE i = None \/ cloud'[i].folder
      BY <1>3, <2>2, SyncAssumption
    <2>3. CASE Record /\ p = Act.path
      <3>1. phase \in {"installed", "sent"} /\ i = got.id
        BY <1>4, <2>3 DEF Record, CanRecord, RecordFileState, TypeInv, TypeOK, DbTypeOK
      <3> QED
        BY <1>2, <3>1 DEF IdsTaken
    <2> QED
      BY <1>4, <2>1, <2>2, <2>3, NextRow DEF RemoteInv
  <1>5. ASSUME NEW ch \in batch', NEW i, ch.id = i PROVE Taken(i)'
    <2>1. CASE ch \in batch
      BY <1>2, <1>5, <2>1 DEF IdsTaken
    <2>2. CASE List
      <3>1. batch' = ListChanges(cursor) /\ UNCHANGED cloud
        BY <2>2 DEF List, cloudVars
      <3>2. i \in Ids /\ cloud[i].rev > Since(cursor)
        BY <1>5, <3>1 DEF ListChanges, ChangeOf
      <3>3. Since(cursor) \in Nat
        BY <1>1 DEF Since, TypeInv, TypeOK, DbTypeOK
      <3>4. cloud[i].rev \in Nat /\ cloud[i].rev # 0
        BY <3>2, <3>3 DEF TypeInv, TypeOK, CloudTypeOK, Item
      <3>5. Taken(i)
        BY <3>2, <3>4 DEF Taken, FreeIds, RevsPast
      <3> QED
        BY <1>2, <3>5
    <2> QED
      BY <2>1, <2>2, NextBatch
  <1>6. ASSUME NEW k \in DOMAIN todo', NEW i, todo'[k].id = i PROVE Taken(i)'
    <2>1. ASSUME NEW j \in DOMAIN todo, todo'[k] = todo[j] PROVE Taken(i)'
      BY <1>2, <1>6, <2>1 DEF IdsTaken
    <2>2. ASSUME NEW p \in Paths, todo'[k] = LocalAction(p) PROVE Taken(i)'
      BY <1>2, <1>6, <2>2 DEF IdsTaken, LocalAction
    <2>3. ASSUME NEW ch \in batch, NEW p, todo'[k] = RemoteAction(p, ch) PROVE Taken(i)'
      BY <1>2, <1>6, <2>3 DEF IdsTaken, RemoteAction
    <2> QED
      BY <2>1, <2>2, <2>3, NextAction
  <1>7. ASSUME phase' \in {"fetched", "installed", "sent"}, NEW i, got'.id = i PROVE Taken(i)'
    <2>1. CASE UNCHANGED got /\ phase \in {"fetched", "installed", "sent"}
      BY <1>2, <1>7, <2>1 DEF IdsTaken
    <2>2. CASE Fetch /\ got'.id = Act.id
      <3>1. Working
        BY <2>2 DEF Fetch, CanFetch, Cleared, Working
      <3> QED
        BY <1>2, <1>7, <2>2, <3>1, ActDecided DEF IdsTaken
    <2>3. CASE got'.id \in Ids /\ cloud'[got'.id].rev = clock + 1
      BY <1>3, <1>7, <2>3
    <2> QED
      BY <1>7, <2>1, <2>2, <2>3, NextTransfer DEF Install, CanInstall
  <1> QED
    BY <1>4, <1>5, <1>6, <1>7 DEF IdsTaken, Taken, FreeIds

LEMMA NextDecisionsHeard ==
  ASSUME TypeInv, RemoteInv, NamesInv, BatchTrue, DecisionsHeard, [Next]_vars
  PROVE  DecisionsHeard'
  <1>0. CursorInv /\ Lasting
    BY NextNames DEF RemoteInv
  <1>1. CASE CycleFails
    BY <1>1 DEF CycleFails, DecisionsHeard
  <1>2. CASE List
    <2>1. batch' = ListChanges(cursor) /\ todo' = <<>> /\ UNCHANGED cloud
      BY <1>2 DEF List, TypeInv, TaskInv, cloudVars
    <2>2. ASSUME NEW i \in Ids, NEW ch, ch = ChangeOf(i), LiveFile(i)
          PROVE  ch.id = i /\ ch.hash = cloud[i].body /\ ch.path = cloud[i].path
      BY <2>2 DEF ChangeOf, LiveFile, Live
    <2>3. ASSUME NEW ch \in batch', LiveFile(ch.id)'
          PROVE  cloud'[ch.id].body = ch.hash /\ cloud'[ch.id].path = ch.path
      <3>1. PICK i \in Ids : ch = ChangeOf(i)
        BY <2>1 DEF ListChanges
      <3>2. ch.id = i
        BY <3>1 DEF ChangeOf
      <3> QED
        BY <2>1, <2>2, <2>3, <3>1, <3>2 DEF LiveFile, Live
    <2> QED
      BY <2>1, <2>3 DEF DecisionsHeard, AsListed
  <1>3. CASE ~CycleFails /\ ~List
    <2>1. ASSUME NEW i \in Ids, NEW hash, NEW path, AsListed(i, hash, path)
          PROVE  AsListed(i, hash, path)'
      BY <1>0, <1>3, <2>1, ListedKept
    <2>2. \A ch \in batch : ch.id \in Ids
      BY DEF TypeInv, TypeOK, EngineTypeOK, Change
    <2>3. ASSUME NEW ch \in batch', NEW i, NEW h, NEW p, i = ch.id, h = ch.hash, p = ch.path
          PROVE  AsListed(i, h, p)'
      <3>1. ch \in batch
        BY <1>3, NextBatch
      <3>2. AsListed(i, h, p) /\ i \in Ids
        BY <2>2, <2>3, <3>1 DEF DecisionsHeard
      <3> QED
        BY <2>1, <3>2
    <2>4. ASSUME NEW k \in DOMAIN todo', NEW i, NEW h, NEW p,
                 i = todo'[k].id, h = todo'[k].hash, p = todo'[k].path
          PROVE  /\ Brings(todo'[k]) => i \in Ids /\ AsListed(i, h, p)'
                 /\ todo'[k].kind = "delete" => i \in Ids /\ cloud'[i].state = "gone"
      <3>1. ASSUME NEW j \in DOMAIN todo, todo'[k] = todo[j]
            PROVE  /\ Brings(todo'[k]) => i \in Ids /\ AsListed(i, h, p)'
                   /\ todo'[k].kind = "delete" => i \in Ids /\ cloud'[i].state = "gone"
        <4>1. Brings(todo[j]) => i \in Ids /\ AsListed(i, h, p)
          BY <2>4, <3>1 DEF DecisionsHeard
        <4>2. todo[j].kind = "delete" => i \in Ids /\ cloud[i].state = "gone"
          BY <2>4, <3>1 DEF DecisionsHeard
        <4>3. todo[j].kind = "delete" => i \in Ids /\ cloud'[i].state = "gone"
          BY <1>0, <4>2 DEF Lasting
        <4>4. Brings(todo[j]) => i \in Ids /\ AsListed(i, h, p)'
          BY <2>1, <4>1
        <4> QED
          BY <3>1, <4>3, <4>4
      <3>2. ASSUME NEW q \in Paths, todo'[k] = LocalAction(q)
            PROVE  ~Brings(todo'[k]) /\ todo'[k].kind # "delete"
        BY <3>2 DEF LocalAction, Brings
      <3>3. ASSUME NEW ch \in batch, NEW q \in PathsFor(ch), todo'[k] = RemoteAction(q, ch)
            PROVE  /\ Brings(todo'[k]) => i \in Ids /\ AsListed(i, h, p)'
                   /\ todo'[k].kind = "delete" => i \in Ids /\ cloud'[i].state = "gone"
        <4>1. i = ch.id /\ h = ch.hash /\ p = q /\ i \in Ids
          BY <2>2, <2>4, <3>3 DEF RemoteAction
        <4>2. todo'[k].kind = "delete" => ch.deleted
          BY <3>3 DEF RemoteAction, Verdict
        <4>3. ch.deleted => cloud[i].state = "gone" /\ cloud'[i].state = "gone"
          BY <1>0, <4>1 DEF BatchTrue, Lasting
        <4>4. ~ch.deleted => p = ch.path
          BY <4>1 DEF PathsFor
        <4>5. AsListed(i, h, p)
          BY <4>1, <4>3, <4>4 DEF AsListed, LiveFile, Live, DecisionsHeard
        <4> QED
          BY <2>1, <4>1, <4>2, <4>3, <4>5
      <3> QED
        BY <3>1, <3>2, <3>3, NextAction
    <2>5. ASSUME NEW k \in DOMAIN todo'
          PROVE  /\ Brings(todo'[k]) =>
                      todo'[k].id \in Ids /\ AsListed(todo[k].id, todo[k].hash, todo[k].path)'
                 /\ todo'[k].kind = "delete" =>
                      todo'[k].id \in Ids /\ cloud'[todo'[k].id].state = "gone"
      BY <2>4 DEF AsListed
    <2>6. \A ch \in batch' : AsListed(ch.id, ch.hash, ch.path)'
      BY <2>3 DEF AsListed
    <2> QED
      BY <2>5, <2>6 DEF DecisionsHeard, Brings, AsListed
  <1> QED
    BY <1>1, <1>2, <1>3

(* A file that something else was put in the place of is the user's.       *)
LEMMA NextFile ==
  ASSUME TypeInv, StepSafe, [Next]_vars, NEW p \in Paths, local'[p] \in Content,
         phase \in {"installed", "sent"}, Act.path = p
  PROVE  local'[p] = local[p] \/ local'[p] \in Tagged("racy")'
  <1>0. local \in [Paths -> Content \cup {Absent, Dir}] /\ Content \cap {Absent, Dir} = {}
    BY LocalType, SyncAssumption
  <1>1. CASE Quietly \/ \E c \in Content : StoredThere(c)
    BY <1>1 DEF Quietly, StoredThere
  <1>2. CASE MoveAside
    BY <1>0, <1>2, MoveEffect
  <1>3. CASE Install
    BY <1>3 DEF Install, CanInstall
  <1>4. CASE Send
    BY <1>4, SendEffect
  <1>5. ASSUME NEW q \in Paths, NEW c \in Content, UserWrite(q, c)
        PROVE  local'[p] = local[p] \/ local'[p] \in Tagged("racy")'
    <2>1. local' = [local EXCEPT ![q] = c]
      BY <1>5, WriteEffect
    <2>2. CASE q = p
      <3>1. AtStake(q)
        BY <2>2 DEF AtStake
      <3>2. <<c, "racy">> \in ledger'
        <4>1. <<c, "racy">> \in Mark({c}, "racy")
          BY DEF Mark
        <4> QED
          BY <1>5, <3>1, <4>1 DEF UserWrite
      <3> QED
        BY <1>0, <2>1, <2>2, <3>2 DEF Tagged
    <2> QED
      BY <1>0, <2>1, <2>2
  <1> QED
    BY <1>1, <1>2, <1>3, <1>4, <1>5, Effects

LEMMA NextTransferHeard ==
  ASSUME TypeInv, TypeInv', StepSafe, RemoteInv, TransferHeard, [Next]_vars
  PROVE  TransferHeard'
  <1>0. /\ CursorInv /\ clock \in Nat /\ cursor \in Nat \cup {None}
        /\ local \in [Paths -> Content \cup {Absent, Dir}]
        /\ ledger \subseteq ledger' /\ Tagged("racy") \subseteq Tagged("racy")'
    BY LocalType, Effects DEF RemoteInv, TypeInv, TypeOK, CloudTypeOK, DbTypeOK, Tagged
  <1>1. CASE phase' \notin {"fetched", "installed", "sent"}
    BY <1>1 DEF TransferHeard
  <1>2. CASE UNCHANGED <<phase, todo, got>> /\ phase \in {"fetched", "installed", "sent"}
    <2>1. Act' = Act /\ Working /\ Act.path \in Paths
      BY <1>2, ActDecided DEF Act, Working
    <2>2. ASSUME phase \in {"fetched", "installed"}
          PROVE  /\ got'.id = Act'.id /\ got'.hash = Act'.hash
                 /\ LiveFile(Act.id)' /\ cloud'[Act'.id].body = got'.hash => got'.body = got'.hash
      <3>0. Act.id \in Ids /\ got.id = Act.id /\ got.hash = Act.hash
        BY <2>2 DEF TransferHeard, RemoteInv, TransferTraced
      <3> SUFFICES ASSUME NEW i \in Ids, i = Act.id, LiveFile(i)', cloud'[i].body = got.hash
                   PROVE  got.body = got.hash
        BY <1>2, <2>1, <3>0 DEF LiveFile, Live
      <3>1. LiveFile(i) /\ cloud[i].body = got.hash => got.body = got.hash
        BY <2>2 DEF TransferHeard
      <3>2. got.hash \in Content
        BY DEF TypeInv, ContentInv
      <3>3. ~Unused(got.hash)
        <4>1. HeldOnlyBy(Act.hash, Act.id)
          BY <2>1, <2>2, ActDecided DEF RemoteInv, DecisionsTraced, TransferTraced
        <4> QED
          BY <3>0, <3>2, <4>1 DEF HeldOnlyBy, InCloudOnce, Tagged, Unused, Tags
      <3>4. ~Send
        BY <2>2 DEF Send, CanSend
      <3>5. CASE UNCHANGED <<cloud, clock>>
        BY <3>1, <3>5 DEF LiveFile, Live
      <3>6. ASSUME NEW j \in Ids, CloudMove(j) PROVE got.body = got.hash
        <4>1. CASE j = i
          BY <3>1, <3>3, <3>4, <3>6, <4>1 DEF CloudMove
        <4>2. CASE j # i
          BY <3>1, <3>6, <4>2 DEF CloudMove, LiveFile, Live
        <4> QED
          BY <4>1, <4>2
      <3> QED
        BY <3>5, <3>6, NextCloud
    <2>3. ASSUME phase = "sent" PROVE got'.id \in Ids /\ Unheard(got.id, cursor)'
      <3>1. got.id \in Ids /\ Unheard(got.id, cursor)
        BY <2>3 DEF TransferHeard
      <3>2. cursor' = cursor \/ cursor' = None
        BY <1>2, <2>3, NextTask
        DEF List, CycleFails, CommitCursor, ClassifyChange, TakeEvent, Deliver, Idle, Finish
      <3>3. cloud'[got.id] = cloud[got.id] \/ cursor = None \/ cloud'[got.id].rev > cursor
        BY <1>0, <3>1, ChangedIsUnheard
      <3> QED
        BY <1>2, <3>1, <3>2, <3>3 DEF Unheard
    <2>4. ASSUME phase \in {"installed", "sent"}, local'[Act.path] \in Content
          PROVE  local'[Act.path] = local[Act.path] \/ local'[Act.path] \in Tagged("racy")'
      BY <2>1, <2>4, NextFile
    <2>5. phase = "installed" /\ IsFile(Act.path)' =>
            local'[Act'.path] = got'.body \/ local'[Act'.path] \in Tagged("racy")'
      BY <1>0, <1>2, <2>1, <2>4 DEF TransferHeard, IsFile
    <2>6. phase = "sent" /\ IsFile(Act.path)' =>
            local'[Act'.path] = got'.hash \/ local'[Act'.path] \in Tagged("racy")'
      BY <1>0, <1>2, <2>1, <2>4 DEF TransferHeard, IsFile
    <2> QED
      BY <1>2, <2>2, <2>3, <2>5, <2>6 DEF TransferHeard
  <1>3. CASE Install /\ UNCHANGED <<todo, got>>
    <2>1. /\ phase = "fetched" /\ phase' = "installed" /\ UNCHANGED cloud /\ Act' = Act
          /\ local' = [local EXCEPT ![Act.path] = got.body] /\ Act.path \in Paths
      BY <1>3, InstallEffect DEF Install, CanInstall, Act, cloudVars
    <2>2. local'[Act.path] = got.body
      BY <1>0, <2>1
    <2> QED
      BY <1>3, <2>1, <2>2 DEF TransferHeard, LiveFile, Live
  <1>4. CASE /\ Fetch /\ phase' = "fetched" /\ UNCHANGED <<todo, cloud>>
             /\ got' = [id |-> Act.id, hash |-> Act.hash, body |-> cloud[Act.id].body]
    BY <1>4 DEF TransferHeard, Act
  <1>5. CASE /\ phase = "apply" /\ phase' = "sent" /\ UNCHANGED <<todo, local, cursor>>
             /\ got'.hash = local[Act.path] /\ got'.id \in Ids /\ cloud'[got'.id].rev = clock + 1
    <2>1. Act' = Act
      BY <1>5 DEF Act
    <2>2. cursor = None \/ cloud'[got'.id].rev > cursor
      BY <1>0, <1>5 DEF CursorInv
    <2> QED
      BY <1>5, <2>1, <2>2 DEF TransferHeard, Unheard
  <1> QED
    BY <1>1, <1>2, <1>3, <1>4, <1>5, NextTransfer

(* The listing reports whatever has changed since the cursor; without one, *)
(* Drive's passes over what is there already.                              *)
LEMMA ListRows ==
  ASSUME TypeInv, RemoteInv, RevsPast, RowsHeard, List, NEW p \in Paths, InPlace(p)'
  PROVE  /\ Unheard(row[p].id, cursor)' \/ Recorded(p)'
         /\ ChangeOf(row[p].id)' \in batch' \/ Recorded(p)'
  <1>0. /\ todo = <<>> /\ phase = "due"
        /\ batch' = ListChanges(cursor)
        /\ ledger' = IF cursor # None THEN ledger
                     ELSE ledger \cup Mark({cloud[j].body : j \in
                            {j \in Ids : LiveFile(j) /\ cloud[j].rev <= Since(None)}}, "skipped")
        /\ UNCHANGED <<cloud, clock, row, cursor>>
    BY DEF List, TypeInv, TaskInv, cloudVars, dbVars
  <1>1. /\ clock \in Nat /\ cursor \in Nat \cup {None} /\ \A i \in Ids : cloud[i].rev \in Nat
        /\ ledger \subseteq ledger'
    BY <1>0 DEF TypeInv, TypeOK, CloudTypeOK, DbTypeOK, Item
  <1> DEFINE i == row[p].id
  <1>2. i \in Ids /\ LiveFile(i) /\ cloud[i].body \in Content /\ InPlace(p)
    BY <1>0 DEF InPlace, LiveFile, Live, TypeInv, ContentInv
  <1>3. Unheard(i, cursor) \/ Recorded(p)
    BY <1>0, <1>2 DEF RowsHeard, Heard, Carried
  <1>4. Recorded(p) => Recorded(p)'
    BY <1>0, <1>1 DEF Recorded, Tagged
  <1>5. CASE cloud[i].rev > Since(cursor)
    <2>1. ChangeOf(i) \in batch'
      BY <1>0, <1>2, <1>5 DEF ListChanges
    <2> QED
      BY <1>0, <1>3, <1>4, <2>1 DEF ChangeOf, Unheard
  <1>6. CASE cursor # None /\ ~(cloud[i].rev > Since(cursor))
    BY <1>3, <1>4, <1>6 DEF Since, Unheard
  <1>7. CASE cursor = None /\ ~(cloud[i].rev > Since(cursor))
    <2>1. cloud[i].rev <= Since(None)
      BY <1>1, <1>2, <1>7 DEF Since
    <2>2. <<cloud[i].body, "skipped">> \in ledger'
      BY <1>0, <1>2, <1>7, <2>1 DEF Mark
    <2>3. Recorded(p)'
      BY <1>0, <1>2, <2>2 DEF Recorded, Tagged
    <2> QED
      BY <1>0, <1>7, <2>3 DEF Unheard
  <1> QED
    BY <1>1, <1>2, <1>5, <1>6, <1>7

(* A change of the row's item says what the row says, or is decided on.    *)
LEMMA ClassifyRows ==
  ASSUME TypeInv, NEW ch \in batch, ClassifyChange(ch), NEW p \in Paths, InPlace(p),
         ch = ChangeOf(row[p].id)
  PROVE  Recorded(p) \/ Carried(row[p].id)'
  <1> DEFINE i == row[p].id
  <1>1. /\ ch.id = i /\ ~ch.deleted /\ ~ch.folder /\ ch.hash = cloud[i].body /\ ch.path = p
        /\ i \in Ids
    BY DEF ChangeOf, InPlace, LiveFile, Live
  <1>2. PathsFor(ch) = {p}
    BY <1>1 DEF PathsFor
  <1>3. todo' = Queue(p, ch) /\ todo \in Seq(Action) /\ UNCHANGED cloud /\ UNCHANGED row
    BY <1>2 DEF ClassifyChange, TypeInv, TypeOK, EngineTypeOK, cloudVars, dbVars
  <1>4. CASE ~RemoteChanged(p, ch)
    BY <1>1, <1>4 DEF RemoteChanged, Recorded
  <1>5. CASE RemoteChanged(p, ch)
    <2>1. Verdict(p, ch) \in {"conflict", "download"}
      BY <1>1, <1>5 DEF Verdict
    <2> DEFINE a == RemoteAction(p, ch)
    <2>2. Brings(a) /\ ~a.folder /\ a.id = i /\ a.hash = cloud[i].body
      BY <1>1, <2>1 DEF RemoteAction, Brings
    <2>3. todo' = Append(todo, a)
      BY <1>3, <2>1 DEF Queue
    <2> HIDE DEF a
    <2>4. Len(todo) + 1 \in DOMAIN todo' /\ todo'[Len(todo) + 1] = a
      BY <1>3, <2>3
    <2> QED
      BY <1>3, <2>2, <2>4 DEF Carried, Brings
  <1> QED
    BY <1>4, <1>5

(* The end of the action that carries an item's version.                   *)
LEMMA FinishRows ==
  ASSUME TypeInv, RemoteInv, DecisionsHeard, [Next]_vars, Working, Finish,
         Record \/ ~Brings(Act) \/ Act.folder \/ Unserved \subseteq ledger',
         NEW p \in Paths, InPlace(p), row'[p] = row[p], ~(Record /\ p = Act.path),
         LET i == row[p].id IN cloud'[i] = cloud[i] /\ Carried(i)
  PROVE  Unheard(row[p].id, Heard) \/ Recorded(p)' \/ Carried(row[p].id)'
  <1> DEFINE i == row[p].id
  <1>1. /\ todo \in Seq(Action) /\ todo # <<>> /\ todo' = Tail(todo) /\ todo[1] = Act
        /\ 1 \in DOMAIN todo
    BY ActDecided DEF TypeInv, TypeOK, EngineTypeOK, TaskInv, Finish
  <1>2. PICK k \in DOMAIN todo :
          Brings(todo[k]) /\ ~todo[k].folder /\ todo[k].id = i /\ todo[k].hash = cloud[i].body
    BY DEF Carried
  <1>3. CASE k # 1
    <2>1. k - 1 \in DOMAIN todo' /\ todo'[k - 1] = todo[k]
      BY <1>1, <1>2, <1>3
    <2> QED
      BY <1>2, <2>1 DEF Carried, Brings
  <1>4. CASE k = 1 /\ Record
    <2>1. p # Act.path
      BY <1>4
    <2>2. AsListed(Act.id, Act.hash, Act.path) /\ Act.id = i
      BY <1>1, <1>2, <1>4 DEF DecisionsHeard
    <2> QED
      BY <2>1, <2>2 DEF AsListed, InPlace
  <1>5. CASE k = 1 /\ Unserved \subseteq ledger'
    <2>1. Brings(Act) /\ Act.hash = cloud[i].body /\ cloud[i].body \in Content
      BY <1>1, <1>2, <1>5 DEF InPlace, TypeInv, ContentInv
    <2>2. <<Act.hash, "missed">> \in Unserved
      BY <2>1 DEF Unserved, FromWatcher, Brings, Mark
    <2> QED
      BY <1>5, <2>1, <2>2 DEF Recorded, Tagged
  <1> QED
    BY <1>1, <1>2, <1>3, <1>4, <1>5

LEMMA NextRowsHeard ==
  ASSUME TypeInv, TypeInv', RemoteInv, NamesInv, TodoTrue, RevsPast, DecisionsHeard,
         TransferHeard, RowsHeard, RowsMayFail, [Next]_vars
  PROVE  RowsHeard' /\ RowsMayFail'
  <1>0. /\ CursorInv /\ clock \in Nat /\ cursor \in Nat \cup {None}
        /\ ledger \subseteq ledger' /\ row \in [Paths -> Row]
        /\ todo \in Seq(Action) /\ TransferTraced
    BY Effects DEF RemoteInv, TypeInv, TypeOK, CloudTypeOK, DbTypeOK, EngineTypeOK
  <1>1. CASE List
    <2>1. UNCHANGED cursor /\ phase' = "classify"
      BY <1>1 DEF List, dbVars
    <2> QED
      BY <1>1, <2>1, ListRows DEF RowsHeard, RowsMayFail
  <1>2. ASSUME ~List, NEW p \in Paths, NEW i \in Ids, row'[p].id = i, LiveFile(i)',
               cloud'[i].path = p
        PROVE  \/ row'[p] = row[p]
               \/ Record /\ p = Act.path
    <2>1. ~cloud'[i].folder /\ i # None
      BY <1>2, SyncAssumption DEF LiveFile
    <2> QED
      BY <1>0, <1>2, <2>1, NextRow
  <1>3. ASSUME NEW p \in Paths, NEW i \in Ids, row'[p].id = i, LiveFile(i)', cloud'[i].path = p,
               row'[p] = row[p], cloud'[i] = cloud[i]
        PROVE  InPlace(p) /\ (Recorded(p) => Recorded(p)')
    <2>1. InPlace(p)
      BY <1>3 DEF InPlace, LiveFile, Live
    <2>2. Recorded(p) => Recorded(p)'
      BY <1>0, <1>3 DEF Recorded, Tagged
    <2> QED
      BY <2>1, <2>2
  <1>4. ASSUME ~List, NEW p \in Paths, NEW i \in Ids, row'[p].id = i, LiveFile(i)',
               cloud'[i].path = p, row'[p] = row[p]
        PROVE  \/ Unheard(i, Heard)' \/ Recorded(p)' \/ Carried(i)'
               \/ phase' = "classify" /\ ChangeOf(i)' \in batch'
    <2>1. CASE CycleFails
      <3>1. /\ phase \in {"due", "classify"} /\ phase' = "idle" /\ UNCHANGED <<cloud, cursor>>
        BY <2>1 DEF CycleFails, cloudVars, dbVars
      <3>2. Unheard(i, cursor) \/ Recorded(p)
        <4>1. InPlace(p) /\ row[p].id = i
          BY <1>3, <1>4, <3>1
        <4>2. CASE phase = "classify"
          BY <4>1, <4>2 DEF RowsMayFail
        <4>3. CASE phase = "due"
          BY <4>1, <4>3 DEF RowsHeard, Carried, Heard, TypeInv, TaskInv
        <4> QED
          BY <3>1, <4>2, <4>3
      <3> QED
        BY <1>3, <1>4, <3>1, <3>2 DEF Unheard, Heard
    <2>2. CASE ~CycleFails /\ (cloud'[i] # cloud[i] \/ Unheard(i, Heard))
      BY <1>0, <1>4, <2>2, UnheardKept
    <2>3. CASE ~CycleFails /\ cloud'[i] = cloud[i] /\ ~Unheard(i, Heard)
      <3>1. InPlace(p) /\ row[p].id = i /\ (Recorded(p) => Recorded(p)')
        BY <1>3, <1>4, <2>3
      <3>2. \/ Recorded(p) \/ Carried(i)
            \/ phase = "classify" /\ ChangeOf(i) \in batch
        BY <2>3, <3>1 DEF RowsHeard
      <3>3. ChangeOf(i)' = ChangeOf(i)
        BY <2>3 DEF ChangeOf
      <3>4. CASE CommitCursor
        <4>1. batch = {} /\ UNCHANGED todo
          BY <3>4 DEF CommitCursor
        <4> QED
          BY <2>3, <3>1, <3>2, <4>1 DEF Carried, Brings
      <3>5. ASSUME NEW ch \in batch, ClassifyChange(ch)
            PROVE  \/ Recorded(p)' \/ Carried(i)'
                   \/ phase' = "classify" /\ ChangeOf(i)' \in batch'
        <4>1. phase' = "classify" /\ batch' = batch \ {ch}
          BY <3>5 DEF ClassifyChange
        <4>2. CASE ChangeOf(i) \in batch
          <5>1. CASE ChangeOf(i) # ch
            BY <3>3, <4>1, <4>2, <5>1
          <5>2. CASE ChangeOf(i) = ch
            <6>1. Recorded(p) \/ Carried(row[p].id)'
              BY <3>1, <3>5, <5>2, ClassifyRows
            <6>2. row'[p].id = i
              BY <1>4
            <6>3. Carried(row[p].id)' => Carried(i)'
              BY <6>2 DEF Carried, Brings
            <6> QED
              BY <3>1, <6>1, <6>3
          <5> QED
            BY <5>1, <5>2
        <4>3. CASE Carried(i)
          <5>1. \A k \in DOMAIN todo : k \in DOMAIN todo' /\ todo'[k] = todo[k]
            BY <1>0, <3>5 DEF ClassifyChange, Queue
          <5> QED
            BY <2>3, <4>3, <5>1 DEF Carried, Brings
        <4> QED
          BY <3>1, <3>2, <4>2, <4>3
      <3>6. ASSUME NEW q \in Paths, TakeEvent(q) PROVE Recorded(p)'
        <4>1. phase = "idle" /\ todo = <<>>
          BY <3>6 DEF TakeEvent, Deliver, Idle, TypeInv, TaskInv
        <4> QED
          BY <3>1, <3>2, <4>1 DEF Carried
      <3>7. CASE /\ UNCHANGED <<batch, todo, newCursor>>
                 /\ phase' = phase \/ (phase # "classify" /\ phase' # "classify")
        BY <2>3, <3>1, <3>2, <3>3, <3>7 DEF Carried, Brings
      <3>8. CASE /\ Working /\ Finish /\ UNCHANGED <<batch, newCursor, cursor>>
                 /\ Record \/ ~Brings(Act) \/ Act.folder \/ Unserved \subseteq ledger'
        <4>1. CASE Record /\ p = Act.path
          <5>1. /\ phase \in {"installed", "sent"} /\ i = got.id /\ row'[p].rhash = got.hash
                /\ UNCHANGED <<cloud, cursor>> /\ Heard = cursor
            BY <1>0, <1>4, <4>1
            DEF Record, CanRecord, RecordFileState, cloudVars, Heard
          <5>2. CASE phase = "sent"
            BY <2>3, <5>1, <5>2 DEF TransferHeard, Unheard
          <5>3. CASE phase = "installed"
            <6>1. Brings(Act) /\ got.id = Act.id /\ got.hash = Act.hash
              BY <1>0, <5>3 DEF TransferHeard, TransferTraced
            <6>2. AsListed(Act.id, Act.hash, Act.path)
              BY <3>8, <6>1, ActDecided DEF DecisionsHeard
            <6>3. cloud[i].body = got.hash
              BY <1>4, <2>3, <3>1, <5>1, <6>1, <6>2 DEF AsListed, InPlace
            <6> QED
              BY <1>4, <5>1, <6>3 DEF Recorded
          <5> QED
            BY <5>1, <5>2, <5>3
        <4>2. CASE ~(Record /\ p = Act.path)
          <5>1. CASE Carried(i)
            <6>1. Unheard(i, Heard) \/ Recorded(p)' \/ Carried(row[p].id)'
              BY <1>4, <2>3, <3>1, <3>8, <4>2, <5>1, FinishRows
            <6> QED
              BY <1>4, <2>3, <3>1, <6>1 DEF Carried, Brings
          <5>2. CASE phase = "classify"
            BY <3>8, <5>2 DEF Working
          <5> QED
            BY <3>1, <3>2, <5>1, <5>2
        <4> QED
          BY <4>1, <4>2
      <3> QED
        BY <1>4, <2>3, <3>4, <3>5, <3>6, <3>7, <3>8, NextTask
    <2> QED
      BY <2>1, <2>2, <2>3
  <1>5. ASSUME ~List, NEW p \in Paths, NEW i \in Ids, row'[p].id = i, LiveFile(i)',
               cloud'[i].path = p, row'[p] # row[p]
        PROVE  Unheard(i, Heard)' \/ Recorded(p)'
    <2>1. Record /\ p = Act.path
      BY <1>2, <1>5
    <2>2. /\ phase \in {"installed", "sent"} /\ i = got.id /\ row'[p].rhash = got.hash
          /\ UNCHANGED <<cloud, cursor>> /\ Heard = cursor /\ phase' \in {"idle", "apply"}
      BY <1>0, <1>5, <2>1 DEF Record, CanRecord, RecordFileState, cloudVars, Heard, Finish
    <2>3. CASE phase = "sent"
      BY <2>2, <2>3 DEF TransferHeard, Unheard, Heard
    <2>4. CASE phase = "installed"
      <3>1. Brings(Act) /\ got.id = Act.id /\ got.hash = Act.hash
        BY <1>0, <2>4 DEF TransferHeard, TransferTraced
      <3>2. AsListed(Act.id, Act.hash, Act.path)
        BY <2>4, <3>1, ActDecided DEF DecisionsHeard, Working
      <3>3. Unheard(i, cursor) \/ cloud[i].body = got.hash
        BY <1>5, <2>2, <3>1, <3>2 DEF AsListed, LiveFile, Live
      <3> QED
        BY <1>5, <2>2, <3>3 DEF Recorded, Unheard, Heard
    <2> QED
      BY <2>2, <2>3, <2>4
  <1>6. RowsHeard'
    <2> SUFFICES ASSUME ~List, NEW p \in Paths, NEW i \in Ids, row'[p].id = i, LiveFile(i)',
                        cloud'[i].path = p
                 PROVE  \/ Unheard(i, Heard)' \/ Recorded(p)' \/ Carried(i)'
                        \/ phase' = "classify" /\ ChangeOf(i)' \in batch'
      BY <1>1 DEF RowsHeard, InPlace, Unheard, Carried, LiveFile, Live, ChangeOf, Brings
    <2> QED
      BY <1>4, <1>5
  <1>7. RowsMayFail'
    <2> SUFFICES ASSUME ~List, phase' = "classify", NEW p \in Paths, NEW i \in Ids,
                        row'[p].id = i, LiveFile(i)', cloud'[i].path = p
                 PROVE  Unheard(i, cursor)' \/ Recorded(p)'
      BY <1>1 DEF RowsMayFail, InPlace, Unheard, LiveFile, Live
    <2>1. row'[p] = row[p]
      BY <1>2 DEF Record, CanRecord, Finish
    <2>2. /\ phase = "classify" /\ (cursor' = cursor \/ cursor' = None)
      <3>1. ASSUME NEW ch \in batch, ClassifyChange(ch) PROVE phase = "classify" /\ cursor' = cursor
        BY <3>1 DEF ClassifyChange, dbVars
      <3>2. ~CycleFails /\ ~CommitCursor /\ ~Finish /\ \A q \in Paths : ~TakeEvent(q)
        BY DEF CycleFails, CommitCursor, Finish, TakeEvent
      <3> QED
        BY <3>1, <3>2, NextTask
    <2>3. CASE cloud'[i] = cloud[i]
      BY <1>3, <2>1, <2>2, <2>3 DEF RowsMayFail, Unheard
    <2>4. CASE cloud'[i] # cloud[i]
      BY <1>0, <2>2, <2>4, ChangedIsUnheard DEF Unheard
    <2> QED
      BY <2>3, <2>4
  <1> QED
    BY <1>6, <1>7

LEMMA NextRowsTrue ==
  ASSUME TypeInv, TypeInv', RemoteInv, NamesInv, TodoTrue, IdsTaken, TransferHeard, SendsFresh,
         RowsTrue, [Next]_vars
  PROVE  RowsTrue'
  <1>0. /\ ledger \subseteq ledger' /\ Tagged("racy") \subseteq Tagged("racy")'
        /\ row \in [Paths -> Row]
    BY Effects DEF Tagged, TypeInv, TypeOK, DbTypeOK
  <1> SUFFICES ASSUME NEW p \in Paths, NEW i \in Ids, row'[p].id = i, LiveFile(i)',
                      cloud'[i].body = row'[p].rhash
               PROVE  row'[p].lhash = row'[p].rhash \/ row'[p].lhash \in Tagged("racy")'
    BY DEF RowsTrue, LiveFile, Live
  <1>1. CASE Record /\ p = Act.path
    <2>1. /\ phase \in {"installed", "sent"} /\ IsFile(p) /\ UNCHANGED cloud
          /\ row'[p] = [id |-> got.id, lhash |-> local[p], rhash |-> got.hash,
                        status |-> IF Act.kind = "conflict" THEN "conflict" ELSE "synced"]
      BY <1>0, <1>1 DEF Record, CanRecord, RecordFileState, IsFile, Hash, cloudVars
    <2>2. LiveFile(i) /\ i = got.id /\ cloud[i].body = got.hash
      BY <2>1 DEF LiveFile, Live
    <2>3. local[p] = got.hash \/ local[p] \in Tagged("racy")
      BY <1>1, <2>1, <2>2 DEF TransferHeard
    <2> QED
      BY <1>0, <2>1, <2>3
  <1>2. CASE row'[p] = row[p] /\ LiveFile(i) /\ cloud'[i].body = cloud[i].body
    BY <1>0, <1>2 DEF RowsTrue
  <1>3. CASE row'[p] = row[p] /\ ~(LiveFile(i) /\ cloud'[i].body = cloud[i].body)
    <2> DEFINE c == cloud'[i].body
    <2>1. c \in Content /\ c \in InCloudOnce
      BY <1>3 DEF TypeInv, ContentInv, RemoteInv, RowsKnown, HeldOnlyBy
    <2>2. ~Unused(c)
      BY <2>1 DEF Unused, InCloudOnce, Tagged, Tags
    <2>3. CloudMove(i)
      BY <1>3, NextCloud DEF CloudMove, LiveFile, Live
    <2>4. Send /\ c = local[Act.path] /\ (i \in FreeIds \/ Act.kind = "update" \/ Provider = "onedrive")
      BY <1>3, <2>2, <2>3 DEF CloudMove
    <2>5. i \notin FreeIds
      BY <1>3 DEF IdsTaken, Taken
    <2>6. 1 \in DOMAIN todo /\ todo[1] = Act /\ phase = "apply" /\ Sends(Act)
      BY <2>4, ActDecided DEF Send, CanSend, Working, Sends
    <2>7. Provider = "onedrive" \/ ByWatcher(Act)
      BY <2>4, <2>5 DEF ByWatcher
    <2>8. c \notin InCloudOnce
      BY <2>4, <2>6, <2>7 DEF SendsFresh, Fresh
    <2> QED
      BY <2>1, <2>8
  <1> QED
    BY <1>1, <1>2, <1>3, NextRow, SyncAssumption DEF LiveFile, RemoteInv

(* Without folders and deletions every decided action brings or sends a    *)
(* file, and what it brings is there.                                      *)
LEMMA PlainAct ==
  ASSUME TypeInv, Working, FilesOnly, TodoTrue, IdsTaken, DecisionsHeard
  PROVE  /\ Act.kind # "delete" /\ Act.path \in Paths
         /\ Brings(Act) => ~Act.folder /\ Act.id \in Ids /\ LiveFile(Act.id)
  <1>1. 1 \in DOMAIN todo /\ todo[1] = Act /\ Act.path \in Paths
    BY ActDecided
  <1>2. Act.kind # "delete"
    BY <1>1 DEF DecisionsHeard, FilesOnly
  <1>3. ASSUME Brings(Act) PROVE ~Act.folder /\ Act.id \in Ids /\ LiveFile(Act.id)
    <2>1. ~Act.folder
      BY <1>1, <1>3 DEF TodoTrue, Claims, Sends, Brings, Bodiless, FilesOnly
    <2>2. Act.id \in Ids
      BY <1>1, <1>3 DEF DecisionsHeard
    <2>3. Act.id \notin FreeIds
      BY <1>1, <2>2 DEF IdsTaken, Taken
    <2>4. cloud[Act.id].state \in {"free", "live", "gone"}
      BY <2>2 DEF TypeInv, TypeOK, CloudTypeOK, Item
    <2> QED
      BY <2>1, <2>2, <2>3, <2>4 DEF FilesOnly, LiveFile, Live, FreeIds
  <1> QED
    BY <1>1, <1>2, <1>3

LEMMA NextFilesStay ==
  ASSUME TypeInv, TransferTraced, TodoTrue, IdsTaken, DecisionsHeard, FilesStay,
         Unharmed, Unharmed', UNCHANGED faults, Plain, ~May("unlink"), [Next]_vars
  PROVE  FilesStay'
  <1> DEFINE Stays(p) == /\ local[p] # Dir
                         /\ row[p].id # None =>
                              IsFile(p) \/ (phase \in {"moved", "fetched"} /\ Act.path = p)
  <1>0. /\ local \in [Paths -> Content \cup {Absent, Dir}] /\ Content \cap {Absent, Dir} = {}
        /\ row \in [Paths -> Row] /\ present /\ present'
        /\ ~Fault /\ ~DbFails /\ faults \in Nat
    BY LocalType, SyncAssumption
    DEF TypeInv, TypeOK, DbTypeOK, Unharmed, Fault, DbFails
  <1>1. /\ \A p \in Paths : Ancestors[p] = {} /\ Below(p) = {}
        /\ FilesOnly
    BY SyncAssumption DEF Plain, Below
  <1> SUFFICES ASSUME NEW p \in Paths PROVE Stays(p)'
    BY DEF FilesStay
  <1>2. Stays(p)
    BY DEF FilesStay
  <1>3. CASE User
    <2> USE DEF ByUser, engineVars, dbVars
    <2>1. ASSUME NEW q \in Paths, NEW c \in Content, UserWrite(q, c) PROVE Stays(p)'
      <3>1. local' = [local EXCEPT ![q] = c] /\ UNCHANGED <<row, phase, todo>>
        BY <2>1 DEF UserWrite, Put
      <3> QED
        BY <1>0, <1>2, <3>1 DEF IsFile, Act
    <2>2. ASSUME NEW q \in Paths, UserMakeDir(q) \/ UserRemove(q) \/ FileTouched(q)
          PROVE  Stays(p)'
      <3>1. UNCHANGED <<local, row, phase, todo>>
        BY <1>1, <2>2 DEF UserMakeDir, UserRemove, FileTouched
      <3> QED
        BY <1>2, <3>1 DEF IsFile, Act
    <2>3. CASE SetPaused
      BY <1>2, <2>3 DEF SetPaused, folderVars, IsFile, Act
    <2>4. CASE RemovePair
      BY <1>0, <2>4 DEF RemovePair, RemovePairRow
    <2> QED
      BY <1>3, <2>1, <2>2, <2>3, <2>4 DEF User
  <1>4. CASE Clients \/ NextSecond
    BY <1>2, <1>4
    DEF Clients, RemoteCreate, RemoteCreateAwkward, RemoteCreateFolder, RemoteEdit, RemoteDelete,
        RemoteMove, ByClient, NextSecond, dbVars, folderVars, engineVars, IsFile, Act
  <1>5. CASE RefreshWatchers \/ LocalEvents \/ BeginPoll \/ RunCycle
    <2>1. /\ UNCHANGED <<local, row>>
          /\ UNCHANGED <<phase, todo>> \/ phase \notin {"moved", "fetched"}
      BY <1>5
      DEF RefreshWatchers, LocalEvents, IgnoreEvent, LoseEvent, TakeEvent, Deliver, BeginPoll,
          RunCycle, List, ClassifyChange, CycleFails, CommitCursor, Idle, dbVars, folderVars,
          engineVars
    <2> QED
      BY <1>2, <2>1 DEF IsFile, Act
  <1>6. CASE MoveAside
    <2>1. /\ RenameAside(Act.path, ConflictingFileName(Act.path))
          /\ phase' = "moved" /\ UNCHANGED <<todo, row>> /\ phase = "apply"
      BY <1>0, <1>6 DEF MoveAside, CanMoveAside
    <2>2. Act.path \in Paths
      BY <2>1, ActDecided DEF Working
    <2>3. local'[p] = IF p = Act.path THEN Absent ELSE local[p]
      BY <1>1, <2>1, <2>2 DEF RenameAside
    <2> QED
      BY <1>0, <1>2, <2>1, <2>3 DEF IsFile, Act, Absent, Dir
  <1>7. CASE MakeFolder \/ CreateFolder \/ DeleteLocal
    <2>1. Working
      BY <1>7
      DEF MakeFolder, CanMakeFolder, Cleared, CreateFolder, CanCreateFolder, DeleteLocal,
          CanDeleteLocal, Working
    <2>2. ~CreateFolder
      BY <2>1, ActDecided DEF CreateFolder, CanCreateFolder, FilesStay
    <2> QED
      BY <1>1, <1>7, <2>1, <2>2, PlainAct
      DEF MakeFolder, CanMakeFolder, DeleteLocal, CanDeleteLocal, Brings
  <1>8. CASE Fetch
    <2>1. Working /\ Brings(Act) /\ MakeDirs(Ancestors[Act.path]) /\ UNCHANGED row
      BY <1>8 DEF Fetch, CanFetch, Cleared, Working, Brings, dbVars
    <2>2. Act.path \in Paths /\ Act.id \in Ids /\ LiveFile(Act.id)
      BY <1>1, <2>1, PlainAct
    <2>3. local'[p] = local[p]
      BY <1>1, <2>1, <2>2 DEF MakeDirs
    <2>4. phase' = "fetched" /\ UNCHANGED todo
      BY <1>0, <1>8, <2>2 DEF Fetch
    <2>5. phase \in {"apply", "moved"}
      BY <1>8 DEF Fetch, CanFetch, Cleared
    <2> QED
      BY <1>2, <2>1, <2>3, <2>4, <2>5 DEF IsFile, Act
  <1>9. CASE Install
    <2>1. /\ phase = "fetched" /\ local' = [local EXCEPT ![Act.path] = got.body] /\ UNCHANGED row
          /\ got.body \in Content
      BY <1>9 DEF Install, CanInstall, Put, dbVars, TypeInv, ContentInv
    <2> QED
      BY <1>0, <1>2, <2>1 DEF IsFile
  <1>10. CASE Record
    <2>1. /\ UNCHANGED local /\ IsFile(Act.path) /\ phase \in {"installed", "sent"}
          /\ p # Act.path => row'[p] = row[p]
      BY <1>0, <1>10 DEF Record, CanRecord, RecordFileState, folderVars
    <2> QED
      BY <1>2, <2>1 DEF IsFile
  <1>11. CASE Send
    <2>1. UNCHANGED <<local, row>> /\ phase = "apply"
      BY <1>11 DEF Send, CanSend, folderVars, dbVars
    <2> QED
      BY <1>2, <2>1 DEF IsFile
  <1>12. CASE ActionFails
    <2>1. UNCHANGED <<local, row>> /\ Working /\ ~Able
      BY <1>0, <1>12 DEF ActionFails, folderVars, dbVars
    <2>2. Act.path \in Paths /\ (Brings(Act) => ~Act.folder)
      BY <1>1, <2>1, PlainAct
    <2>3. phase # "moved"
      BY <1>1, <2>1, <2>2
      DEF Able, CanFetch, Cleared, CanMakeDirs, TransferTraced, Brings
    <2>4. phase # "fetched"
      BY <1>1, <2>1, <2>2 DEF Able, CanInstall, InFolders, FilesStay
    <2> QED
      BY <1>2, <2>1, <2>3, <2>4 DEF IsFile
  <1>13. CASE UNCHANGED vars
    BY <1>2, <1>13 DEF vars, dbVars, folderVars, engineVars, IsFile, Act
  <1> QED
    BY <1>3, <1>4, <1>5, <1>6, <1>7, <1>8, <1>9, <1>10, <1>11, <1>12, <1>13
    DEF Next, Daemon, Apply

-----------------------------------------------------------------------------
(* The invariant.                                                          *)

LEMMA InitQuietInv == Init => QuietInv
  <1> SUFFICES ASSUME Init PROVE QuietInv
    OBVIOUS
  <1>1. EchoInv
    BY InitEchoInv
  <1>2. /\ \A p \in Paths : row[p].id = None /\ local[p] = Absent
        /\ \A i \in Ids : cloud[i].state = "free" /\ cloud[i].rev = 0
        /\ clock = 0 /\ phase = "idle" /\ batch = {} /\ todo = <<>> /\ cursor = None
    BY DEF Init, CloudInit, DbInit, FolderInit, NoRow
  <1>3. RevsPast /\ IdsTaken
    BY <1>2, SyncAssumption DEF RevsPast, IdsTaken, Taken
  <1>4. DecisionsHeard /\ TransferHeard /\ RowsHeard /\ RowsMayFail
    BY <1>2, SyncAssumption
    DEF DecisionsHeard, TransferHeard, RowsHeard, RowsMayFail, InPlace
  <1>5. RowsTrue
    BY <1>2, SyncAssumption DEF RowsTrue
  <1>6. FilesStay
    BY <1>2 DEF FilesStay, Absent, Dir
  <1> QED
    BY <1>1, <1>3, <1>4, <1>5, <1>6 DEF QuietInv

(* Every step keeps the strengthening.                                     *)
LEMMA NextQuietInv == QuietInv /\ [Next]_vars => QuietInv'
  <1> SUFFICES ASSUME QuietInv, [Next]_vars PROVE QuietInv'
    OBVIOUS
  <1>1. EchoInv /\ EchoInv' /\ TypeInv /\ TypeInv' /\ StepSafe /\ RemoteInv /\ CursorInv
    BY NextEchoInv DEF QuietInv, EchoInv, AccountInv, SurvivalInv, RemoteInv
  <1>2. NamesInv /\ TodoTrue /\ BatchTrue /\ TransferTraced
    BY <1>1 DEF EchoInv, DecisionsTrue, NamesInv, RemoteInv
  <1>3. /\ RevsPast /\ IdsTaken /\ DecisionsHeard /\ TransferHeard /\ RowsHeard /\ RowsMayFail
    BY DEF QuietInv
  <1>4. RevsPast' /\ IdsTaken'
    BY <1>1, <1>2, <1>3, NextRevs, NextTaken
  <1>5. DecisionsHeard' /\ TransferHeard'
    BY <1>1, <1>2, <1>3, NextDecisionsHeard, NextTransferHeard
  <1>6. RowsHeard' /\ RowsMayFail'
    BY <1>1, <1>2, <1>3, NextRowsHeard
  <1>7. ASSUME Unharmed' PROVE RowsTrue'
    <2>1. Unharmed
      BY <1>1, <1>7, UnharmedBefore
    <2>2. SendsFresh /\ RowsTrue
      BY <1>1, <2>1 DEF QuietInv, EchoInv
    <2> QED
      BY <1>1, <1>2, <1>3, <2>2, NextRowsTrue
  <1>8. ASSUME Unharmed', Plain', ~May("unlink") PROVE FilesStay'
    <2>1. Unharmed /\ UNCHANGED faults
      BY <1>1, <1>8, UnharmedBefore
    <2>2. Plain
      BY <1>1, <1>2, <1>8, FilesOnlyBefore DEF Plain
    <2>3. FilesStay
      BY <1>8, <2>1, <2>2 DEF QuietInv
    <2> QED
      BY <1>1, <1>2, <1>3, <1>8, <2>1, <2>2, <2>3, NextFilesStay
  <1>9. May("unlink")' <=> May("unlink")
    BY DEF May
  <1> QED
    BY <1>1, <1>4, <1>5, <1>6, <1>7, <1>8, <1>9 DEF QuietInv

(* The strengthening is an invariant.                                      *)
THEOREM QuietInvariant == Spec => []QuietInv
  <1>1. Init => QuietInv
    BY InitQuietInv
  <1>2. QuietInv /\ [Next]_vars => QuietInv'
    BY NextQuietInv
  <1> QED
    BY <1>1, <1>2, PTL DEF Spec

(* When it is quiet and no call has failed, the rows know what the items   *)
(* where they are about hold, and the files hold what the rows know: this  *)
(* computer and the cloud agree, whatever went on before, except for the   *)
(* edits and downloads the property names.                                 *)
THEOREM QuietInSync == Spec => []QuietRowsInSync
  <1>1. QuietInv => QuietRowsInSync
    <2> SUFFICES ASSUME QuietInv, Quiet, Unharmed, NEW p \in Paths, NEW i \in Ids,
                        i = row[p].id, LiveFile(i), cloud[i].path = p
                 PROVE  \/ local[p] = cloud[i].body
                        \/ \E tag \in {"racy", "blind", "dropped"} : local[p] \in Tagged(tag)
                        \/ \E tag \in {"missed", "skipped"} : cloud[i].body \in Tagged(tag)
                        \/ ~IsFile(p) /\ (May("unlink") \/ ~Plain)
      BY DEF QuietRowsInSync
    <2>1. /\ TypeInv /\ todo = <<>> /\ phase = "idle" /\ events = {}
          /\ LocalInv /\ FilesServed /\ RowsCurrent /\ UnsentOnce
      BY DEF QuietInv, EchoInv, AccountInv, SurvivalInv, LocalInv, TypeInv, TaskInv, Quiet
    <2>2. ~Unheard(i, Heard)
      <3>1. Heard = clock /\ clock \in Nat /\ cloud[i].rev <= clock /\ cloud[i].rev \in Nat
        BY <2>1
        DEF Heard, Quiet, QuietInv, RevsPast, TypeInv, TypeOK, CloudTypeOK, Item
      <3> QED
        BY <3>1, SyncAssumption DEF Unheard
    <2>3. Recorded(p)
      BY <2>1, <2>2 DEF QuietInv, RowsHeard, InPlace, Carried
    <2>4. CASE cloud[i].body = row[p].rhash /\ IsFile(p)
      <3>1. row[p].lhash = row[p].rhash \/ row[p].lhash \in Tagged("racy")
        BY <2>4 DEF QuietInv, RowsTrue
      <3>2. CASE Fresh(p)
        BY <2>1, <2>4, <3>2
        DEF FilesServed, Served, UploadComing, Fresh, InCloudOnce
      <3>3. CASE row[p].lhash = local[p]
        BY <2>4, <3>1, <3>3
      <3> QED
        BY <2>1, <3>2, <3>3 DEF RowsCurrent
    <2>5. CASE ~IsFile(p)
      BY <2>1, <2>5, SyncAssumption DEF QuietInv, FilesStay
    <2> QED
      BY <2>3, <2>4, <2>5 DEF Recorded
  <1> QED
    BY <1>1, QuietInvariant, PTL
=============================================================================
