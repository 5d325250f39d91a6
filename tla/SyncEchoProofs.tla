--------------------------- MODULE SyncEchoProofs ---------------------------
(***************************************************************************)
(* The daemon never sends what the cloud has had, and where names are      *)
(* unique it makes copies of unsent edits only, for any tree, contents,    *)
(* items and surroundings.                                                 *)
(***************************************************************************)
EXTENDS SyncAccountProofs

(* What no step undoes: a deletion, a folder, a failure.                   *)
Lasting ==
    \A i \in Ids : /\ cloud[i].state = "gone" => cloud'[i].state = "gone"
                   /\ cloud[i].folder => cloud'[i].folder

NamesInv == NamesUnique /\ FreeBlank

PlanInv == BatchTrue /\ TodoTrue /\ WatcherAlone /\ ClaimsApart /\ GotTrue

-----------------------------------------------------------------------------
(* The drive.                                                              *)

LEMMA SameCloud ==
  ASSUME UNCHANGED cloud, NamesInv
  PROVE  NamesInv' /\ Lasting
  BY DEF NamesInv, NamesUnique, FreeBlank, FreeIds, Live, Lasting

(* An item is stored where none but itself has the name.                   *)
LEMMA StoreKeepsNames ==
  ASSUME TypeInv, NamesInv, NEW i \in Ids, NEW folder \in BOOLEAN, NEW body, NEW path, NEW parent,
         Store(i, folder, body, path, parent), cloud[i].state # "gone",
         cloud[i].folder => folder,
         Provider = "onedrive" /\ path \in Paths => LiveAt(path) \subseteq {i}
  PROVE  NamesInv' /\ Lasting
  <1>1. /\ cloud \in [Ids -> Item]
        /\ cloud' = [cloud EXCEPT ![i] =
                       [state |-> "live", folder |-> folder, body |-> body,
                        path |-> path, parent |-> parent, rev |-> clock + 1]]
    BY DEF Store, TypeInv, TypeOK, CloudTypeOK
  <1>2. \A j \in Ids \ {i} : cloud'[j] = cloud[j]
    BY <1>1
  <1>3. cloud'[i].state = "live" /\ cloud'[i].folder = folder /\ cloud'[i].path = path
    BY <1>1
  <1>4. Lasting
    BY <1>2, <1>3 DEF Lasting
  <1>5. FreeBlank'
    BY <1>2, <1>3 DEF NamesInv, FreeBlank, FreeIds
  <1>6. NamesUnique'
    BY <1>2, <1>3 DEF NamesInv, NamesUnique, Live, LiveAt
  <1> QED
    BY <1>4, <1>5, <1>6 DEF NamesInv

LEMMA DropKeepsNames ==
  ASSUME TypeInv, NamesInv, NEW i \in Ids, Drop(i)
  PROVE  NamesInv' /\ Lasting
  <1>1. cloud' = [cloud EXCEPT ![i] = [cloud[i] EXCEPT !.state = "gone", !.rev = clock + 1]]
    BY Zenon DEF Drop
  <1>2. cloud \in [Ids -> Item]
    BY DEF TypeInv, TypeOK, CloudTypeOK
  <1>3. \A j \in Ids \ {i} : cloud'[j] = cloud[j]
    BY <1>1, <1>2
  <1>4. cloud'[i].state = "gone" /\ cloud'[i].folder = cloud[i].folder
    BY <1>1, <1>2 DEF Item
  <1> QED
    BY <1>3, <1>4 DEF Lasting, NamesInv, NamesUnique, FreeBlank, FreeIds, Live

(* What is new lands where no item of that name is.                        *)
LEMMA NewLandsFree ==
  ASSUME TypeInv, phase = "apply"
  PROVE  Provider = "onedrive" /\ LandingOfNew \in Paths => LiveAt(LandingOfNew) = {}
  BY SyncAssumption DEF LandingOfNew

LEMMA NextNames ==
  ASSUME TypeInv, NamesInv, [Next]_vars
  PROVE  NamesInv' /\ Lasting
  <1>1. ASSUME UNCHANGED cloud PROVE NamesInv' /\ Lasting
    BY <1>1, SameCloud
  <1>2. CASE CreateFolder
    <2>1. PICK i \in FreeIds : Store(i, TRUE, None, LandingOfNew, Act.parent)
      BY <1>2 DEF CreateFolder
    <2>2. i \in Ids /\ cloud[i].state = "free" /\ phase = "apply"
      BY <1>2, <2>1 DEF FreeIds, CreateFolder, CanCreateFolder
    <2> QED
      BY <2>1, <2>2, NewLandsFree, StoreKeepsNames
  <1>3. CASE Send
    <2>1. PICK t \in Targets : Store(t[1], FALSE, local[Act.path], t[2], t[3])
      BY <1>3 DEF Send
    <2>2. phase = "apply"
      BY <1>3 DEF Send, CanSend
    <2>3. /\ t[1] \in Ids /\ cloud[t[1]].state # "gone" /\ ~cloud[t[1]].folder
          /\ Provider = "onedrive" /\ t[2] \in Paths => LiveAt(t[2]) \subseteq {t[1]}
      <3>1. CASE LiveFile(t[1]) /\ t[1] \in Ids /\ t[2] = cloud[t[1]].path
        BY <3>1 DEF LiveFile, Live, LiveAt, NamesInv, NamesUnique
      <3>2. CASE t[1] \in FreeIds /\ t[2] = LandingOfNew
        <4>1. ~cloud[t[1]].folder
          BY <3>2 DEF NamesInv, FreeBlank
        <4> QED
          BY <2>2, <3>2, <4>1, NewLandsFree DEF FreeIds
      <3>3. \/ LiveFile(t[1]) /\ t[1] \in Ids /\ t[2] = cloud[t[1]].path
            \/ t[1] \in FreeIds /\ t[2] = LandingOfNew
        BY <2>1 DEF Targets, LiveFile, LiveAt
      <3> QED
        BY <3>1, <3>2, <3>3
    <2> QED
      BY <2>1, <2>3, StoreKeepsNames
  <1>4. ASSUME NEW i \in FreeIds, NEW folder \in BOOLEAN, NEW c, NEW p, NEW h, NameFree(p),
               Store(i, folder, c, p, h)
        PROVE  NamesInv' /\ Lasting
    <2>1. i \in Ids /\ cloud[i].state = "free" /\ ~cloud[i].folder
      BY <1>4 DEF NamesInv, FreeBlank, FreeIds
    <2>2. Provider = "onedrive" /\ p \in Paths => LiveAt(p) = {}
      BY <1>4 DEF NameFree
    <2> QED
      BY <1>4, <2>1, <2>2, StoreKeepsNames
  <1>5. ASSUME NEW i \in Ids, LiveFile(i), NEW c, NEW p, NEW h,
               NameFree(p) \/ p = cloud[i].path, Store(i, FALSE, c, p, h)
        PROVE  NamesInv' /\ Lasting
    <2>1. cloud[i].state = "live" /\ ~cloud[i].folder
      BY <1>5 DEF LiveFile, Live
    <2>2. Provider = "onedrive" /\ p \in Paths => LiveAt(p) \subseteq {i}
      BY <1>5, <2>1 DEF NameFree, NamesInv, NamesUnique, LiveAt, Live
    <2> QED
      BY <1>5, <2>1, <2>2, StoreKeepsNames
  <1>6. ASSUME NEW i \in Ids, NEW c \in Content,
               \/ \E p \in Paths : RemoteCreate(i, p, c)
               \/ RemoteCreateAwkward(i, c)
        PROVE  NamesInv' /\ Lasting
    <2>1. NameFree(Awkward)
      BY SyncAssumption DEF NameFree
    <2> QED
      BY <1>4, <1>6, <2>1 DEF RemoteCreate, RemoteCreateAwkward
  <1>7. ASSUME NEW i \in Ids, NEW p, RemoteCreateFolder(i, p) PROVE NamesInv' /\ Lasting
    BY <1>4, <1>7 DEF RemoteCreateFolder
  <1>8. ASSUME NEW i \in Ids, \/ \E c \in Content : RemoteEdit(i, c)
                              \/ \E p \in Paths \cup {Elsewhere} : RemoteMove(i, p)
        PROVE  NamesInv' /\ Lasting
    BY <1>5, <1>8 DEF RemoteEdit, RemoteMove
  <1>9. ASSUME NEW i \in Ids, RemoteDelete(i) PROVE NamesInv' /\ Lasting
    BY <1>9, DropKeepsNames DEF RemoteDelete
  <1>10. CASE Clients
    BY <1>6, <1>7, <1>8, <1>9, <1>10 DEF Clients
  <1>11. CASE User \/ NextSecond
    BY <1>1, <1>11
    DEF User, UserWrite, UserMakeDir, UserRemove, FileTouched, ByUser, SetPaused, RemovePair,
        NextSecond, cloudVars
  <1>12. CASE RefreshWatchers \/ LocalEvents \/ BeginPoll \/ RunCycle
    BY <1>1, <1>12
    DEF RefreshWatchers, LocalEvents, IgnoreEvent, LoseEvent, TakeEvent, Deliver, BeginPoll,
        RunCycle, List, ClassifyChange, CycleFails, CommitCursor, cloudVars
  <1>13. CASE Apply
    BY <1>1, <1>2, <1>3, <1>13
    DEF Apply, MoveAside, MakeFolder, Fetch, Install, Record, DeleteLocal, ActionFails, cloudVars
  <1>14. CASE UNCHANGED vars
    BY <1>1, <1>14 DEF vars, cloudVars
  <1> QED
    BY <1>10, <1>11, <1>12, <1>13, <1>14 DEF Next, Daemon

-----------------------------------------------------------------------------
(* What was decided.                                                       *)

(* Actions are dropped from the front, or all at once.                     *)
LEMMA PlanCarried ==
  ASSUME TypeInv, PlanInv, Lasting,
         batch' \subseteq batch, batch' # {} => phase' = "classify",
         todo' = todo \/ todo' = <<>> \/ (todo # <<>> /\ todo' = Tail(todo))
  PROVE  BatchTrue' /\ TodoTrue' /\ ClaimsApart'
  <1>0. todo \in Seq(Action) /\ \A ch \in batch : ch.id \in Ids
    BY DEF TypeInv, TypeOK, EngineTypeOK, Change
  <1>1. PICK d \in {0, 1} :
          \A k \in DOMAIN todo' : k \in Nat /\ k + d \in DOMAIN todo /\ todo'[k] = todo[k + d]
    <2>1. CASE todo' = todo \/ todo' = <<>>
      <3>1. \A k \in DOMAIN todo' : k \in Nat /\ k + 0 \in DOMAIN todo /\ todo'[k] = todo[k + 0]
        BY <1>0, <2>1
      <3> QED
        BY <3>1
    <2>2. CASE todo # <<>> /\ todo' = Tail(todo)
      <3>1. \A k \in DOMAIN todo' : k \in Nat /\ k + 1 \in DOMAIN todo /\ todo'[k] = todo[k + 1]
        BY <1>0, <2>2
      <3> QED
        BY <3>1
    <2> QED
      BY <2>1, <2>2
  <1>2. BatchTrue'
    BY <1>0 DEF PlanInv, BatchTrue, Lasting, Reports
  <1>3. TodoTrue'
    BY <1>1 DEF PlanInv, TodoTrue, Brings, Claims, Sends, Bodiless, Lasting
  <1>4. ClaimsApart'
    <2> SUFFICES ASSUME Provider = "onedrive" PROVE ClaimsApart'
      BY DEF ClaimsApart
    <2>1. \A a, b \in batch' : Reports(a) /\ Reports(b) /\ a.path = b.path => a = b
      BY DEF PlanInv, ClaimsApart
    <2>2. ASSUME NEW a \in batch', NEW k \in DOMAIN todo', Reports(a), Claims(todo'[k])
          PROVE  todo'[k].path # a.path
      <3>1. a \in batch /\ k + d \in DOMAIN todo /\ todo'[k] = todo[k + d] /\ Claims(todo[k + d])
        BY <1>1, <2>2 DEF Claims, Sends, Brings
      <3>2. todo[k + d].path # a.path
        BY <2>2, <3>1 DEF PlanInv, ClaimsApart
      <3> QED
        BY <3>1, <3>2
    <2>3. ASSUME NEW j \in DOMAIN todo', NEW k \in DOMAIN todo',
                 Claims(todo'[j]), Claims(todo'[k]), todo'[j].path = todo'[k].path
          PROVE  j = k
      <3>1. Claims(todo[j + d]) /\ Claims(todo[k + d]) /\ todo[j + d].path = todo[k + d].path
        BY <1>1, <2>3 DEF Claims, Sends, Brings
      <3>2. j + d = k + d
        BY <1>1, <3>1 DEF PlanInv, ClaimsApart
      <3> QED
        BY <1>1, <3>2
    <2> QED
      BY <2>1, <2>2, <2>3 DEF ClaimsApart, Reports, Claims, Sends, Brings
  <1> QED
    BY <1>2, <1>3, <1>4

LEMMA SamePlan ==
  ASSUME TypeInv, PlanInv, Lasting, UNCHANGED <<phase, batch, todo, got>>
  PROVE  PlanInv'
  <1>1. todo \in Seq(Action) /\ (batch # {} => phase = "classify")
    BY DEF TypeInv, TypeOK, EngineTypeOK, PlanInv, BatchTrue
  <1>2. BatchTrue' /\ TodoTrue' /\ ClaimsApart'
    BY <1>1, PlanCarried
  <1>3. WatcherAlone' /\ GotTrue'
    BY DEF PlanInv, WatcherAlone, ByWatcher, GotTrue, Claims, Sends, Brings, Act
  <1> QED
    BY <1>2, <1>3 DEF PlanInv

(* The action is done with; a local event was alone.                       *)
LEMMA FinishPlan ==
  ASSUME TypeInv, PlanInv, Lasting, Working, Finish, UNCHANGED batch
  PROVE  PlanInv'
  <1>1. /\ todo \in Seq(Action) /\ todo # <<>> /\ batch = {}
        /\ todo' = Tail(todo) /\ phase' \in {"idle", "apply"}
    BY DEF TypeInv, TypeOK, EngineTypeOK, TaskInv, PlanInv, BatchTrue, Working, Finish
  <1>2. BatchTrue' /\ TodoTrue' /\ ClaimsApart'
    BY <1>1, PlanCarried
  <1>3. WatcherAlone'
    <2> SUFFICES ASSUME NEW k \in DOMAIN todo', ByWatcher(todo'[k]) PROVE FALSE
      BY DEF WatcherAlone, ByWatcher
    <2>1. k + 1 \in DOMAIN todo /\ todo'[k] = todo[k + 1] /\ Len(todo) > 1
      BY <1>1
    <2>2. ByWatcher(todo[k + 1])
      BY <2>1 DEF ByWatcher
    <2> QED
      BY <1>1, <2>1, <2>2 DEF PlanInv, WatcherAlone, ByWatcher
  <1>4. GotTrue'
    BY <1>1 DEF GotTrue
  <1> QED
    BY <1>2, <1>3, <1>4 DEF PlanInv

(* A listing tells the truth at the time.                                  *)
LEMMA ListPlan ==
  ASSUME TypeInv, NamesInv, PlanInv, List
  PROVE  PlanInv'
  <1>1. /\ todo = <<>> /\ todo' = <<>> /\ phase' = "classify" /\ UNCHANGED cloud
        /\ batch' = ListChanges(cursor)
    BY DEF List, TypeInv, TaskInv, cloudVars
  <1>2. ASSUME NEW ch \in batch'
        PROVE  /\ ch.id \in Ids
               /\ ch = ChangeOf(ch.id)
               /\ ch.deleted => ch.hash = None /\ cloud[ch.id].state = "gone"
               /\ ch.folder => cloud[ch.id].folder
               /\ Reports(ch) => /\ LiveFile(ch.id)
                                 /\ ch.path = cloud[ch.id].path
                                 /\ ch.hash = cloud[ch.id].body
    <2>1. PICK i \in Ids : ch = ChangeOf(i)
      BY <1>1, <1>2 DEF ListChanges
    <2>2. ch.id = i
      BY <2>1 DEF ChangeOf
    <2>4. CASE cloud[i].state = "gone"
      <3>1. ch.deleted /\ ch.hash = None
        BY <2>1, <2>4 DEF ChangeOf
      <3>2. ch.folder => cloud[i].folder
        BY <2>1 DEF ChangeOf
      <3> QED
        BY <2>1, <2>2, <2>4, <3>1, <3>2 DEF Reports
    <2>5. CASE cloud[i].state # "gone"
      <3>1. /\ ~ch.deleted
            /\ ch.hash = cloud[i].body
            /\ ch.path = cloud[i].path
            /\ ch.folder <=> cloud[i].folder
        BY <2>1, <2>5 DEF ChangeOf
      <3>2. ASSUME Reports(ch) PROVE LiveFile(i)
        <4>1. cloud[i].path \in Paths /\ ~cloud[i].folder
          BY <3>1, <3>2 DEF Reports
        <4>2. cloud[i].state # "free"
          BY <4>1, SyncAssumption DEF NamesInv, FreeBlank, FreeIds
        <4>3. cloud[i].state \in {"free", "live", "gone"}
          BY DEF TypeInv, TypeOK, CloudTypeOK, Item
        <4> QED
          BY <2>5, <4>1, <4>2, <4>3 DEF LiveFile, Live
      <3> QED
        BY <2>1, <2>2, <3>1, <3>2
    <2> QED
      BY <2>4, <2>5
  <1>3. BatchTrue'
    <2>1. ASSUME NEW ch \in batch', Reports(ch) PROVE ch.hash # None
      <3>1. LiveFile(ch.id) /\ ch.hash = cloud[ch.id].body /\ ch.id \in Ids
        BY <1>2, <2>1
      <3> QED
        BY <3>1, SyncAssumption DEF TypeInv, ContentInv
    <2> QED
      BY <1>1, <1>2, <2>1 DEF BatchTrue, Reports
  <1>4. TodoTrue' /\ WatcherAlone' /\ GotTrue'
    BY <1>1 DEF TodoTrue, WatcherAlone, GotTrue
  <1>5. ASSUME Provider = "onedrive",
               NEW a \in batch', NEW b \in batch', Reports(a), Reports(b), a.path = b.path
        PROVE  a = b
    <2>1. a.id \in Ids /\ a = ChangeOf(a.id) /\ LiveFile(a.id) /\ a.path = cloud[a.id].path
      BY <1>2, <1>5
    <2>2. b.id \in Ids /\ b = ChangeOf(b.id) /\ LiveFile(b.id) /\ b.path = cloud[b.id].path
      BY <1>2, <1>5
    <2>3. a.id = b.id
      BY <1>5, <2>1, <2>2 DEF Reports, LiveFile, NamesInv, NamesUnique
    <2> QED
      BY <2>1, <2>2, <2>3
  <1>6. ClaimsApart'
    BY <1>1, <1>5 DEF ClaimsApart, Reports
  <1> QED
    BY <1>3, <1>4, <1>6 DEF PlanInv

(* The new decision is about the change's path, or brings nothing.         *)
LEMMA ClassifyPlan ==
  ASSUME TypeInv, PlanInv, Lasting, NEW ch \in batch, ClassifyChange(ch)
  PROVE  PlanInv'
  <1>1. /\ phase = "classify" /\ phase' = "classify" /\ batch' = batch \ {ch}
        /\ todo \in Seq(Action) /\ ch \in Change
        /\ UNCHANGED cloud
    BY DEF ClassifyChange, TypeInv, TypeOK, EngineTypeOK, cloudVars
  <1>2. CASE todo' = todo
    <2>1. BatchTrue' /\ TodoTrue' /\ ClaimsApart'
      BY <1>1, <1>2, PlanCarried
    <2>2. WatcherAlone' /\ GotTrue'
      BY <1>1, <1>2 DEF PlanInv, WatcherAlone, ByWatcher, GotTrue
    <2> QED
      BY <2>1, <2>2 DEF PlanInv
  <1>3. ASSUME NEW p \in PathsFor(ch), todo' = Append(todo, RemoteAction(p, ch))
        PROVE  PlanInv'
    <2> DEFINE a == RemoteAction(p, ch)
    <2>1. /\ a.kind = Verdict(p, ch) /\ a.path = p /\ a.id = ch.id
          /\ a.folder = ch.folder /\ a.hash = ch.hash
      BY DEF RemoteAction
    <2>2. /\ a.kind # "update" /\ ch.id \in Ids /\ ch.id # None
          /\ a.kind = "upload" => ~ch.deleted /\ ~ch.folder
          /\ ~ch.deleted => p = ch.path /\ p \in Paths
      BY <1>1, <2>1, SyncAssumption DEF Verdict, PathsFor, Change
    <2>3. /\ ch.deleted => ch.hash = None /\ cloud[ch.id].state = "gone"
          /\ ch.folder => cloud[ch.id].folder
          /\ Reports(ch) => ch.hash # None
      BY DEF PlanInv, BatchTrue
    <2>4. Claims(a) => Reports(ch) /\ p = ch.path
      BY <2>1, <2>2, <2>3 DEF Claims, Sends, Brings, Reports
    <2>5. Brings(a) => Claims(a) \/ Bodiless(a)
      BY <2>1, <2>2, <2>3 DEF Claims, Bodiless, Reports
    <2>6. ~ByWatcher(a)
      BY <2>1, <2>2 DEF ByWatcher
    <2> HIDE DEF a
    <2>7. \A k \in DOMAIN todo' : \/ todo'[k] = a /\ k = Len(todo) + 1
                                  \/ (k \in DOMAIN todo /\ todo'[k] = todo[k])
      BY <1>1, <1>3 DEF a
    <2>8. BatchTrue'
      BY <1>1 DEF PlanInv, BatchTrue, Reports
    <2>9. TodoTrue'
      <3> SUFFICES ASSUME NEW k \in DOMAIN todo', Brings(todo'[k])
                   PROVE  Claims(todo'[k]) \/ Bodiless(todo'[k])
        BY <1>1 DEF TodoTrue, Brings, Claims, Sends, Bodiless
      <3> QED
        BY <2>5, <2>7 DEF PlanInv, TodoTrue
    <2>10. WatcherAlone'
      <3> SUFFICES ASSUME NEW k \in DOMAIN todo', ByWatcher(todo'[k]) PROVE FALSE
        BY DEF WatcherAlone, ByWatcher
      <3> QED
        BY <1>1, <2>6, <2>7 DEF PlanInv, WatcherAlone
    <2>11. GotTrue'
      BY <1>1 DEF GotTrue
    <2>12. ClaimsApart'
      <3> SUFFICES ASSUME Provider = "onedrive"
                   PROVE  /\ \A x, y \in batch' : Reports(x) /\ Reports(y) /\ x.path = y.path => x = y
                          /\ \A x \in batch', k \in DOMAIN todo' :
                               Reports(x) /\ Claims(todo'[k]) => todo'[k].path # x.path
                          /\ \A j, k \in DOMAIN todo' :
                               Claims(todo'[j]) /\ Claims(todo'[k]) /\ todo'[j].path = todo'[k].path
                                 => j = k
        BY DEF ClaimsApart, Reports, Claims, Sends, Brings
      <3>1. \A x, y \in batch : Reports(x) /\ Reports(y) /\ x.path = y.path => x = y
        BY DEF PlanInv, ClaimsApart
      <3>2. \A x \in batch, k \in DOMAIN todo :
              Reports(x) /\ Claims(todo[k]) => todo[k].path # x.path
        BY DEF PlanInv, ClaimsApart
      <3>3. \A j, k \in DOMAIN todo :
              Claims(todo[j]) /\ Claims(todo[k]) /\ todo[j].path = todo[k].path => j = k
        BY DEF PlanInv, ClaimsApart
      <3>4. ASSUME NEW x \in batch', NEW k \in DOMAIN todo', Reports(x), Claims(todo'[k])
            PROVE  todo'[k].path # x.path
        BY <1>1, <2>1, <2>4, <2>7, <3>1, <3>2, <3>4 DEF a
      <3>5. ASSUME NEW j \in DOMAIN todo', NEW k \in DOMAIN todo',
                   Claims(todo'[j]), Claims(todo'[k]), todo'[j].path = todo'[k].path
            PROVE  j = k
        BY <2>1, <2>4, <2>7, <3>2, <3>3, <3>5 DEF a
      <3> QED
        BY <1>1, <3>1, <3>4, <3>5
    <2> QED
      BY <2>8, <2>9, <2>10, <2>11, <2>12 DEF PlanInv
  <1> QED
    BY <1>2, <1>3 DEF ClassifyChange, Queue

(* Nothing is decided, or what was has been dropped.                       *)
LEMMA BlankPlan ==
  ASSUME batch' = {}, todo' = <<>>, phase' \notin {"fetched", "installed", "sent"}
  PROVE  PlanInv'
  BY DEF PlanInv, BatchTrue, TodoTrue, WatcherAlone, ClaimsApart, GotTrue

(* A local event starts an action of its own.                              *)
LEMMA TakePlan ==
  ASSUME TypeInv, PlanInv, NEW p \in Paths, TakeEvent(p)
  PROVE  PlanInv'
  <1>1. /\ phase = "idle" /\ phase' = "apply" /\ batch = {} /\ batch' = {}
        /\ todo' = <<LocalAction(p)>>
    BY DEF TakeEvent, Deliver, Idle, PlanInv, BatchTrue
  <1>2. /\ Len(todo') = 1 /\ DOMAIN todo' = {1} /\ todo'[1] = LocalAction(p)
    BY <1>1
  <1>3. Sends(todo'[1])
    BY <1>2 DEF Sends, LocalAction
  <1>4. TodoTrue'
    <2> SUFFICES ASSUME NEW k \in DOMAIN todo' PROVE Claims(todo'[k])
      BY DEF TodoTrue, Brings, Claims, Sends, Bodiless
    <2> QED
      BY <1>2, <1>3 DEF Claims
  <1>5. BatchTrue' /\ WatcherAlone' /\ GotTrue'
    BY <1>1, <1>2 DEF BatchTrue, WatcherAlone, GotTrue
  <1>6. ClaimsApart'
    BY <1>1, <1>2 DEF ClaimsApart
  <1> QED
    BY <1>4, <1>5, <1>6 DEF PlanInv

(* An action goes from one of its steps to the next.                       *)
LEMMA OnwardPlan ==
  ASSUME TypeInv, PlanInv, Lasting, Working,
         UNCHANGED <<batch, todo>>, phase' \in {"moved", "fetched", "installed", "sent"},
         phase' = "sent" \/ ~ByWatcher(Act),
         phase' \in {"fetched", "installed", "sent"} => got'.id # None,
         phase' = "fetched" => Claims(Act)
  PROVE  PlanInv'
  <1>1. todo \in Seq(Action) /\ todo # <<>> /\ batch = {} /\ batch' = {}
    BY DEF TypeInv, TypeOK, EngineTypeOK, TaskInv, PlanInv, BatchTrue, Working
  <1>2. BatchTrue' /\ TodoTrue' /\ ClaimsApart'
    BY <1>1, PlanCarried
  <1>3. WatcherAlone'
    <2> SUFFICES ASSUME NEW k \in DOMAIN todo, ByWatcher(todo[k])
                 PROVE  Len(todo) = 1 /\ phase' \in {"apply", "sent"}
      BY DEF WatcherAlone, ByWatcher
    <2>1. Len(todo) = 1
      BY DEF PlanInv, WatcherAlone
    <2>2. todo[k] = Act
      BY <1>1, <2>1 DEF Act
    <2> QED
      BY <2>1, <2>2
  <1>4. GotTrue'
    BY DEF GotTrue, Claims, Sends, Brings, Act
  <1> QED
    BY <1>2, <1>3, <1>4 DEF PlanInv

LEMMA ApplyPlan ==
  ASSUME TypeInv, TransferTraced, PlanInv, Lasting, Apply
  PROVE  PlanInv'
  <1>0. /\ todo \in Seq(Action) /\ Working /\ todo # <<>>
        /\ Act = todo[1] /\ 1 \in DOMAIN todo
    <2>1. Working
      BY DEF Apply, MoveAside, CanMoveAside, MakeFolder, CanMakeFolder, Fetch, CanFetch, Cleared,
             Install, CanInstall, Record, CanRecord, CreateFolder, CanCreateFolder, Send, CanSend,
             DeleteLocal, CanDeleteLocal, ActionFails, Working
    <2> QED
      BY <2>1 DEF TypeInv, TypeOK, EngineTypeOK, TaskInv, Act
  <1>1. ASSUME Finish, UNCHANGED batch PROVE PlanInv'
    BY <1>0, <1>1, FinishPlan
  <1>2. ~Sends(Act) => ~ByWatcher(Act)
    BY DEF Sends, ByWatcher
  <1>3. CASE MoveAside
    <2>1. Act.kind = "conflict" /\ UNCHANGED batch
      BY <1>3 DEF MoveAside, CanMoveAside
    <2>2. CASE phase' = "moved" /\ UNCHANGED todo
      BY <1>0, <2>1, <2>2, OnwardPlan DEF ByWatcher
    <2> QED
      BY <1>1, <1>3, <2>1, <2>2 DEF MoveAside
  <1>4. CASE Fetch
    <2>1. CASE Finish
      BY <1>1, <1>4, <2>1 DEF Fetch
    <2>2. CASE /\ Act.id \in Ids /\ LiveFile(Act.id) /\ UNCHANGED todo /\ phase' = "fetched"
               /\ got' = [id |-> Act.id, hash |-> Act.hash, body |-> cloud[Act.id].body]
      <3>1. Brings(Act) /\ ~Act.folder /\ UNCHANGED batch
        BY <1>4 DEF Fetch, CanFetch, Brings
      <3>2. ~Bodiless(Act)
        BY <2>2, <3>1 DEF Bodiless, LiveFile, Live
      <3>3. Claims(Act)
        BY <1>0, <3>1, <3>2 DEF PlanInv, TodoTrue
      <3>4. got'.id # None
        BY <2>2, SyncAssumption
      <3>5. ~ByWatcher(Act)
        BY <3>1 DEF ByWatcher, Brings
      <3> QED
        BY <1>0, <2>2, <3>1, <3>3, <3>4, <3>5, OnwardPlan
    <2> QED
      BY <1>4, <2>1, <2>2 DEF Fetch
  <1>5. CASE Install
    <2>1. /\ phase = "fetched" /\ phase' = "installed" /\ UNCHANGED <<batch, todo, got>>
      BY <1>5 DEF Install, CanInstall
    <2>2. got'.id # None
      BY <2>1 DEF PlanInv, GotTrue
    <2>3. ~ByWatcher(Act)
      BY <2>1 DEF TransferTraced, Brings, ByWatcher
    <2> QED
      BY <1>0, <2>1, <2>2, <2>3, OnwardPlan
  <1>6. CASE Send
    <2>1. PICK t \in Targets :
            \/ /\ phase' = "sent" /\ UNCHANGED todo
               /\ got' = [id |-> t[1], hash |-> local[Act.path], body |-> None]
            \/ Finish
      BY <1>6 DEF Send
    <2>2. t[1] \in Ids /\ UNCHANGED batch
      BY <1>6 DEF Targets, FreeIds, LiveAt, Send
    <2>3. CASE Finish
      BY <1>1, <2>2, <2>3
    <2>4. CASE /\ phase' = "sent" /\ UNCHANGED todo
               /\ got' = [id |-> t[1], hash |-> local[Act.path], body |-> None]
      <3>1. got'.id # None
        BY <2>2, <2>4, SyncAssumption
      <3> QED
        BY <1>0, <2>2, <2>4, <3>1, OnwardPlan
    <2> QED
      BY <2>1, <2>3, <2>4
  <1>7. CASE MakeFolder \/ Record \/ CreateFolder \/ DeleteLocal \/ ActionFails
    BY <1>1, <1>7 DEF MakeFolder, Record, CreateFolder, DeleteLocal, ActionFails
  <1> QED
    BY <1>3, <1>4, <1>5, <1>6, <1>7 DEF Apply

LEMMA NextPlan ==
  ASSUME TypeInv, TransferTraced, NamesInv, PlanInv, [Next]_vars
  PROVE  PlanInv'
  <1>1. Lasting
    BY NextNames
  <1>2. ASSUME UNCHANGED <<phase, batch, todo, got>> PROVE PlanInv'
    BY <1>1, <1>2, SamePlan
  <1>3. CASE User \/ Clients \/ NextSecond \/ RefreshWatchers
    BY <1>2, <1>3
    DEF User, UserWrite, UserMakeDir, UserRemove, FileTouched, ByUser, SetPaused, RemovePair,
        Clients, RemoteCreate, RemoteCreateAwkward, RemoteCreateFolder, RemoteEdit, RemoteDelete,
        RemoteMove, ByClient, NextSecond, RefreshWatchers, engineVars
  <1>4. CASE LocalEvents
    <2>1. PICK p \in Paths : IgnoreEvent(p) \/ LoseEvent(p) \/ TakeEvent(p)
      BY <1>4 DEF LocalEvents
    <2>2. CASE TakeEvent(p)
      BY <2>2, TakePlan
    <2>3. CASE IgnoreEvent(p) \/ LoseEvent(p)
      BY <1>2, <2>3 DEF IgnoreEvent, LoseEvent, Deliver
    <2> QED
      BY <2>1, <2>2, <2>3
  <1>5. CASE BeginPoll
    <2>1. phase = "idle" /\ phase' = "due" /\ todo = <<>> /\ batch = {} /\ UNCHANGED <<todo, batch>>
      BY <1>5 DEF BeginPoll, Idle, TypeInv, TaskInv, PlanInv, BatchTrue
    <2> QED
      BY <2>1, BlankPlan
  <1>6. CASE List
    BY <1>6, ListPlan
  <1>7. ASSUME NEW ch \in batch, ClassifyChange(ch) PROVE PlanInv'
    BY <1>1, <1>7, ClassifyPlan
  <1>8. CASE CycleFails
    BY <1>8, BlankPlan DEF CycleFails
  <1>9. CASE CommitCursor
    <2>1. /\ phase = "classify" /\ batch = {} /\ UNCHANGED <<batch, todo, got>>
          /\ phase' \in {"idle", "apply"}
      BY <1>9 DEF CommitCursor
    <2>2. BatchTrue' /\ TodoTrue' /\ ClaimsApart'
      BY <1>1, <2>1, PlanCarried
    <2>3. WatcherAlone'
      BY <2>1 DEF PlanInv, WatcherAlone, ByWatcher
    <2> QED
      BY <2>1, <2>2, <2>3 DEF PlanInv, GotTrue
  <1>10. CASE Apply
    BY <1>1, <1>10, ApplyPlan
  <1>11. CASE UNCHANGED vars
    BY <1>2, <1>11 DEF vars, engineVars
  <1> QED
    BY <1>3, <1>4, <1>5, <1>6, <1>7, <1>8, <1>9, <1>10, <1>11 DEF Next, Daemon, RunCycle

-----------------------------------------------------------------------------
(* What a step does to the files and to what the cloud has had.            *)

(* Nothing is stored, and no file is put in place.                         *)
Quietly ==
    /\ InCloudOnce' = InCloudOnce
    /\ copies' \subseteq copies
    /\ \A p \in Paths : local'[p] = local[p] \/ local'[p] \notin Content

(* Another client stores what nobody ever had.                             *)
StoredThere(c) ==
    /\ Unused(c)
    /\ InCloudOnce' = InCloudOnce \cup {c}
    /\ UNCHANGED <<local, copies>>

(* Marks that say nothing of the cloud.                                    *)
LEMMA SameHistory ==
  ASSUME NEW S, ledger' = ledger \cup S,
         \A c : <<c, "wroteThere">> \notin S /\ <<c, "sent">> \notin S
  PROVE  ledger \subseteq ledger' /\ InCloudOnce' = InCloudOnce
  BY DEF InCloudOnce, Tagged

LEMMA MarkNotStored ==
  ASSUME NEW cs, NEW tag \in Tags \ {"wroteThere", "sent"}, NEW c
  PROVE  <<c, "wroteThere">> \notin Mark(cs, tag) /\ <<c, "sent">> \notin Mark(cs, tag)
  BY DEF Mark

LEMMA UnservedNotStored ==
  \A c : <<c, "wroteThere">> \notin Unserved /\ <<c, "sent">> \notin Unserved
  BY MarkNotStored DEF Unserved, Tags

LEMMA DestroyedNotStored ==
  ASSUME NEW p, NEW c
  PROVE  <<c, "wroteThere">> \notin Destroyed(p) /\ <<c, "sent">> \notin Destroyed(p)
  BY MarkNotStored DEF Destroyed, Tags

LEMMA LocalType == TypeInv => local \in [Paths -> Content \cup {Absent, Dir}]
  BY DEF TypeInv, TypeOK, FolderTypeOK

LEMMA MoveEffect ==
  ASSUME TypeInv, MoveAside
  PROVE  /\ ledger \subseteq ledger' /\ InCloudOnce' = InCloudOnce
         /\ Act.path \in Paths /\ local'[Act.path] = Absent
         /\ \A p \in Paths : local'[p] = local[p] \/ local'[p] = Absent
         /\ \A k \in copies' : k \in copies \/ k.body = local[Act.path]
  <1> DEFINE copy == ConflictingFileName(Act.path)
             gone == Mark({k.body : k \in Named(copy)}, "clobbered")
  <1>1. RenameAside(Act.path, copy) /\ Act.path \in Paths
    BY ActDecided DEF MoveAside, CanMoveAside, Working
  <1>2. ledger \subseteq ledger' /\ InCloudOnce' = InCloudOnce
    <2>1. \A c : <<c, "wroteThere">> \notin gone /\ <<c, "sent">> \notin gone
      BY MarkNotStored DEF Tags
    <2>2. ledger' = ledger \cup gone \/ ledger' = ledger \cup (gone \cup Unserved)
      BY DEF MoveAside
    <2> HIDE DEF gone
    <2> QED
      BY <2>1, <2>2, UnservedNotStored, SameHistory
  <1> QED
    BY <1>1, <1>2 DEF RenameAside

LEMMA InstallEffect ==
  ASSUME TypeInv, StepSafe, Install
  PROVE  /\ ledger \subseteq ledger' /\ InCloudOnce' = InCloudOnce
         /\ UNCHANGED copies /\ Act.path \in Paths
         /\ local' = [local EXCEPT ![Act.path] = got.body] /\ got.body \in InCloudOnce
  <1>1. /\ phase = "fetched" /\ Put(Act.path, got.body) /\ UNCHANGED copies
        /\ ledger' = ledger \cup (Destroyed(Act.path) \cup Mark({got.body}, "fetched"))
    BY DEF Install, CanInstall
  <1>2. \A c : /\ <<c, "wroteThere">> \notin Mark({got.body}, "fetched")
               /\ <<c, "sent">> \notin Mark({got.body}, "fetched")
    BY MarkNotStored DEF Tags
  <1>3. ledger \subseteq ledger' /\ InCloudOnce' = InCloudOnce
    BY <1>1, <1>2, DestroyedNotStored, SameHistory
  <1>4. Act.path \in Paths
    BY <1>1, ActDecided DEF Working
  <1> QED
    BY <1>1, <1>3, <1>4 DEF Put, StepSafe

LEMMA SendEffect ==
  ASSUME TypeInv, Send
  PROVE  /\ ledger \subseteq ledger' /\ InCloudOnce' = InCloudOnce \cup {local[Act.path]}
         /\ local[Act.path] \in Content /\ Act.path \in Paths
         /\ UNCHANGED <<local, copies, row>>
  <1> DEFINE sent == Mark({local[Act.path]}, "sent")
             gone(i) == Mark({cloud[i].body} \ KnownHere, "overwritten")
  <1>1. UNCHANGED <<local, copies, row>> /\ IsFile(Act.path) /\ Act.path \in Paths
    BY ActDecided DEF Send, CanSend, Working, dbVars, folderVars
  <1>2. PICK i : \/ ledger' = ledger \cup sent \cup gone(i)
                 \/ ledger' = ledger \cup sent \cup gone(i) \cup Unserved
    BY DEF Send
  <1>3. /\ \A c : <<c, "wroteThere">> \notin sent \cup gone(i) \cup Unserved
        /\ \A c : <<c, "sent">> \notin gone(i) \cup Unserved
        /\ \A c : <<c, "sent">> \in sent <=> c = local[Act.path]
    <2>1. \A c : <<c, "wroteThere">> \notin sent
      BY OtherTag DEF Tags
    <2>2. \A c : <<c, "sent">> \in sent <=> c = local[Act.path]
      BY <1>1 DEF Mark, IsFile
    <2>3. \A c : <<c, "wroteThere">> \notin gone(i) /\ <<c, "sent">> \notin gone(i)
      BY MarkNotStored DEF Tags
    <2> HIDE DEF sent, gone
    <2> QED
      BY <2>1, <2>2, <2>3, UnservedNotStored
  <1> HIDE DEF sent, gone
  <1>4. ledger \subseteq ledger'
    BY <1>2
  <1>5. Tagged("wroteThere")' = Tagged("wroteThere")
    BY <1>2, <1>3 DEF Tagged
  <1>6. Tagged("sent")' = Tagged("sent") \cup {local[Act.path]}
    BY <1>1, <1>2, <1>3 DEF Tagged, IsFile
  <1> QED
    BY <1>1, <1>4, <1>5, <1>6 DEF InCloudOnce, IsFile

LEMMA WriteEffect ==
  ASSUME TypeInv, NEW p \in Paths, NEW c \in Content, UserWrite(p, c)
  PROVE  /\ ledger \subseteq ledger' /\ InCloudOnce' = InCloudOnce
         /\ c \notin InCloudOnce /\ c \notin Tagged("wroteHere") /\ c \in Tagged("wroteHere")'
         /\ local' = [local EXCEPT ![p] = c] /\ UNCHANGED <<copies, row, phase, todo>>
  <1> DEFINE S == Mark({c}, "wroteHere")
                    \cup (IF AtStake(p) THEN Mark({c}, "racy") ELSE {})
                    \cup (IF watching THEN {} ELSE Mark({c}, "blind"))
                    \cup (IF paused THEN Mark({c}, "paused") ELSE {})
  <1>1. /\ Unused(c) /\ Put(p, c) /\ UNCHANGED <<copies, row, phase, todo>>
        /\ ledger' = ledger \cup S
    BY DEF UserWrite, ByUser, dbVars, engineVars
  <1>2. \A d : <<d, "wroteThere">> \notin S /\ <<d, "sent">> \notin S
    BY MarkNotStored DEF Tags
  <1>3. <<c, "wroteHere">> \in S
    BY DEF Mark
  <1>4. c \notin InCloudOnce /\ c \notin Tagged("wroteHere")
    BY <1>1 DEF Unused, Tags, InCloudOnce, Tagged
  <1> HIDE DEF S
  <1>5. ledger \subseteq ledger' /\ InCloudOnce' = InCloudOnce
    BY <1>1, <1>2, SameHistory
  <1>6. c \in Tagged("wroteHere")'
    BY <1>1, <1>3 DEF Tagged
  <1> QED
    BY <1>1, <1>4, <1>5, <1>6 DEF Put

(* A step that neither installs, nor sends, nor writes, nor moves a file.  *)
LEMMA Effects ==
  ASSUME TypeInv, [Next]_vars
  PROVE  /\ ledger \subseteq ledger'
         /\ \/ Quietly \/ MoveAside \/ Install \/ Send
            \/ \E p \in Paths, c \in Content : UserWrite(p, c)
            \/ \E c \in Content : StoredThere(c)
  <1> DEFINE Goal == ledger \subseteq ledger' /\ (Quietly \/ (\E c \in Content : StoredThere(c)))
  <1> USE DEF cloudVars, dbVars, folderVars, engineVars
  <1>0. local \in [Paths -> Content \cup {Absent, Dir}] /\ Content \cap {Absent, Dir} = {}
    BY LocalType, SyncAssumption
  <1>1. ASSUME NEW S, NEW tag \in Tags \ {"wroteThere", "sent"}, ledger' = ledger \cup Mark(S, tag)
        PROVE  ledger \subseteq ledger' /\ InCloudOnce' = InCloudOnce
    BY <1>1, SameHistory, MarkNotStored
  <1>2. UNCHANGED ledger => ledger \subseteq ledger' /\ InCloudOnce' = InCloudOnce
    BY DEF InCloudOnce, Tagged
  <1>3. ASSUME ledger \subseteq ledger' /\ InCloudOnce' = InCloudOnce, UNCHANGED <<local, copies>>
        PROVE  Goal
    BY <1>3 DEF Quietly
  <1>4. CASE RefreshWatchers
    BY <1>1, <1>3, <1>4 DEF RefreshWatchers, Tags
  <1>5. ASSUME NEW p \in Paths, IgnoreEvent(p) \/ LoseEvent(p) \/ TakeEvent(p) PROVE Goal
    <2>1. UNCHANGED <<local, copies>>
      BY <1>5 DEF IgnoreEvent, LoseEvent, TakeEvent, Deliver
    <2>2. ledger' = ledger \/ ledger' = ledger \cup Mark({local[p]}, "dropped")
      BY <1>5 DEF IgnoreEvent, LoseEvent, TakeEvent
    <2> QED
      BY <1>1, <1>2, <1>3, <2>1, <2>2 DEF Tags
  <1>6. CASE BeginPoll
    BY <1>2, <1>3, <1>6 DEF BeginPoll
  <1>7. CASE List
    <2>1. ledger \subseteq ledger' /\ InCloudOnce' = InCloudOnce
      BY <1>1, <1>2, <1>7 DEF List, Tags
    <2> QED
      BY <1>3, <1>7, <2>1 DEF List
  <1>8. CASE (\E ch \in batch : ClassifyChange(ch)) \/ CycleFails \/ CommitCursor
    BY <1>2, <1>3, <1>8 DEF ClassifyChange, CycleFails, CommitCursor
  <1>9. ASSUME NEW ps, MakeDirs(ps) PROVE \A p \in Paths : local'[p] = local[p] \/ local'[p] = Dir
    BY <1>9 DEF MakeDirs
  <1>10. CASE MakeFolder
    BY <1>0, <1>2, <1>9, <1>10 DEF MakeFolder, Quietly
  <1>11. CASE Fetch
    <2>1. ledger \subseteq ledger' /\ InCloudOnce' = InCloudOnce
      BY <1>2, <1>11, SameHistory, UnservedNotStored DEF Fetch
    <2> QED
      BY <1>0, <1>9, <1>11, <2>1 DEF Fetch, Quietly
  <1>12. CASE Record \/ CreateFolder
    BY <1>2, <1>3, <1>12 DEF Record, CreateFolder
  <1>13. CASE DeleteLocal
    <2>1. ledger \subseteq ledger' /\ InCloudOnce' = InCloudOnce
      BY <1>13, SameHistory, DestroyedNotStored DEF DeleteLocal
    <2>2. \A p \in Paths : local'[p] = local[p] \/ local'[p] = Absent
      BY <1>0, <1>13 DEF DeleteLocal, Put
    <2> QED
      BY <1>0, <1>13, <2>1, <2>2 DEF DeleteLocal, Quietly
  <1>14. CASE ActionFails
    <2>1. ledger \subseteq ledger' /\ InCloudOnce' = InCloudOnce
      BY <1>14, SameHistory, UnservedNotStored DEF ActionFails
    <2> QED
      BY <1>3, <1>14, <2>1 DEF ActionFails
  <1>15. CASE MoveAside
    BY <1>15, MoveEffect
  <1>16. CASE Install
    <2>1. /\ ledger' = ledger \cup (Destroyed(Act.path) \cup Mark({got.body}, "fetched"))
      BY <1>16 DEF Install
    <2> QED
      BY <1>16, <2>1
  <1>17. CASE Send
    BY <1>17, SendEffect
  <1>18. ASSUME NEW p \in Paths, NEW c \in Content, UserWrite(p, c)
         PROVE  ledger \subseteq ledger'
    BY <1>18, WriteEffect
  <1>19. ASSUME NEW p \in Paths, UserMakeDir(p) \/ UserRemove(p) \/ FileTouched(p) PROVE Goal
    <2>1. UNCHANGED <<ledger, copies>>
      BY <1>19 DEF UserMakeDir, UserRemove, FileTouched, ByUser
    <2>2. \A q \in Paths : local'[q] = local[q] \/ local'[q] = Dir \/ local'[q] = Absent
      BY <1>0, <1>19 DEF UserMakeDir, UserRemove, FileTouched, Put
    <2> QED
      BY <1>0, <1>2, <2>1, <2>2 DEF Quietly
  <1>20. CASE SetPaused \/ RemovePair \/ NextSecond
    BY <1>2, <1>3, <1>20 DEF SetPaused, RemovePair, NextSecond
  <1>21. ASSUME NEW c \in Content, Unused(c), ByClient, ledger' = ledger \cup Mark({c}, "wroteThere")
         PROVE  Goal
    <2>1. \A d, t : <<d, t>> \in Mark({c}, "wroteThere") <=> d = c /\ t = "wroteThere"
      BY DEF Mark
    <2>2. InCloudOnce' = InCloudOnce \cup {c}
      BY <1>21, <2>1 DEF InCloudOnce, Tagged
    <2> QED
      BY <1>21, <2>2 DEF StoredThere, ByClient
  <1>22. ASSUME NEW i \in Ids, NEW c \in Content,
                \/ \E p \in Paths : RemoteCreate(i, p, c)
                \/ RemoteCreateAwkward(i, c)
                \/ RemoteEdit(i, c)
         PROVE  Goal
    BY <1>21, <1>22 DEF RemoteCreate, RemoteCreateAwkward, RemoteEdit
  <1>23. ASSUME NEW i \in Ids,
                \/ \E p \in Paths : RemoteCreateFolder(i, p)
                \/ \E p \in Paths \cup {Elsewhere} : RemoteMove(i, p)
                \/ RemoteDelete(i)
         PROVE  Goal
    <2>1. ByClient /\ UNCHANGED ledger
      BY <1>23 DEF RemoteCreateFolder, RemoteMove, RemoteDelete
    <2> QED
      BY <1>2, <1>3, <2>1 DEF ByClient
  <1>24. CASE UNCHANGED vars
    BY <1>2, <1>3, <1>24 DEF vars
  <1>25. CASE Daemon
    BY <1>4, <1>5, <1>6, <1>7, <1>8, <1>10, <1>11, <1>12, <1>13, <1>14, <1>15, <1>16, <1>17, <1>25
    DEF Daemon, LocalEvents, RunCycle, Apply
  <1>26. CASE User \/ NextSecond
    BY <1>18, <1>19, <1>20, <1>26 DEF User
  <1>27. CASE Clients
    BY <1>22, <1>23, <1>27 DEF Clients
  <1> QED
    BY <1>24, <1>25, <1>26, <1>27 DEF Next

(* What the cloud never had stays in one place.                            *)
LEMMA UnsentKept ==
  ASSUME UnsentOnce, ledger \subseteq ledger', copies' \subseteq copies,
         \A p \in Paths : \/ local'[p] = local[p]
                          \/ local'[p] \notin Content
                          \/ local'[p] \in InCloudOnce
  PROVE  UnsentOnce'
  <1>1. InCloudOnce \subseteq InCloudOnce' /\ Tagged("wroteHere") \subseteq Tagged("wroteHere")'
    BY DEF InCloudOnce, Tagged
  <1> QED
    BY <1>1 DEF UnsentOnce, Unsent

LEMMA NextUnsent ==
  ASSUME TypeInv, StepSafe, UnsentOnce, [Next]_vars
  PROVE  UnsentOnce'
  <1>0. local \in [Paths -> Content \cup {Absent, Dir}] /\ Content \cap {Absent, Dir} = {}
    BY LocalType, SyncAssumption
  <1>1. CASE Quietly \/ \E c \in Content : StoredThere(c)
    BY <1>1, Effects, UnsentKept DEF Quietly, StoredThere
  <1>2. CASE Install
    BY <1>0, <1>2, InstallEffect, UnsentKept
  <1>3. CASE Send
    BY <1>3, SendEffect, UnsentKept
  <1>4. CASE MoveAside
    <2>1. /\ InCloudOnce' = InCloudOnce /\ Tagged("wroteHere") \subseteq Tagged("wroteHere")'
          /\ Act.path \in Paths /\ local'[Act.path] = Absent
          /\ \A p \in Paths : local'[p] = local[p] \/ local'[p] = Absent
          /\ \A k \in copies' : k \in copies \/ k.body = local[Act.path]
      BY <1>4, MoveEffect DEF Tagged
    <2> QED
      BY <1>0, <2>1 DEF UnsentOnce, Unsent
  <1>5. ASSUME NEW p \in Paths, NEW c \in Content, UserWrite(p, c) PROVE UnsentOnce'
    <2>1. /\ InCloudOnce' = InCloudOnce /\ Tagged("wroteHere") \subseteq Tagged("wroteHere")'
          /\ c \notin InCloudOnce /\ c \notin Tagged("wroteHere") /\ c \in Tagged("wroteHere")'
          /\ local'[p] = c /\ \A q \in Paths \ {p} : local'[q] = local[q]
          /\ UNCHANGED copies
      BY <1>0, <1>5, WriteEffect DEF Tagged
    <2> QED
      BY <1>0, <2>1 DEF UnsentOnce, Unsent
  <1> QED
    BY <1>1, <1>2, <1>3, <1>4, <1>5, Effects

(* What the cloud has had is where it was, or was just installed or sent.  *)
LEMMA NextStale ==
  ASSUME TypeInv, StepSafe, UnsentOnce, [Next]_vars,
         NEW p \in Paths, local'[p] \in InCloudOnce'
  PROVE  \/ local'[p] = local[p] /\ ~Fresh(p)
         \/ (Install \/ Send) /\ p = Act.path
  <1>0. /\ local \in [Paths -> Content \cup {Absent, Dir}] /\ Content \cap {Absent, Dir} = {}
        /\ InCloudOnce \subseteq Content /\ InCloudOnce' \subseteq Content
    BY LocalType, SyncAssumption DEF InCloudOnce, Tagged
  <1>1. CASE Quietly
    BY <1>0, <1>1 DEF Quietly, Fresh
  <1>2. ASSUME NEW c \in Content, StoredThere(c) PROVE local'[p] = local[p] /\ ~Fresh(p)
    <2>1. UNCHANGED local /\ Unused(c) /\ InCloudOnce' = InCloudOnce \cup {c}
      BY <1>2 DEF StoredThere
    <2>2. c \notin Tagged("wroteHere") /\ c \notin InCloudOnce
      BY <2>1 DEF Unused, Tagged, Tags, InCloudOnce
    <2> QED
      BY <1>0, <2>1, <2>2 DEF Fresh, UnsentOnce, Unsent
  <1>3. CASE MoveAside
    BY <1>0, <1>3, MoveEffect DEF Fresh
  <1>4. CASE Install
    BY <1>0, <1>4, InstallEffect DEF Fresh
  <1>5. CASE Send
    BY <1>0, <1>5, SendEffect DEF Fresh, UnsentOnce, Unsent
  <1>6. ASSUME NEW q \in Paths, NEW c \in Content, UserWrite(q, c)
        PROVE  local'[p] = local[p] /\ ~Fresh(p)
    BY <1>0, <1>6, WriteEffect DEF Fresh
  <1> QED
    BY <1>1, <1>2, <1>3, <1>4, <1>5, <1>6, Effects

(* A failure is not undone, and neither is the removal of the pair.        *)
LEMMA UnharmedBefore ==
  ASSUME TypeInv, [Next]_vars, Unharmed'
  PROVE  Unharmed /\ UNCHANGED faults
  <1> USE DEF dbVars
  <1>0. faults \in Nat
    BY DEF TypeInv, TypeOK
  <1>1. /\ present' = present \/ ~present'
        /\ faults' = faults \/ faults' = faults + 1
    <2>1. CASE User \/ Clients \/ NextSecond
      BY <2>1
      DEF User, UserWrite, UserMakeDir, UserRemove, FileTouched, ByUser, SetPaused, RemovePair,
          RemovePairRow, Clients, RemoteCreate, RemoteCreateAwkward, RemoteCreateFolder,
          RemoteEdit, RemoteDelete, RemoteMove, ByClient, NextSecond
    <2>2. CASE RefreshWatchers \/ LocalEvents \/ BeginPoll \/ RunCycle
      BY <2>2
      DEF RefreshWatchers, LocalEvents, IgnoreEvent, LoseEvent, TakeEvent, Deliver, BeginPoll,
          RunCycle, List, ClassifyChange, CycleFails, CommitCursor, Fault, NoFault
    <2>3. CASE Apply
      BY <2>3
      DEF Apply, MoveAside, MakeFolder, Fetch, Install, Record, CreateFolder, Send, DeleteLocal,
          ActionFails, Fault, NoFault, DbFails
    <2>4. CASE UNCHANGED vars
      BY <2>4 DEF vars
    <2> QED
      BY <2>1, <2>2, <2>3, <2>4 DEF Next, Daemon
  <1>2. present
    <2>1. present \in BOOLEAN /\ present'
      BY DEF TypeInv, TypeOK, DbTypeOK, Unharmed
    <2> QED
      BY <1>1, <2>1
  <1>3. faults' = 0
    BY DEF Unharmed
  <1> QED
    BY <1>0, <1>1, <1>2, <1>3 DEF Unharmed

(* How the list of decisions changes.                                      *)
LEMMA NextDecisions ==
  ASSUME [Next]_vars, TypeInv
  PROVE  \/ /\ todo' = todo
            /\ \/ phase' = phase
               \/ phase \notin {"moved", "fetched", "installed", "sent"}
               \/ phase \in {"moved", "fetched"} /\ phase' \in {"fetched", "installed"}
         \/ todo' = <<>>
         \/ Working /\ todo' = Tail(todo)
         \/ \E p \in Paths : TakeEvent(p)
         \/ \E ch \in batch : ClassifyChange(ch)
  <1> USE DEF engineVars
  <1>1. CASE User \/ Clients \/ NextSecond
    BY <1>1
    DEF User, UserWrite, UserMakeDir, UserRemove, FileTouched, ByUser, SetPaused, RemovePair,
        Clients, RemoteCreate, RemoteCreateAwkward, RemoteCreateFolder, RemoteEdit, RemoteDelete,
        RemoteMove, ByClient, NextSecond
  <1>2. CASE RefreshWatchers \/ LocalEvents \/ BeginPoll \/ RunCycle
    BY <1>2
    DEF RefreshWatchers, LocalEvents, IgnoreEvent, LoseEvent, Deliver, BeginPoll, Idle,
        RunCycle, List, CycleFails, CommitCursor
  <1>3. CASE Apply
    BY <1>3
    DEF Apply, MoveAside, CanMoveAside, MakeFolder, CanMakeFolder, Fetch, CanFetch, Cleared,
        Install, CanInstall, Record, CanRecord, CreateFolder, CanCreateFolder, Send, CanSend,
        DeleteLocal, CanDeleteLocal, ActionFails, Finish, Working
  <1>4. CASE UNCHANGED vars
    BY <1>4 DEF vars
  <1> QED
    BY <1>1, <1>2, <1>3, <1>4 DEF Next, Daemon

(* Classify and local_action decide by the row: a file the row is right    *)
(* about does not count as changed.                                        *)
LEMMA ChangedIsFresh ==
  ASSUME RowsCurrent, phase \notin {"installed", "sent"}, NEW p \in Paths,
         LocalChanged(p) \/ ~NothingToSend(p)
  PROVE  Fresh(p)
  BY SyncAssumption DEF RowsCurrent, LocalChanged, NothingToSend, Fresh, Hash, InCloudOnce, Tagged

LEMMA NextRows ==
  ASSUME TypeInv, StepSafe, GotTrue, UnsentOnce, RowsCurrent, [Next]_vars, Unharmed'
  PROVE  RowsCurrent'
  <1> SUFFICES ASSUME NEW p \in Paths, local'[p] \in InCloudOnce'
               PROVE  \/ row'[p].id # None /\ row'[p].lhash = local'[p]
                      \/ phase' \in {"installed", "sent"} /\ Act'.path = p
    BY DEF RowsCurrent, Fresh
  <1> DEFINE Goal == \/ row'[p].id # None /\ row'[p].lhash = local'[p]
                     \/ phase' \in {"installed", "sent"} /\ Act'.path = p
  <1> USE DEF dbVars, engineVars
  <1>0. /\ Unharmed /\ UNCHANGED faults /\ ~Fault
        /\ local'[p] \in Content /\ Content \cap {Absent, Dir} = {}
        /\ row \in [Paths -> Row] /\ local \in [Paths -> Content \cup {Absent, Dir}]
    <2>1. UNCHANGED faults /\ faults \in Nat
      BY UnharmedBefore DEF TypeInv, TypeOK
    <2>2. local'[p] \in Content
      BY DEF InCloudOnce, Tagged
    <2> QED
      BY <2>1, <2>2, UnharmedBefore, LocalType, SyncAssumption DEF Fault, TypeInv, TypeOK, DbTypeOK
  <1>1. \/ local'[p] = local[p] /\ ~Fresh(p)
        \/ (Install \/ Send) /\ p = Act.path
    BY NextStale
  <1>2. ASSUME local'[p] = local[p] /\ ~Fresh(p), row'[p] = row[p],
               \/ UNCHANGED <<phase, todo>>
               \/ phase \notin {"installed", "sent"}
               \/ Act.path # p
        PROVE  Goal
    BY <1>2 DEF RowsCurrent, Act
  <1>3. CASE Install
    <2>1. phase = "fetched" /\ phase' = "installed" /\ UNCHANGED <<todo, row>>
      BY <1>3 DEF Install, CanInstall
    <2> QED
      BY <1>1, <1>2, <2>1 DEF Act
  <1>4. CASE Send
    <2>1. phase = "apply" /\ phase' = "sent" /\ UNCHANGED <<todo, row>>
      BY <1>0, <1>4 DEF Send, CanSend
    <2> QED
      BY <1>1, <1>2, <2>1 DEF Act
  <1> SUFFICES ASSUME local'[p] = local[p] /\ ~Fresh(p) PROVE Goal
    BY <1>1, <1>3, <1>4
  <1>5. CASE MoveAside \/ Fetch
    <2>1. phase \in {"apply", "moved"} /\ UNCHANGED row
      BY <1>5 DEF MoveAside, CanMoveAside, Fetch, CanFetch, Cleared
    <2> QED
      BY <1>2, <2>1
  <1>6. CASE MakeFolder
    <2>1. /\ phase \in {"apply", "moved"} /\ Act.path \in Paths
          /\ local'[Act.path] = Dir
      BY <1>6, ActDecided DEF MakeFolder, CanMakeFolder, Cleared, Working, MakeDirs
    <2>2. row'[p] = row[p]
      BY <1>0, <1>6, <2>1 DEF MakeFolder, RecordFileState
    <2> QED
      BY <1>2, <2>1, <2>2
  <1>7. CASE Record
    <2>1. /\ phase \in {"installed", "sent"} /\ Act.path \in Paths /\ IsFile(Act.path)
          /\ got.id # None
      BY <1>7, ActDecided DEF Record, CanRecord, Working, GotTrue
    <2>2. CASE p = Act.path
      <3>1. row'[p].id = got.id /\ row'[p].lhash = local[p]
        BY <1>0, <1>7, <2>1, <2>2 DEF Record, RecordFileState, Hash, IsFile
      <3> QED
        BY <2>1, <3>1
    <2>3. CASE p # Act.path
      <3>1. row'[p] = row[p]
        BY <1>0, <1>7, <2>3 DEF Record, RecordFileState
      <3> QED
        BY <1>2, <2>3, <3>1
    <2> QED
      BY <2>2, <2>3
  <1>8. CASE CreateFolder
    <2>1. /\ phase = "apply" /\ Act.path \in Paths /\ local[Act.path] = Dir
      BY <1>8, ActDecided DEF CreateFolder, CanCreateFolder, Working
    <2>2. row'[p] = row[p]
      BY <1>0, <1>8, <2>1 DEF CreateFolder, RecordSynced, RecordFileState
    <2> QED
      BY <1>2, <2>1, <2>2
  <1>9. CASE DeleteLocal
    <2>1. phase = "apply" /\ Act.path \in Paths
      BY <1>9, ActDecided DEF DeleteLocal, CanDeleteLocal, Working
    <2>2. local'[Act.path] = Absent
      BY <1>0, <1>9, <2>1 DEF DeleteLocal, Put
    <2>3. row'[p] = row[p]
      BY <1>0, <1>9, <2>1, <2>2 DEF DeleteLocal, RemoveFileRecord
    <2> QED
      BY <1>2, <2>1, <2>3
  <1>10. CASE ActionFails
    <2>1. UNCHANGED row /\ ~CanRecord
      BY <1>0, <1>10 DEF ActionFails, Able
    <2>2. phase \notin {"installed", "sent"} \/ Act.path # p
      BY <1>0, <2>1 DEF CanRecord, IsFile, Unharmed
    <2> QED
      BY <1>2, <2>1, <2>2
  <1>11. CASE User \/ Clients \/ NextSecond
    <2>1. UNCHANGED <<phase, todo>> /\ (UNCHANGED row \/ ~present')
      BY <1>11
      DEF User, UserWrite, UserMakeDir, UserRemove, FileTouched, ByUser, SetPaused, RemovePair,
          RemovePairRow, Clients, RemoteCreate, RemoteCreateAwkward, RemoteCreateFolder,
          RemoteEdit, RemoteDelete, RemoteMove, ByClient, NextSecond
    <2> QED
      BY <1>2, <2>1 DEF Unharmed
  <1>12. CASE RefreshWatchers \/ LocalEvents \/ BeginPoll \/ RunCycle
    <2>1. phase \in {"idle", "due", "classify"} /\ UNCHANGED row
      BY <1>12
      DEF RefreshWatchers, LocalEvents, IgnoreEvent, LoseEvent, TakeEvent, Deliver, BeginPoll,
          Idle, RunCycle, List, ClassifyChange, CycleFails, CommitCursor
    <2> QED
      BY <1>2, <2>1
  <1>13. CASE UNCHANGED vars
    BY <1>2, <1>13 DEF vars
  <1> QED
    BY <1>3, <1>4, <1>5, <1>6, <1>7, <1>8, <1>9, <1>10, <1>11, <1>12, <1>13 DEF Next, Daemon, Apply

(* A transfer that succeeds is followed by another step of its action.     *)
LEMMA TransferGoesOn ==
  ASSUME TypeInv, [Next]_vars, Unharmed', Install \/ Send
  PROVE  /\ UNCHANGED todo /\ todo \in Seq(Action) /\ 1 \in DOMAIN todo /\ todo[1] = Act
         /\ Install => phase = "fetched" /\ phase' = "installed"
         /\ Send => phase = "apply" /\ phase' = "sent" /\ Sends(Act)
  <1>1. ~Fault
    <2>1. UNCHANGED faults /\ faults \in Nat
      BY UnharmedBefore DEF TypeInv, TypeOK
    <2> QED
      BY <2>1 DEF Fault
  <1>2. ASSUME Install
        PROVE  phase = "fetched" /\ phase' = "installed" /\ UNCHANGED todo
    BY <1>2 DEF Install, CanInstall
  <1>3. ASSUME Send
        PROVE  phase = "apply" /\ phase' = "sent" /\ UNCHANGED todo /\ Sends(Act)
    BY <1>1, <1>3 DEF Send, CanSend, Sends
  <1>4. UNCHANGED todo /\ Working
    BY <1>2, <1>3 DEF Working
  <1> QED
    BY <1>2, <1>3, <1>4, ActDecided DEF TypeInv, TypeOK, EngineTypeOK

(* What is put in place of a file, or sent, is not what another decided    *)
(* action is about.                                                        *)
LEMMA TransferApart ==
  ASSUME TypeInv, TransferTraced, PlanInv, [Next]_vars, Unharmed', Install \/ Send,
         NEW k \in DOMAIN todo, todo[k].path = Act.path, Claims(todo[k]),
         Provider = "onedrive" \/ ByWatcher(todo[k])
  PROVE  k = 1
  <1>1. /\ 1 \in DOMAIN todo /\ todo[1] = Act /\ todo \in Seq(Action)
        /\ Claims(Act) /\ (phase = "fetched" => ~ByWatcher(Act))
    BY TransferGoesOn
    DEF PlanInv, GotTrue, Claims, TransferTraced, Brings, ByWatcher
  <1>2. CASE Provider = "onedrive"
    BY <1>1, <1>2 DEF PlanInv, ClaimsApart
  <1>3. CASE ByWatcher(todo[k])
    <2>1. Len(todo) = 1
      BY <1>3 DEF PlanInv, WatcherAlone
    <2> QED
      BY <1>1, <2>1
  <1> QED
    BY <1>2, <1>3

LEMMA NextSends ==
  ASSUME TypeInv, StepSafe, TransferTraced, PlanInv, UnsentOnce, RowsCurrent, SendsFresh,
         [Next]_vars, Unharmed'
  PROVE  SendsFresh'
  <1> SUFFICES ASSUME NEW k \in DOMAIN todo', Sends(todo'[k]),
                      Provider = "onedrive" \/ ByWatcher(todo'[k]),
                      k = 1 => phase' # "sent",
                      local'[todo'[k].path] \in InCloudOnce'
               PROVE  FALSE
    BY DEF SendsFresh, Sends, ByWatcher, Fresh
  <1>0. todo \in Seq(Action) /\ todo' \in Seq(Action) /\ todo'[k].path \in Paths
    <2>1. todo \in Seq(Action) /\ todo' \in Seq(Action)
      BY NextTypeInv DEF TypeInv, TypeOK, EngineTypeOK
    <2>2. todo'[k] \in Action
      BY <2>1
    <2> QED
      BY <2>1, <2>2 DEF Action
  <1>1. ~Fresh(todo'[k].path)
    <2>1. CASE (Install \/ Send) /\ todo'[k].path = Act.path
      <3>1. UNCHANGED todo /\ todo[1] = Act
        BY <2>1, TransferGoesOn
      <3>2. k = 1
        BY <2>1, <3>1, TransferApart DEF Claims
      <3>3. CASE Install
        <4>1. Brings(Act)
          BY <3>3, TransferGoesOn DEF TransferTraced
        <4> QED
          BY <3>1, <3>2, <4>1 DEF Brings, Sends
      <3>4. CASE Send
        BY <3>2, <3>4, TransferGoesOn
      <3> QED
        BY <2>1, <3>3, <3>4
    <2> QED
      BY <1>0, <2>1, NextStale
  <1>2. ASSUME NEW j \in DOMAIN todo, todo'[k] = todo[j], j = 1 => phase # "sent" PROVE FALSE
    BY <1>1, <1>2 DEF SendsFresh
  <1>3. CASE /\ todo' = todo
             /\ \/ phase' = phase
                \/ phase \notin {"moved", "fetched", "installed", "sent"}
                \/ phase \in {"moved", "fetched"} /\ phase' \in {"fetched", "installed"}
    BY <1>2, <1>3
  <1>4. CASE Working /\ todo' = Tail(todo)
    <2>1. todo # <<>>
      BY <1>4 DEF TypeInv, TaskInv
    <2>2. k + 1 \in DOMAIN todo /\ todo'[k] = todo[k + 1] /\ k + 1 # 1
      BY <1>0, <1>4, <2>1
    <2> QED
      BY <1>2, <2>2
  <1>5. ASSUME NEW p \in Paths, TakeEvent(p) PROVE FALSE
    <2>1. /\ phase = "idle" /\ ~NothingToSend(p) /\ todo' = <<LocalAction(p)>>
      BY <1>5 DEF TakeEvent, Deliver, Idle
    <2>2. todo'[k].path = p
      BY <2>1 DEF LocalAction
    <2> QED
      BY <1>1, <2>1, <2>2, ChangedIsFresh
  <1>6. ASSUME NEW ch \in batch, ClassifyChange(ch) PROVE FALSE
    <2>1. phase = "classify"
      BY <1>6 DEF ClassifyChange
    <2>2. ASSUME NEW p \in PathsFor(ch), todo' = Append(todo, RemoteAction(p, ch)) PROVE FALSE
      <3>1. CASE k \in DOMAIN todo /\ todo'[k] = todo[k]
        BY <1>2, <2>1, <3>1
      <3>2. CASE todo'[k] = RemoteAction(p, ch)
        <4>1. todo'[k].path = p /\ Verdict(p, ch) \in {"upload", "update"}
          BY <3>2 DEF RemoteAction, Sends
        <4>2. LocalChanged(p)
          BY <4>1 DEF Verdict
        <4> QED
          BY <1>0, <1>1, <2>1, <4>1, <4>2, ChangedIsFresh
      <3> QED
        BY <1>0, <2>2, <3>1, <3>2, AppendElement
    <2>3. todo' # todo
      BY <1>2, <2>1
    <2> QED
      BY <1>6, <2>2, <2>3 DEF ClassifyChange, Queue
  <1> QED
    BY <1>3, <1>4, <1>5, <1>6, NextDecisions

(* Among files that were not deleted every change has a body.              *)
LEMMA FilesOnlyBefore ==
  ASSUME TypeInv, NamesInv, [Next]_vars, FilesOnly'
  PROVE  FilesOnly
  <1>1. Lasting
    BY NextNames
  <1> QED
    BY <1>1 DEF FilesOnly, Lasting

LEMMA NextCopies ==
  ASSUME TypeInv, StepSafe, TransferTraced, NamesInv, PlanInv, UnsentOnce, RowsCurrent,
         CopiesFresh, [Next]_vars, Unharmed', FilesOnly, Provider = "onedrive"
  PROVE  CopiesFresh'
  <1>0. todo \in Seq(Action)
    BY DEF TypeInv, TypeOK, EngineTypeOK
  <1>1. \A j \in DOMAIN todo : todo[j].kind = "conflict" => Claims(todo[j])
    BY DEF PlanInv, TodoTrue, Brings, Bodiless, FilesOnly
  <1>2. ASSUME NEW k \in copies' PROVE k.body \notin InCloudOnce'
    <2>1. CASE Quietly
      BY <1>2, <2>1 DEF Quietly, CopiesFresh
    <2>2. ASSUME NEW c \in Content, StoredThere(c) PROVE k.body \notin InCloudOnce'
      <3>1. c \notin Tagged("wroteHere") /\ c \notin InCloudOnce
        BY <2>2 DEF StoredThere, Unused, Tagged, Tags, InCloudOnce
      <3> QED
        BY <1>2, <2>2, <3>1 DEF StoredThere, CopiesFresh, UnsentOnce, Unsent
    <2>3. CASE MoveAside
      <3>1. /\ phase = "apply" /\ Act.kind = "conflict" /\ Act = todo[1] /\ 1 \in DOMAIN todo
        BY <2>3, ActDecided DEF MoveAside, CanMoveAside, Working
      <3>2. local[Act.path] \notin InCloudOnce
        BY <3>1 DEF CopiesFresh, Fresh
      <3> QED
        BY <1>2, <2>3, <3>2, MoveEffect DEF CopiesFresh
    <2>4. CASE Install
      BY <1>2, <2>4, InstallEffect DEF CopiesFresh
    <2>5. CASE Send
      BY <1>2, <2>5, SendEffect DEF CopiesFresh, UnsentOnce, Unsent
    <2>6. ASSUME NEW p \in Paths, NEW c \in Content, UserWrite(p, c)
          PROVE  k.body \notin InCloudOnce'
      BY <1>2, <2>6, WriteEffect DEF CopiesFresh
    <2> QED
      BY <2>1, <2>2, <2>3, <2>4, <2>5, <2>6, Effects
  <1>3. ASSUME NEW k \in DOMAIN todo', todo'[k].kind = "conflict",
               k = 1 => phase' \notin {"moved", "fetched", "installed"},
               local'[todo'[k].path] \in InCloudOnce'
        PROVE  FALSE
    <2>0. todo' \in Seq(Action) /\ todo'[k].path \in Paths
      <3>1. todo' \in Seq(Action)
        BY NextTypeInv DEF TypeInv, TypeOK, EngineTypeOK
      <3>2. todo'[k] \in Action
        BY <1>3, <3>1
      <3> QED
        BY <3>1, <3>2 DEF Action
    <2>1. ~Fresh(todo'[k].path)
      <3>1. CASE (Install \/ Send) /\ todo'[k].path = Act.path
        <4>1. UNCHANGED todo /\ todo[1] = Act
          BY <3>1, TransferGoesOn
        <4>2. Claims(todo[k])
          BY <1>1, <1>3, <4>1
        <4>3. k = 1
          BY <1>3, <3>1, <4>1, <4>2, TransferApart
        <4>4. CASE Install
          BY <1>3, <4>3, <4>4, TransferGoesOn
        <4>5. CASE Send
          BY <1>3, <4>1, <4>3, <4>5, TransferGoesOn DEF Sends
        <4> QED
          BY <3>1, <4>4, <4>5
      <3> QED
        BY <1>3, <2>0, <3>1, NextStale
    <2>2. ASSUME NEW j \in DOMAIN todo, todo'[k] = todo[j],
                 j = 1 => phase \notin {"moved", "fetched", "installed"}
          PROVE  FALSE
      BY <1>3, <2>1, <2>2 DEF CopiesFresh
    <2>3. CASE /\ todo' = todo
               /\ \/ phase' = phase
                  \/ phase \notin {"moved", "fetched", "installed", "sent"}
                  \/ phase \in {"moved", "fetched"} /\ phase' \in {"fetched", "installed"}
      BY <1>3, <2>2, <2>3
    <2>4. CASE Working /\ todo' = Tail(todo)
      <3>1. todo # <<>>
        BY <2>4 DEF TypeInv, TaskInv
      <3>2. k + 1 \in DOMAIN todo /\ todo'[k] = todo[k + 1] /\ k + 1 # 1
        BY <1>0, <1>3, <2>4, <3>1
      <3> QED
        BY <2>2, <3>2
    <2>5. ASSUME NEW p \in Paths, TakeEvent(p) PROVE FALSE
      BY <1>3, <2>5 DEF TakeEvent, LocalAction
    <2>6. ASSUME NEW ch \in batch, ClassifyChange(ch) PROVE FALSE
      <3>1. phase = "classify"
        BY <2>6 DEF ClassifyChange
      <3>2. ASSUME NEW p \in PathsFor(ch), todo' = Append(todo, RemoteAction(p, ch)) PROVE FALSE
        <4>1. CASE k \in DOMAIN todo /\ todo'[k] = todo[k]
          BY <2>2, <3>1, <4>1
        <4>2. CASE todo'[k] = RemoteAction(p, ch)
          <5>1. todo'[k].path = p /\ Verdict(p, ch) = "conflict"
            BY <1>3, <4>2 DEF RemoteAction
          <5>2. ~ch.deleted /\ ~ch.folder
            BY DEF PlanInv, BatchTrue, FilesOnly, TypeInv, TypeOK, EngineTypeOK, Change
          <5>3. LocalChanged(p)
            BY <5>1, <5>2 DEF Verdict
          <5> QED
            BY <2>0, <2>1, <3>1, <5>1, <5>3, ChangedIsFresh
        <4> QED
          BY <1>0, <1>3, <3>2, <4>1, <4>2, AppendElement
      <3>3. todo' # todo
        BY <1>3, <2>2, <3>1
      <3> QED
        BY <2>6, <3>2, <3>3 DEF ClassifyChange, Queue
    <2> QED
      BY <1>3, <2>3, <2>4, <2>5, <2>6, NextDecisions
  <1> QED
    BY <1>2, <1>3 DEF CopiesFresh, Fresh

-----------------------------------------------------------------------------
(* The inductive invariant.                                                *)

LEMMA InitEchoInv == Init => EchoInv
  <1> SUFFICES ASSUME Init PROVE EchoInv
    OBVIOUS
  <1>1. AccountInv
    BY InitSurvivalInv, InitLocalInv, InitRemoteInv DEF AccountInv
  <1>2. /\ todo = <<>> /\ batch = {} /\ copies = {} /\ phase = "idle" /\ ledger = {}
        /\ \A p \in Paths : local[p] = Absent
        /\ \A i \in Ids : /\ cloud[i].state = "free" /\ ~cloud[i].folder
                          /\ cloud[i].path = Elsewhere
    BY DEF Init, FolderInit, CloudInit
  <1>3. DecisionsTrue
    BY <1>2 DEF DecisionsTrue, NamesUnique, Live, FreeBlank, FreeIds, BatchTrue, TodoTrue,
                WatcherAlone, ClaimsApart, GotTrue
  <1>4. InCloudOnce = {} /\ Absent \notin Content
    BY <1>2, SyncAssumption DEF InCloudOnce, Tagged
  <1>5. UnsentOnce /\ RowsCurrent /\ SendsFresh /\ CopiesFresh
    BY <1>2, <1>4 DEF UnsentOnce, Unsent, RowsCurrent, Fresh, SendsFresh, CopiesFresh
  <1> QED
    BY <1>1, <1>3, <1>5 DEF EchoInv

LEMMA NextEchoInv == EchoInv /\ [Next]_vars => EchoInv'
  <1> SUFFICES ASSUME EchoInv, [Next]_vars PROVE EchoInv'
    OBVIOUS
  <1>1. AccountInv /\ TypeInv /\ StepSafe /\ TransferTraced
    BY DEF EchoInv, AccountInv, SurvivalInv, RemoteInv
  <1>2. NamesInv /\ PlanInv /\ UnsentOnce
    BY DEF EchoInv, DecisionsTrue, NamesInv, PlanInv
  <1>3. AccountInv'
    BY <1>1, NextSurvivalInv, NextLocalInv, NextRemoteInv DEF AccountInv
  <1>4. DecisionsTrue'
    <2>1. NamesInv' /\ PlanInv'
      BY <1>1, <1>2, NextNames, NextPlan
    <2> QED
      BY <2>1 DEF DecisionsTrue, NamesInv, PlanInv
  <1>5. UnsentOnce'
    BY <1>1, <1>2, NextUnsent
  <1>6. ASSUME Unharmed' PROVE RowsCurrent' /\ SendsFresh'
    <2>1. RowsCurrent /\ SendsFresh
      BY <1>1, <1>6, UnharmedBefore DEF EchoInv
    <2> QED
      BY <1>1, <1>2, <1>6, <2>1, NextRows, NextSends DEF PlanInv
  <1>7. ASSUME Provider = "onedrive", Unharmed', FilesOnly' PROVE CopiesFresh'
    <2>1. Unharmed /\ FilesOnly
      BY <1>1, <1>2, <1>7, UnharmedBefore, FilesOnlyBefore
    <2>2. RowsCurrent /\ CopiesFresh
      BY <1>7, <2>1 DEF EchoInv
    <2> QED
      BY <1>1, <1>2, <1>7, <2>1, <2>2, NextCopies
  <1> QED
    BY <1>3, <1>4, <1>5, <1>6, <1>7 DEF EchoInv

(* What is known of every file, row and decision, at every moment: a row   *)
(* the database has is right about any file the cloud has had, and what is *)
(* to be sent or put aside is a file the cloud never had.                  *)
THEOREM EchoInvariant == Spec => []EchoInv
  <1>1. Init => EchoInv
    BY InitEchoInv
  <1>2. EchoInv /\ [Next]_vars => EchoInv'
    BY NextEchoInv
  <1> QED
    BY <1>1, <1>2, PTL DEF Spec

LEMMA EchoStep ==
  EchoInv /\ [Next]_vars =>
    (phase # "sent" /\ phase' = "sent" /\ Unharmed /\ (Provider = "onedrive" \/ FromWatcher)
       => got'.hash \notin InCloudOnce)
  <1> SUFFICES ASSUME EchoInv, [Next]_vars, phase # "sent", phase' = "sent", Unharmed,
                      Provider = "onedrive" \/ FromWatcher
               PROVE  got'.hash \notin InCloudOnce
    OBVIOUS
  <1>1. TypeInv /\ SendsFresh
    BY DEF EchoInv, AccountInv, SurvivalInv
  <1>2. Send
    <2>1. CASE User \/ Clients \/ NextSecond \/ UNCHANGED vars
      BY <2>1
      DEF User, UserWrite, UserMakeDir, UserRemove, FileTouched, ByUser, SetPaused, RemovePair,
          Clients, RemoteCreate, RemoteCreateAwkward, RemoteCreateFolder, RemoteEdit,
          RemoteDelete, RemoteMove, ByClient, NextSecond, vars, engineVars
    <2>2. CASE RefreshWatchers \/ LocalEvents \/ BeginPoll \/ RunCycle
      BY <2>2
      DEF RefreshWatchers, LocalEvents, IgnoreEvent, LoseEvent, TakeEvent, Deliver, BeginPoll,
          RunCycle, List, ClassifyChange, CycleFails, CommitCursor, engineVars
    <2>3. CASE Apply
      BY <2>3
      DEF Apply, MoveAside, MakeFolder, Fetch, Install, Record, CreateFolder, DeleteLocal,
          ActionFails, Finish
    <2> QED
      BY <2>1, <2>2, <2>3 DEF Next, Daemon
  <1>3. phase = "apply" /\ Sends(Act)
    BY <1>2 DEF Send, CanSend, Sends
  <1>4. 1 \in DOMAIN todo /\ todo[1] = Act
    BY <1>1, <1>3, ActDecided DEF Working
  <1>5. FromWatcher => ByWatcher(Act)
    BY DEF FromWatcher, ByWatcher
  <1>6. Fresh(Act.path)
    BY <1>1, <1>3, <1>4, <1>5 DEF SendsFresh
  <1>7. got'.hash = local[Act.path]
    BY <1>2 DEF Send, Finish
  <1> QED
    BY <1>6, <1>7 DEF Fresh

(* The daemon never sends back what it has just brought, nor the same edit *)
(* twice: the event or the change its own write comes back as is seen      *)
(* through by the row.                                                     *)
THEOREM NoEchoes == Spec => NoEcho
  <1>1. EchoInv /\ [Next]_vars =>
          [phase # "sent" /\ phase' = "sent" /\ Unharmed
             /\ (Provider = "onedrive" \/ FromWatcher)
           => got'.hash \notin InCloudOnce]_vars
    BY EchoStep
  <1> QED
    BY <1>1, EchoInvariant, PTL DEF Spec, NoEcho

(* Where names are unique and nothing was deleted, what is put aside as a  *)
(* conflict copy is an edit of this user that the cloud never had.         *)
THEOREM CopiesUnsent == Spec => []CopiesHoldUnsentEdits
  <1>1. EchoInv => CopiesHoldUnsentEdits
    <2> SUFFICES ASSUME EchoInv, Provider = "onedrive", Unharmed, FilesOnly, NEW k \in copies
                 PROVE  k.body \in (Tagged("wroteHere") \ Tagged("sent")) \cup {Dir}
      BY DEF CopiesHoldUnsentEdits
    <2>1. k.body \in Content \cup {Dir} /\ k.body \notin InCloudOnce
      BY DEF EchoInv, AccountInv, SurvivalInv, TypeInv, TypeOK, FolderTypeOK, Copy, CopiesFresh
    <2> QED
      BY <2>1 DEF EchoInv, UnsentOnce, Unsent, InCloudOnce
  <1> QED
    BY <1>1, EchoInvariant, PTL

=============================================================================
