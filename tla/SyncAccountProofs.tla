------------------------- MODULE SyncAccountProofs -------------------------
(***************************************************************************)
(* No edit of either side is forgotten outside the listed reasons, for     *)
(* every value of the constants: LocalInv and RemoteInv are inductive,     *)
(* given SurvivalInv.                                                      *)
(***************************************************************************)
EXTENDS SyncSurvivalProofs

-----------------------------------------------------------------------------
(* The account of local edits.                                             *)

(* What has been marked stays marked, so what was served stays so.         *)
LEMMA ServedGrows ==
  ASSUME ledger \subseteq ledger'
  PROVE  Served \subseteq Served'
  BY DEF Served, Tagged

(* Marks that say nothing of where a content was first stored.             *)
LEMMA OriginsKept ==
  ASSUME OriginsApart, NEW S, ledger' = ledger \cup S,
         \A c : <<c, "wroteHere">> \notin S /\ <<c, "wroteThere">> \notin S
  PROVE  ledger \subseteq ledger' /\ OriginsApart'
  BY DEF OriginsApart, Tagged

(* The marks of the daemon are of that kind.                               *)
LEMMA UnservedOrigins ==
  \A c : <<c, "wroteHere">> \notin Unserved /\ <<c, "wroteThere">> \notin Unserved
  BY OtherTag DEF Unserved, Tags

LEMMA DestroyedOrigins ==
  ASSUME NEW p, NEW c
  PROVE  <<c, "wroteHere">> \notin Destroyed(p) /\ <<c, "wroteThere">> \notin Destroyed(p)
  BY OtherTag DEF Destroyed, Tags

(* Files stay served when no event is taken away, other contents that are  *)
(* put in place are served, and the action under way is not a transfer of  *)
(* an edit that ends unserved.                                             *)
LEMMA FilesServedKept ==
  ASSUME LocalInv, ledger \subseteq ledger', events \subseteq events',
         \A p \in Paths : local'[p] \in Content => local'[p] = local[p] \/ local'[p] \in Served',
         \/ UNCHANGED <<phase, todo>>
         \/ phase # "apply"
         \/ ~FromWatcher
         \/ local'[Act.path] \in Content => local'[Act.path] \in Served'
  PROVE  FilesServed'
  <1> SUFFICES ASSUME NEW p \in Paths, local'[p] \in Content, local'[p] \notin Served'
               PROVE  UploadComing(p)'
    BY DEF FilesServed, IsFile
  <1>1. UploadComing(p)
    BY ServedGrows DEF LocalInv, FilesServed, IsFile
  <1> QED
    BY <1>1 DEF UploadComing, Act, FromWatcher

(* A step that leaves the files, the pending events and the action under   *)
(* way alone.                                                              *)
LEMMA ServedElsewhere ==
  ASSUME LocalInv, ledger \subseteq ledger', events \subseteq events', UNCHANGED local,
         UNCHANGED <<phase, todo>> \/ phase # "apply"
  PROVE  FilesServed'
  BY FilesServedKept

(* Nothing has been stored at the start.                                   *)
LEMMA InitLocalInv == Init => LocalInv
  BY SyncAssumption
  DEF Init, FolderInit, LocalInv, OriginsApart, Tagged, FilesServed, IsFile

(* Every step keeps the account of local edits.                            *)
LEMMA NextLocalInv == SurvivalInv /\ LocalInv /\ [Next]_vars => LocalInv'
  <1> SUFFICES ASSUME SurvivalInv, LocalInv, [Next]_vars PROVE OriginsApart' /\ FilesServed'
    BY DEF LocalInv
  <1> DEFINE Goal == OriginsApart /\ FilesServed
  <1> USE DEF cloudVars, dbVars, folderVars, engineVars
  <1>a. TypeInv /\ OriginsApart
    BY DEF SurvivalInv, LocalInv
  <1>b. /\ \A p \in Paths : local[p] \in Content \cup {Absent, Dir}
        /\ local \in [Paths -> Content \cup {Absent, Dir}]
    BY <1>a DEF TypeInv, TypeOK, FolderTypeOK
  <1>c. UNCHANGED ledger => OriginsApart'
    BY <1>a DEF OriginsApart, Tagged
  <1>d. ASSUME NEW S, NEW tag \in Tags \ {"wroteHere", "wroteThere"}, ledger' = ledger \cup Mark(S, tag)
        PROVE  ledger \subseteq ledger' /\ OriginsApart'
    BY <1>a, <1>d, OriginsKept, OtherTag DEF Tags
  <1>1. CASE RefreshWatchers
    <2>1. ledger \subseteq ledger' /\ OriginsApart'
      BY <1>1, <1>d DEF RefreshWatchers, Tags
    <2>2. ASSUME NEW p \in Paths, local[p] \in Content PROVE local[p] \in Served'
      <3>1. p \in events \/ local[p] \in Served
        BY <1>1, <2>2 DEF RefreshWatchers, Idle, LocalInv, FilesServed, IsFile, UploadComing
      <3>2. CASE p \in events
        <4>1. <<local[p], "blind">> \in Mark({local[q] : q \in events}, "blind")
          BY <2>2, <3>2 DEF Mark
        <4> QED
          BY <1>1, <2>2, <4>1 DEF RefreshWatchers, Served, Tagged
      <3> QED
        BY <2>1, <3>1, <3>2, ServedGrows
    <2> QED
      BY <1>1, <2>1, <2>2 DEF RefreshWatchers, FilesServed, IsFile
  <1>2. ASSUME NEW p \in Paths, IgnoreEvent(p) PROVE Goal'
    <2>1. /\ Idle /\ UNCHANGED <<local, phase, todo, ledger>> /\ events' = events \ {p}
          /\ NothingToSend(p)
      BY <1>2 DEF IgnoreEvent, Deliver
    <2>2. local[p] \in Content => local[p] \in Served
      <3>1. local[p] \in Content => local[p] \in Covered
        BY <2>1, SyncAssumption DEF NothingToSend, Hash, SurvivalInv, RowsCovered
      <3> QED
        BY <3>1 DEF Covered, InCloudOnce, Served
    <2>3. FilesServed'
      BY <2>1, <2>2
      DEF LocalInv, FilesServed, IsFile, UploadComing, Idle, Served, Tagged
    <2> QED
      BY <1>c, <2>1, <2>3
  <1>3. ASSUME NEW p \in Paths, LoseEvent(p) PROVE Goal'
    <2>1. /\ Idle /\ UNCHANGED <<local, phase, todo>> /\ events' = events \ {p}
          /\ ledger' = ledger \cup Mark({local[p]}, "dropped")
      BY <1>3 DEF LoseEvent, Deliver
    <2>2. ledger \subseteq ledger' /\ OriginsApart'
      BY <1>d, <2>1 DEF Tags
    <2>3. local[p] \in Content => local[p] \in Served'
      <3>1. local[p] \in Content => <<local[p], "dropped">> \in Mark({local[p]}, "dropped")
        BY DEF Mark
      <3> QED
        BY <2>1, <3>1 DEF Served, Tagged
    <2>4. FilesServed'
      <3> SUFFICES ASSUME NEW q \in Paths, local[q] \in Content, local[q] \notin Served'
                   PROVE  q \in events'
        BY <2>1 DEF FilesServed, IsFile, UploadComing
      <3>1. q \in events
        BY <2>1, <2>2, ServedGrows DEF LocalInv, FilesServed, IsFile, UploadComing, Idle
      <3> QED
        BY <2>1, <2>3, <3>1
    <2> QED
      BY <2>2, <2>4
  <1>4. ASSUME NEW p \in Paths, TakeEvent(p) PROVE Goal'
    <2>1. /\ Idle /\ UNCHANGED <<local, ledger>> /\ events' = events \ {p}
          /\ phase' = "apply" /\ todo' = <<LocalAction(p)>>
      BY <1>4 DEF TakeEvent, Deliver
    <2>2. UploadComing(p)'
      <3>1. Act' = LocalAction(p)
        BY <2>1 DEF Act
      <3>2. Act'.path = p /\ FromWatcher'
        BY <3>1 DEF FromWatcher, LocalAction
      <3> QED
        BY <2>1, <3>2 DEF UploadComing
    <2>3. FilesServed'
      <3> SUFFICES ASSUME NEW q \in Paths, local[q] \in Content, local[q] \notin Served
                   PROVE  UploadComing(q)'
        BY <2>1 DEF FilesServed, IsFile, Served, Tagged
      <3>1. q \in events
        BY <2>1 DEF LocalInv, FilesServed, IsFile, UploadComing, Idle
      <3> QED
        BY <2>1, <2>2, <3>1 DEF UploadComing
    <2> QED
      BY <1>c, <2>1, <2>3
  <1>5. CASE BeginPoll
    BY <1>5, <1>c, ServedElsewhere DEF BeginPoll, Idle
  <1>6. CASE List
    <2>1. ledger \subseteq ledger' /\ OriginsApart'
      BY <1>6, <1>c, <1>d DEF List, Tags
    <2> QED
      BY <1>6, <2>1, ServedElsewhere DEF List
  <1>7. CASE (\E ch \in batch : ClassifyChange(ch)) \/ CycleFails \/ CommitCursor
    <2>1. /\ UNCHANGED <<local, events, ledger>>
          /\ phase # "apply"
      BY <1>7 DEF ClassifyChange, CycleFails, CommitCursor
    <2> QED
      BY <1>c, <2>1, ServedElsewhere
  <1>8. ASSUME NEW ps, Notify(ps) PROVE events \subseteq events'
    BY <1>8 DEF Notify
  <1>9. CASE MoveAside
    <2> DEFINE copy == ConflictingFileName(Act.path)
               gone == Mark({k.body : k \in Named(copy)}, "clobbered")
    <2>1. RenameAside(Act.path, copy) /\ ~FromWatcher
      BY <1>9 DEF MoveAside, CanMoveAside, FromWatcher
    <2>2. ledger \subseteq ledger' /\ OriginsApart'
      <3>1. \A c : <<c, "wroteHere">> \notin gone /\ <<c, "wroteThere">> \notin gone
        BY OtherTag DEF Tags
      <3>2. ledger' = ledger \cup gone \/ ledger' = ledger \cup (gone \cup Unserved)
        BY <1>9 DEF MoveAside
      <3> HIDE DEF gone
      <3> QED
        BY <1>a, <3>1, <3>2, UnservedOrigins, OriginsKept
    <2>3. events \subseteq events' /\ \A p \in Paths : local'[p] = local[p] \/ local'[p] = Absent
      BY <1>8, <2>1 DEF RenameAside
    <2> QED
      BY <2>1, <2>2, <2>3, FilesServedKept, SyncAssumption
  <1>10. ASSUME NEW ps, MakeDirs(ps)
         PROVE  /\ events \subseteq events'
                /\ \A p \in Paths : local'[p] = local[p] \/ local'[p] = Dir
    BY <1>8, <1>10 DEF MakeDirs
  <1>11. CASE MakeFolder
    <2>1. ~FromWatcher /\ UNCHANGED ledger
      BY <1>11 DEF MakeFolder, CanMakeFolder, FromWatcher
    <2> QED
      BY <1>11, <1>c, <1>10, <2>1, FilesServedKept, SyncAssumption DEF MakeFolder
  <1>12. CASE Fetch
    <2>1. ~FromWatcher
      BY <1>12 DEF Fetch, CanFetch, FromWatcher
    <2>2. ledger \subseteq ledger' /\ OriginsApart'
      BY <1>12, <1>a, <1>c, UnservedOrigins, OriginsKept DEF Fetch
    <2> QED
      BY <1>12, <1>10, <2>1, <2>2, FilesServedKept, SyncAssumption DEF Fetch
  <1>13. CASE Install
    <2>1. /\ phase = "fetched" /\ got.body \in InCloudOnce
          /\ Put(Act.path, got.body)
          /\ ledger' = ledger \cup (Destroyed(Act.path) \cup Mark({got.body}, "fetched"))
      BY <1>13 DEF Install, CanInstall, SurvivalInv, StepSafe
    <2>2. ledger \subseteq ledger' /\ OriginsApart'
      <3>1. \A c : /\ <<c, "wroteHere">> \notin Mark({got.body}, "fetched")
                   /\ <<c, "wroteThere">> \notin Mark({got.body}, "fetched")
        BY OtherTag DEF Tags
      <3> QED
        BY <1>a, <2>1, <3>1, DestroyedOrigins, OriginsKept
    <2>3. /\ events \subseteq events'
          /\ \A p \in Paths : local'[p] = local[p] \/ local'[p] = got.body
      BY <1>8, <1>b, <2>1 DEF Put
    <2>4. got.body \in Served'
      BY <2>1, <2>2, ServedGrows DEF InCloudOnce, Served
    <2> QED
      BY <2>1, <2>2, <2>3, <2>4, FilesServedKept
  <1>14. CASE Record
    BY <1>14, <1>c, ServedElsewhere DEF Record, CanRecord
  <1>15. CASE CreateFolder
    <2>1. UNCHANGED <<local, events, ledger>> /\ local[Act.path] = Dir
      BY <1>15 DEF CreateFolder, CanCreateFolder
    <2> QED
      BY <1>c, <2>1, FilesServedKept, SyncAssumption
  <1>16. CASE Send
    <2> DEFINE sent == Mark({local[Act.path]}, "sent")
               gone(i) == Mark({cloud[i].body} \ KnownHere, "overwritten")
    <2>1. UNCHANGED <<local, events>> /\ IsFile(Act.path)
      BY <1>16 DEF Send, CanSend
    <2>2. PICK i : \/ ledger' = ledger \cup (sent \cup gone(i))
                   \/ ledger' = ledger \cup (sent \cup gone(i) \cup Unserved)
      BY <1>16 DEF Send
    <2>3. <<local[Act.path], "sent">> \in ledger'
      <3>1. <<local[Act.path], "sent">> \in sent
        BY <2>1 DEF Mark, IsFile
      <3> HIDE DEF sent, gone
      <3> QED
        BY <2>2, <3>1
    <2>4. ledger \subseteq ledger' /\ OriginsApart'
      <3>1. \A c : /\ <<c, "wroteHere">> \notin sent \cup gone(i) \cup Unserved
                   /\ <<c, "wroteThere">> \notin sent \cup gone(i) \cup Unserved
        BY OtherTag, UnservedOrigins DEF Tags
      <3> HIDE DEF sent, gone
      <3> QED
        BY <1>a, <2>2, <3>1, OriginsKept
    <2>5. local'[Act.path] \in Served'
      BY <2>1, <2>3 DEF IsFile, Served, Tagged
    <2> QED
      BY <2>1, <2>4, <2>5, FilesServedKept
  <1>17. CASE DeleteLocal
    <2>1. /\ ~FromWatcher /\ events \subseteq events'
          /\ \A p \in Paths : local'[p] = local[p] \/ local'[p] = Absent
      BY <1>8, <1>17, <1>b DEF DeleteLocal, CanDeleteLocal, FromWatcher, Put
    <2>2. ledger \subseteq ledger' /\ OriginsApart'
      BY <1>17, <1>a, DestroyedOrigins, OriginsKept DEF DeleteLocal
    <2> QED
      BY <2>1, <2>2, FilesServedKept, SyncAssumption
  <1>18. CASE ActionFails
    <2>1. UNCHANGED <<local, events>> /\ ledger' = ledger \cup Unserved
      BY <1>18 DEF ActionFails
    <2>2. ledger \subseteq ledger' /\ OriginsApart'
      BY <1>a, <2>1, UnservedOrigins, OriginsKept
    <2>3. CASE FromWatcher /\ Act.path \notin events
      <3>1. local[Act.path] \in Content => <<local[Act.path], "dropped">> \in Unserved
        BY <2>3 DEF Unserved, Mark
      <3>2. local[Act.path] \in Content => local[Act.path] \in Served'
        BY <2>1, <3>1 DEF Served, Tagged
      <3> QED
        BY <2>1, <2>2, <3>2, FilesServedKept
    <2>4. CASE Act.path \in events
      <3> SUFFICES ASSUME NEW p \in Paths, local[p] \in Content, local[p] \notin Served'
                   PROVE  p \in events'
        BY <2>1, <2>2 DEF FilesServed, IsFile, UploadComing
      <3> QED
        BY <2>1, <2>2, <2>4, ServedGrows DEF LocalInv, FilesServed, IsFile, UploadComing
    <2>5. CASE ~FromWatcher
      BY <2>1, <2>2, <2>5, FilesServedKept
    <2> QED
      BY <2>3, <2>4, <2>5
  <1>19. ASSUME NEW p \in Paths, NEW c \in Content, UserWrite(p, c) PROVE Goal'
    <2> DEFINE S == (IF AtStake(p) THEN Mark({c}, "racy") ELSE {})
                      \cup (IF watching THEN {} ELSE Mark({c}, "blind"))
                      \cup (IF paused THEN Mark({c}, "paused") ELSE {})
    <2>1. /\ Unused(c) /\ Put(p, c) /\ UNCHANGED <<phase, todo, watching>>
          /\ ledger' = ledger \cup Mark({c}, "wroteHere") \cup S
      BY <1>19 DEF UserWrite, ByUser
    <2>2. \A d : <<d, "wroteHere">> \notin S /\ <<d, "wroteThere">> \notin S
      BY OtherTag DEF Tags
    <2>3. ~watching => <<c, "blind">> \in S
      BY DEF Mark
    <2>4. \A d, t : <<d, t>> \in Mark({c}, "wroteHere") => d = c /\ t = "wroteHere"
      BY DEF Mark
    <2> HIDE DEF S
    <2>5. ledger \subseteq ledger' /\ OriginsApart'
      <3>1. <<c, "wroteThere">> \notin ledger
        BY <2>1 DEF Unused, Tags
      <3> HIDE DEF S
      <3>2. ASSUME NEW d, <<d, "wroteThere">> \in ledger' PROVE <<d, "wroteThere">> \in ledger
        <4>1. <<d, "wroteThere">> \notin Mark({c}, "wroteHere")
          BY <2>4
        <4> QED
          BY <2>1, <2>2, <3>2, <4>1
      <3>3. ASSUME NEW d, <<d, "wroteHere">> \in ledger' PROVE d = c \/ <<d, "wroteHere">> \in ledger
        BY <2>1, <2>2, <2>4, <3>3
      <3>4. ledger \subseteq ledger'
        BY <2>1
      <3>5. ASSUME NEW d, <<d, "wroteHere">> \in ledger', <<d, "wroteThere">> \in ledger'
            PROVE  d \notin Content
        BY <1>a, <3>1, <3>2, <3>3, <3>5 DEF OriginsApart, Tagged
      <3> QED
        BY <3>4, <3>5 DEF OriginsApart, Tagged
    <2>6. FilesServed'
      <3>1. local' = [local EXCEPT ![p] = c] /\ events \subseteq events'
        BY <1>8, <2>1 DEF Put
      <3>2. p \in events' \/ c \in Served'
        BY <2>1, <2>3 DEF Put, Notify, Served, Tagged
      <3> SUFFICES ASSUME NEW q \in Paths, q # p, local[q] \in Content, local[q] \notin Served'
                   PROVE  UploadComing(q)'
        BY <1>b, <3>1, <3>2 DEF FilesServed, IsFile, UploadComing
      <3>3. UploadComing(q)
        BY <2>5, ServedGrows DEF LocalInv, FilesServed, IsFile
      <3> QED
        BY <2>1, <3>1, <3>3 DEF UploadComing, Act, FromWatcher
    <2> QED
      BY <2>5, <2>6
  <1>20. ASSUME NEW p \in Paths, UserMakeDir(p) \/ UserRemove(p) \/ FileTouched(p)
         PROVE  Goal'
    <2>1. UNCHANGED <<ledger, phase, todo>>
      BY <1>20 DEF UserMakeDir, UserRemove, FileTouched, ByUser
    <2>2. /\ events \subseteq events'
          /\ \A q \in Paths : local'[q] = local[q] \/ local'[q] = Dir \/ local'[q] = Absent
      BY <1>8, <1>20, <1>b DEF UserMakeDir, UserRemove, FileTouched, Put
    <2> QED
      BY <1>c, <2>1, <2>2, FilesServedKept, SyncAssumption
  <1>21. CASE SetPaused \/ NextSecond \/ RemovePair
    BY <1>21, <1>c, ServedElsewhere DEF SetPaused, NextSecond, RemovePair
  <1>22. ASSUME NEW c \in Content, Unused(c), ByClient,
                ledger' = ledger \cup Mark({c}, "wroteThere")
         PROVE  Goal'
    <2>1. \A d, t : <<d, t>> \in Mark({c}, "wroteThere") => d = c /\ t = "wroteThere"
      BY DEF Mark
    <2>2. <<c, "wroteHere">> \notin ledger
      BY <1>22 DEF Unused, Tags
    <2>3. ledger \subseteq ledger' /\ OriginsApart'
      BY <1>a, <1>22, <2>1, <2>2 DEF OriginsApart, Tagged
    <2> QED
      BY <1>22, <2>3, ServedElsewhere DEF ByClient
  <1>23. ASSUME NEW i \in Ids, NEW c \in Content,
                \/ \E p \in Paths : RemoteCreate(i, p, c)
                \/ RemoteCreateAwkward(i, c)
                \/ RemoteEdit(i, c)
         PROVE  Goal'
    BY <1>22, <1>23 DEF RemoteCreate, RemoteCreateAwkward, RemoteEdit
  <1>24. ASSUME NEW i \in Ids,
                \/ \E p \in Paths : RemoteCreateFolder(i, p)
                \/ \E p \in Paths \cup {Elsewhere} : RemoteMove(i, p)
                \/ RemoteDelete(i)
         PROVE  Goal'
    <2>1. ByClient /\ UNCHANGED ledger
      BY <1>24 DEF RemoteCreateFolder, RemoteMove, RemoteDelete
    <2> QED
      BY <1>c, <2>1, ServedElsewhere DEF ByClient
  <1>25. CASE UNCHANGED vars
    BY <1>25, <1>c, ServedElsewhere DEF vars
  <1>26. CASE Daemon
    BY <1>1, <1>2, <1>3, <1>4, <1>5, <1>6, <1>7, <1>9, <1>11, <1>12, <1>13, <1>14,
       <1>15, <1>16, <1>17, <1>18, <1>26
    DEF Daemon, LocalEvents, RunCycle, Apply
  <1>27. CASE User \/ NextSecond
    BY <1>19, <1>20, <1>21, <1>27 DEF User
  <1>28. CASE Clients
    BY <1>23, <1>24, <1>28 DEF Clients
  <1> QED
    BY <1>25, <1>26, <1>27, <1>28 DEF Next

(* No edit made at this computer is forgotten: what is still there has     *)
(* been sent, is about to be, or fell to one of the listed reasons.        *)
LEMMA ServedIsAccounted == LocalInv => EveryLocalEditAccounted
  BY SyncAssumption
  DEF LocalInv, OriginsApart, FilesServed, Served, EveryLocalEditAccounted, Tagged, IsFile

-----------------------------------------------------------------------------
(* The account of remote edits.                                            *)

(* What a step may do to the drive: an item that changes gets a position   *)
(* beyond all earlier ones, and the content a live item has it had before, *)
(* or it has been here, or nobody had it.                                  *)
BodyFrom(j) ==
    Live(j)' =>
        \/ Live(j) /\ cloud'[j].body = cloud[j].body
        \/ cloud'[j].body \notin Content
        \/ cloud'[j].body \in KnownHere
        \/ Unused(cloud'[j].body) /\ \A k \in Ids \ {j} : cloud'[k] = cloud[k]

CloudStep ==
    /\ clock' \in Nat /\ clock <= clock'
    /\ \A j \in Ids : \/ cloud'[j] = cloud[j]
                      \/ cloud'[j].rev > clock /\ cloud'[j].state # "free"
    /\ \A j \in Ids : BodyFrom(j)

LEMMA NoCloudStep ==
  ASSUME TypeInv, UNCHANGED cloudVars
  PROVE  CloudStep
  BY DEF cloudVars, TypeInv, TypeOK, CloudTypeOK, CloudStep, BodyFrom, Live

LEMMA StoreStep ==
  ASSUME TypeInv, NEW i \in Ids, NEW folder, NEW body, NEW path, NEW parent,
         Store(i, folder, body, path, parent),
         \/ body \notin Content
         \/ body \in KnownHere
         \/ Unused(body)
         \/ Live(i) /\ body = cloud[i].body
  PROVE  CloudStep
  <1>1. /\ cloud' = [cloud EXCEPT ![i] =
                       [state |-> "live", folder |-> folder, body |-> body,
                        path |-> path, parent |-> parent, rev |-> clock + 1]]
        /\ clock' = clock + 1 /\ clock \in Nat
        /\ cloud \in [Ids -> Item]
    BY DEF Store, TypeInv, TypeOK, CloudTypeOK
  <1>2. \A j \in Ids \ {i} : cloud'[j] = cloud[j]
    BY <1>1
  <1>3. cloud'[i].rev = clock + 1 /\ cloud'[i].state = "live" /\ cloud'[i].body = body
    BY <1>1
  <1>4. ASSUME NEW j \in Ids PROVE BodyFrom(j)
    BY <1>2, <1>3 DEF BodyFrom, Live, Unused
  <1> QED
    BY <1>1, <1>2, <1>3, <1>4 DEF CloudStep

LEMMA DropStep ==
  ASSUME TypeInv, NEW i \in Ids, Drop(i)
  PROVE  CloudStep
  <1>1. /\ cloud' = [cloud EXCEPT ![i] = [cloud[i] EXCEPT !.state = "gone", !.rev = clock + 1]]
        /\ clock' = clock + 1
    BY Zenon DEF Drop
  <1>2. clock \in Nat /\ cloud \in [Ids -> Item]
    BY DEF TypeInv, TypeOK, CloudTypeOK
  <1>3. \A j \in Ids \ {i} : cloud'[j] = cloud[j]
    BY <1>1, <1>2
  <1>4. cloud'[i].rev = clock + 1 /\ cloud'[i].state = "gone"
    BY <1>1, <1>2 DEF Item
  <1>5. \A j \in Ids : BodyFrom(j)
    BY <1>3, <1>4 DEF BodyFrom, Live
  <1> QED
    BY <1>1, <1>2, <1>3, <1>4, <1>5 DEF CloudStep

LEMMA ReportedGrows ==
  ASSUME ledger \subseteq ledger'
  PROVE  /\ KnownHere \subseteq KnownHere' /\ Reported \subseteq Reported'
         /\ InCloudOnce \subseteq InCloudOnce'
  BY DEF Reported, KnownHere, InCloudOnce, Tagged

(* So a content that one item alone could hold is held by no other later.  *)
LEMMA HeldKept ==
  ASSUME ledger \subseteq ledger', CloudStep, NEW c, NEW i, HeldOnlyBy(c, i)
  PROVE  HeldOnlyBy(c, i)'
  <1> SUFFICES ASSUME c \in Content, c \notin Reported',
                      NEW j \in Ids, Live(j)', cloud'[j].body = c
               PROVE  c \in InCloudOnce /\ j = i
    BY ReportedGrows DEF HeldOnlyBy
  <1>1. /\ c \in InCloudOnce /\ c \notin Reported
        /\ \A k \in Ids : Live(k) /\ cloud[k].body = c => k = i
    BY ReportedGrows DEF HeldOnlyBy
  <1>2. c \notin KnownHere /\ ~Unused(c)
    BY <1>1 DEF Reported, Unused, InCloudOnce, Tagged, Tags
  <1> QED
    BY <1>1, <1>2 DEF CloudStep, BodyFrom

(* A content the cloud has had and that has been reported may be anywhere. *)
LEMMA ReportedIsHeld ==
  ASSUME NEW c \in Reported, c \in InCloudOnce, NEW i
  PROVE  HeldOnlyBy(c, i)
  BY DEF HeldOnlyBy

LEMMA BodiesKept ==
  ASSUME SurvivalInv, SurvivalInv', BodiesApart, ledger \subseteq ledger', CloudStep
  PROVE  BodiesApart'
  <1> SUFFICES ASSUME NEW j \in Ids, NEW c \in Content, cloud'[j].state # "gone", cloud'[j].body = c
               PROVE  HeldOnlyBy(c, j)'
    BY DEF BodiesApart, HeldOnlyBy
  <1>1. c \in InCloudOnce'
    BY SyncAssumption DEF SurvivalInv, CloudCovered
  <1>2. CASE cloud[j].state # "gone" /\ cloud[j].body = c
    <2>1. HeldOnlyBy(c, j)
      BY <1>2 DEF BodiesApart, HeldOnlyBy
    <2> QED
      BY <2>1, HeldKept
  <1>3. CASE c \in KnownHere
    BY <1>1, <1>3, ReportedGrows DEF HeldOnlyBy, Reported
  <1>4. CASE Unused(c) /\ \A k \in Ids \ {j} : cloud'[k] = cloud[k]
    <2>1. c \notin InCloudOnce
      BY <1>4 DEF Unused, InCloudOnce, Tagged, Tags
    <2>2. \A k \in Ids \ {j} : cloud'[k].body # c
      BY <1>4, <2>1, SyncAssumption DEF SurvivalInv, CloudCovered
    <2> QED
      BY <1>1, <2>2 DEF HeldOnlyBy
  <1>5. Live(j)' \/ cloud'[j] = cloud[j]
    <2>1. cloud'[j].state \in {"free", "live", "gone"}
      BY DEF SurvivalInv, TypeInv, TypeOK, CloudTypeOK, Item
    <2> QED
      BY <2>1 DEF CloudStep, Live
  <1>6. \/ cloud[j].state # "gone" /\ cloud[j].body = c
        \/ c \in KnownHere
        \/ Unused(c) /\ \A k \in Ids \ {j} : cloud'[k] = cloud[k]
    <2>1. CASE cloud'[j] = cloud[j]
      BY <2>1
    <2>2. CASE Live(j)'
      <3>1. BodyFrom(j)
        BY DEF CloudStep
      <3> QED
        BY <2>2, <3>1 DEF BodyFrom, Live, Unused
    <2> QED
      BY <1>5, <2>1, <2>2
  <1> QED
    BY <1>2, <1>3, <1>4, <1>6

(* The parts of RemoteInv that a step which decides nothing, takes nothing *)
(* off the list and leaves the cursor alone keeps.                         *)
LEMMA AccountsKept ==
  ASSUME SurvivalInv, SurvivalInv', RemoteInv, ledger \subseteq ledger', CloudStep,
         UNCHANGED <<todo, batch, newCursor, cursor, present>>,
         phase' = phase \/ (phase # "classify" /\ phase' # "classify")
  PROVE  CursorInv' /\ BodiesApart' /\ DecisionsTraced' /\ ItemsAccounted' /\ CycleMayFail'
  <1>1. CursorInv'
    BY DEF RemoteInv, CursorInv, CloudStep, SurvivalInv, TypeInv, TypeOK, CloudTypeOK, DbTypeOK
  <1>2. BodiesApart'
    BY BodiesKept DEF RemoteInv
  <1>3. DecisionsTraced'
    <2>1. \A ch \in batch : HeldOnlyBy(ch.hash, ch.id)'
      BY HeldKept DEF RemoteInv, DecisionsTraced
    <2>2. \A k \in DOMAIN todo : Brings(todo[k]) => HeldOnlyBy(todo[k].hash, todo[k].id)'
      BY HeldKept DEF RemoteInv, DecisionsTraced
    <2> QED
      BY <2>1, <2>2 DEF DecisionsTraced, HeldOnlyBy
  <1>4. ASSUME NEW i \in Ids, cloud'[i] = cloud[i], InFolder(i)'
        PROVE  /\ \/ Unheard(i, Heard)' \/ cloud'[i].body \in Reported' \/ Carried(i)'
                  \/ phase' = "classify" /\ ChangeOf(i)' \in batch'
               /\ phase' = "classify" => Unheard(i, cursor)' \/ cloud'[i].body \in Reported'
    <2>1. InFolder(i)
      BY <1>4 DEF InFolder, LiveFile, Live
    <2>2. \/ Unheard(i, Heard) \/ cloud[i].body \in Reported \/ Carried(i)
          \/ phase = "classify" /\ ChangeOf(i) \in batch
      BY <2>1 DEF RemoteInv, ItemsAccounted
    <2>3. Heard' = Heard
      BY DEF Heard
    <2>4. (Unheard(i, Heard) => Unheard(i, Heard)') /\ (Unheard(i, cursor) => Unheard(i, cursor)')
      BY <1>4, <2>3 DEF Unheard
    <2>5. (Carried(i) => Carried(i)') /\ ChangeOf(i)' = ChangeOf(i)
      BY <1>4 DEF Carried, Brings, ChangeOf
    <2>6. phase = "classify" => Unheard(i, cursor) \/ cloud[i].body \in Reported
      BY <2>1 DEF RemoteInv, CycleMayFail
    <2> QED
      BY <1>4, <2>2, <2>4, <2>5, <2>6, ReportedGrows
  <1>5. ASSUME NEW i \in Ids, cloud'[i] # cloud[i]
        PROVE  Unheard(i, Heard)' /\ Unheard(i, cursor)'
    <2>1. cloud'[i].rev > clock /\ clock \in Nat /\ cloud'[i].rev \in Nat
      BY <1>5 DEF CloudStep, SurvivalInv, TypeInv, TypeOK, CloudTypeOK, Item
    <2>2. /\ cursor # None => cursor \in Nat /\ cursor <= clock
          /\ Heard # None => Heard \in Nat /\ Heard <= clock
      BY DEF RemoteInv, CursorInv, Heard, SurvivalInv, TypeInv, TypeOK, DbTypeOK
    <2>3. Heard' = Heard
      BY DEF Heard
    <2> QED
      BY <2>1, <2>2, <2>3 DEF Unheard
  <1> QED
    BY <1>1, <1>2, <1>3, <1>4, <1>5 DEF ItemsAccounted, CycleMayFail

(* What is known of the action under way, while it is the same.            *)
LEMMA TransferKept ==
  ASSUME SurvivalInv, SurvivalInv', RemoteInv, ledger \subseteq ledger', CloudStep,
         UNCHANGED <<phase, todo, got>>, UNCHANGED cursor \/ cursor' = None
  PROVE  TransferTraced'
  <1>1. Act' = Act
    BY DEF Act
  <1>2. CASE phase \in {"fetched", "installed"}
    <2>1. /\ Act.id \in Ids
          /\ got.hash = got.body \/ HeldOnlyBy(got.hash, None)
          /\ LiveFile(Act.id) => Unheard(Act.id, cursor) \/ cloud[Act.id].body = got.body
          /\ phase = "installed" => got.body \in Tagged("fetched") /\ HeldOnlyBy(got.hash, None)
      BY <1>2 DEF RemoteInv, TransferTraced
    <2>2. LiveFile(Act.id)' => Unheard(Act.id, cursor)' \/ cloud'[Act.id].body = got.body
      <3>1. CASE cloud'[Act.id] = cloud[Act.id]
        BY <1>1, <2>1, <3>1 DEF LiveFile, Live, Unheard
      <3>2. CASE cloud'[Act.id] # cloud[Act.id]
        <4>1. cloud'[Act.id].rev > clock /\ cloud'[Act.id].rev \in Nat /\ clock \in Nat
          BY <2>1, <3>2 DEF CloudStep, SurvivalInv, TypeInv, TypeOK, CloudTypeOK, Item
        <4>2. cursor # None => cursor \in Nat /\ cursor <= clock
          BY DEF RemoteInv, CursorInv, SurvivalInv, TypeInv, TypeOK, DbTypeOK
        <4> QED
          BY <1>1, <4>1, <4>2 DEF Unheard
      <3> QED
        BY <3>1, <3>2
    <2>3. HeldOnlyBy(got.hash, None) => HeldOnlyBy(got.hash, None)'
      BY HeldKept DEF HeldOnlyBy
    <2> QED
      BY <1>1, <1>2, <2>1, <2>2, <2>3 DEF RemoteInv, TransferTraced, Tagged, Brings
  <1>3. CASE phase \notin {"fetched", "installed"}
    <2>1. phase = "sent" => HeldOnlyBy(got.hash, None)
      BY DEF RemoteInv, TransferTraced
    <2>2. phase = "sent" => HeldOnlyBy(got.hash, None)'
      BY <2>1, HeldKept DEF HeldOnlyBy
    <2> QED
      BY <1>1, <1>3, <2>2 DEF RemoteInv, TransferTraced, Brings
  <1> QED
    BY <1>2, <1>3

LEMMA RowsKnownKept ==
  ASSUME RowsKnown, ledger \subseteq ledger', CloudStep,
         \A p \in Paths : row'[p].rhash = row[p].rhash \/ HeldOnlyBy(row[p].rhash, None)'
  PROVE  RowsKnown'
  <1> SUFFICES ASSUME NEW p \in Paths, NEW c \in Content, row[p].rhash = c, row'[p].rhash = c
               PROVE  HeldOnlyBy(c, None)'
    BY DEF RowsKnown, HeldOnlyBy
  <1>1. HeldOnlyBy(c, None)
    BY DEF RowsKnown, HeldOnlyBy
  <1> QED
    BY <1>1, HeldKept

LEMMA FilesKnownKept ==
  ASSUME FilesKnown, ledger \subseteq ledger',
         \A p \in Paths : local'[p] = local[p] \/ local'[p] \notin Content
                            \/ local'[p] \in KnownHere'
  PROVE  FilesKnown'
  BY ReportedGrows DEF FilesKnown, IsFile

(* A step of the user, of the clients, or of the daemon between actions.   *)
LEMMA RemoteElsewhere ==
  ASSUME SurvivalInv, SurvivalInv', RemoteInv, ledger \subseteq ledger', CloudStep,
         UNCHANGED <<todo, got, batch, newCursor, cursor, present, row>>,
         \/ UNCHANGED phase
         \/ phase # "classify" /\ phase' \in {"idle", "due", "apply"},
         \A p \in Paths : local'[p] = local[p] \/ local'[p] \notin Content
                            \/ local'[p] \in KnownHere'
  PROVE  RemoteInv'
  <1>1. FilesKnown' /\ RowsKnown'
    BY FilesKnownKept, RowsKnownKept DEF RemoteInv
  <1>2. TransferTraced'
    BY TransferKept DEF TransferTraced
  <1> QED
    BY <1>1, <1>2, AccountsKept DEF RemoteInv

(* An action that comes to nothing reports the content it was to bring.    *)
LEMMA UnservedReported ==
  ASSUME ledger \cup Unserved \subseteq ledger', Brings(Act), Act.hash \in Content
  PROVE  Act.hash \in Reported'
  <1>1. <<Act.hash, "missed">> \in Unserved
    BY DEF Unserved, FromWatcher, Brings, Mark
  <1> QED
    BY <1>1 DEF Reported, Tagged

(* The end of an action: the item it was to bring is accounted for in      *)
(* another way.                                                            *)
Delivered ==
    Brings(Act) /\ ~Act.folder /\ Act.hash \in Content =>
        \/ Act.hash \in Reported'
        \/ Act.id \in Ids /\ LiveFile(Act.id) =>
             Unheard(Act.id, cursor) \/ cloud[Act.id].body # Act.hash

LEMMA FinishAccounts ==
  ASSUME SurvivalInv, SurvivalInv', RemoteInv, ledger \subseteq ledger', CloudStep,
         Working, Finish, Delivered, UNCHANGED <<batch, newCursor, cursor, present>>,
         FilesKnown', RowsKnown'
  PROVE  RemoteInv'
  <1>1. /\ todo \in Seq(Action) /\ todo # <<>> /\ todo' = Tail(todo) /\ todo[1] = Act
        /\ phase' \in {"idle", "apply"} /\ phase # "classify"
    BY DEF SurvivalInv, TypeInv, TypeOK, EngineTypeOK, TaskInv, Working, Finish, Act
  <1>2. \A k \in DOMAIN todo' : k + 1 \in DOMAIN todo /\ todo'[k] = todo[k + 1]
    BY <1>1
  <1>3. \A k \in DOMAIN todo : k = 1 \/ (k - 1 \in DOMAIN todo' /\ todo'[k - 1] = todo[k])
    BY <1>1
  <1>4. CursorInv' /\ BodiesApart'
    BY BodiesKept, <1>1
    DEF RemoteInv, CursorInv, CloudStep, SurvivalInv, TypeInv, TypeOK, CloudTypeOK, DbTypeOK
  <1>5. DecisionsTraced'
    <2>1. \A ch \in batch : HeldOnlyBy(ch.hash, ch.id)'
      BY HeldKept DEF RemoteInv, DecisionsTraced
    <2>2. ASSUME NEW k \in DOMAIN todo', Brings(todo'[k]),
                 NEW c, NEW i, todo'[k].hash = c, todo'[k].id = i
          PROVE  HeldOnlyBy(c, i)'
      <3>1. HeldOnlyBy(c, i)
        BY <1>2, <2>2 DEF RemoteInv, DecisionsTraced, Brings
      <3> QED
        BY <3>1, HeldKept
    <2>3. \A k \in DOMAIN todo' : Brings(todo[k])' => HeldOnlyBy(todo[k].hash, todo[k].id)'
      BY <2>2 DEF HeldOnlyBy, Brings
    <2> QED
      BY <2>1, <2>3 DEF DecisionsTraced, HeldOnlyBy, Brings
  <1>6. ASSUME NEW i \in Ids, InFolder(i)'
        PROVE  Unheard(i, cursor)' \/ cloud'[i].body \in Reported' \/ Carried(i)'
    <2>1. CASE cloud'[i] # cloud[i]
      <3>1. cloud'[i].rev > clock /\ clock \in Nat /\ cloud'[i].rev \in Nat
        BY <2>1 DEF CloudStep, SurvivalInv, TypeInv, TypeOK, CloudTypeOK, Item
      <3>2. cursor # None => cursor \in Nat /\ cursor <= clock
        BY DEF RemoteInv, CursorInv, SurvivalInv, TypeInv, TypeOK, DbTypeOK
      <3> QED
        BY <3>1, <3>2 DEF Unheard
    <2>2. CASE cloud'[i] = cloud[i]
      <3>1. InFolder(i) /\ cloud[i].body \in Content
        BY <1>6, <2>2 DEF InFolder, LiveFile, Live, SurvivalInv, TypeInv, ContentInv
      <3>2. Unheard(i, cursor) \/ cloud[i].body \in Reported \/ Carried(i)
        BY <1>1, <3>1 DEF RemoteInv, ItemsAccounted, Heard
      <3>3. ASSUME Carried(i) PROVE Unheard(i, cursor) \/ cloud[i].body \in Reported' \/ Carried(i)'
        <4>1. PICK k \in DOMAIN todo :
                /\ Brings(todo[k]) /\ ~todo[k].folder
                /\ todo[k].id = i /\ todo[k].hash = cloud[i].body
          BY <3>3 DEF Carried
        <4>2. CASE k = 1
          BY <1>1, <3>1, <4>1, <4>2 DEF Delivered, Brings, InFolder, LiveFile, Live, Unheard
        <4>3. CASE k # 1
          BY <1>3, <2>2, <4>1, <4>3 DEF Carried, Brings
        <4> QED
          BY <4>2, <4>3
      <3>4. Unheard(i, cursor) => Unheard(i, cursor)'
        BY <2>2 DEF Unheard
      <3> QED
        BY <2>2, <3>2, <3>3, <3>4, ReportedGrows
    <2> QED
      BY <2>1, <2>2
  <1> QED
    BY <1>1, <1>4, <1>5, <1>6
    DEF RemoteInv, ItemsAccounted, CycleMayFail, TransferTraced, Heard, Unheard

(* Nothing is in the cloud and nothing is decided at the start.            *)
LEMMA InitRemoteInv == Init => RemoteInv
  <1> SUFFICES ASSUME Init PROVE RemoteInv
    OBVIOUS
  <1>1. CursorInv /\ FilesKnown /\ RowsKnown /\ BodiesApart
    BY SyncAssumption
    DEF Init, CloudInit, DbInit, FolderInit, NoRow, CursorInv, FilesKnown, RowsKnown, BodiesApart,
        HeldOnlyBy, IsFile
  <1>2. DecisionsTraced /\ TransferTraced /\ CycleMayFail
    BY DEF Init, DecisionsTraced, TransferTraced, CycleMayFail
  <1>3. ItemsAccounted
    BY DEF Init, CloudInit, ItemsAccounted, InFolder, LiveFile, Live
  <1> QED
    BY <1>1, <1>2, <1>3 DEF RemoteInv

(* The listing: what lies between the cursor and now is in the batch.      *)
LEMMA ListRemote ==
  ASSUME SurvivalInv, SurvivalInv', RemoteInv, List
  PROVE  RemoteInv'
  <1>a. /\ TypeInv /\ todo = <<>> /\ phase = "due" /\ present
        /\ batch' = ListChanges(cursor) /\ newCursor' = clock /\ phase' = "classify"
        /\ ledger' = IF cursor # None THEN ledger
                     ELSE ledger \cup Mark({cloud[i].body : i \in
                            {j \in Ids : LiveFile(j) /\ cloud[j].rev <= Since(None)}}, "skipped")
        /\ UNCHANGED <<cloud, clock, present, row, cursor, local, todo, got>>
    BY DEF List, SurvivalInv, TypeInv, TaskInv, cloudVars, dbVars, folderVars
  <1>b. ledger \subseteq ledger' /\ CloudStep
    BY <1>a, NoCloudStep DEF cloudVars
  <1>c. clock \in Nat /\ cloud \in [Ids -> Item] /\ cursor \in Nat \cup {None}
    BY <1>a DEF TypeInv, TypeOK, CloudTypeOK, DbTypeOK
  <1>1. CursorInv' /\ FilesKnown' /\ BodiesApart' /\ RowsKnown'
    <2>1. CursorInv'
      BY <1>a, <1>c DEF RemoteInv, CursorInv
    <2> QED
      BY <1>a, <1>b, <2>1, FilesKnownKept, BodiesKept, RowsKnownKept DEF RemoteInv
  <1>2. DecisionsTraced'
    <2> SUFFICES ASSUME NEW i \in Ids, cloud[i].rev > Since(cursor), NEW c \in Content,
                        ChangeOf(i).hash = c
                 PROVE  HeldOnlyBy(c, i)'
      BY <1>a DEF DecisionsTraced, ListChanges, ChangeOf, HeldOnlyBy
    <2>1. cloud[i].state # "gone" /\ cloud[i].body = c
      BY SyncAssumption DEF ChangeOf
    <2>2. HeldOnlyBy(c, i)
      BY <2>1 DEF RemoteInv, BodiesApart
    <2> QED
      BY <1>b, <2>2, HeldKept
  <1>3. ASSUME NEW i \in Ids, InFolder(i)
        PROVE  /\ Unheard(i, cursor) \/ cloud[i].body \in Reported'
               /\ ChangeOf(i) \in batch' \/ cloud[i].body \in Reported'
    <2>1. Unheard(i, cursor) \/ cloud[i].body \in Reported
      BY <1>a, <1>3 DEF RemoteInv, ItemsAccounted, Carried, Heard
    <2>2. CASE cloud[i].rev > Since(cursor)
      BY <1>a, <1>b, <2>1, <2>2, ReportedGrows DEF ListChanges
    <2>3. CASE cursor # None /\ ~(cloud[i].rev > Since(cursor))
      BY <1>b, <2>1, <2>3, ReportedGrows DEF Since, Unheard
    <2>4. CASE cursor = None /\ ~(cloud[i].rev > Since(cursor))
      <3>1. cloud[i].rev <= Since(None) /\ LiveFile(i) /\ cloud[i].body \in Content
        BY <1>3, <1>a, <1>c, <2>4 DEF Since, Item, InFolder, TypeInv, ContentInv
      <3>2. <<cloud[i].body, "skipped">> \in ledger'
        BY <1>a, <2>4, <3>1 DEF Mark
      <3> QED
        BY <2>4, <3>1, <3>2 DEF Unheard, Reported, Tagged
    <2> QED
      BY <2>2, <2>3, <2>4
  <1>4. ItemsAccounted' /\ CycleMayFail'
    <2>1. \A i \in Ids : InFolder(i)' = InFolder(i) /\ ChangeOf(i)' = ChangeOf(i)
                            /\ Unheard(i, cursor)' = Unheard(i, cursor)
      BY <1>a DEF InFolder, LiveFile, Live, ChangeOf, Unheard
    <2> QED
      BY <1>3, <1>a, <2>1 DEF ItemsAccounted, CycleMayFail
  <1>5. TransferTraced'
    BY <1>a DEF TransferTraced
  <1> QED
    BY <1>1, <1>2, <1>4, <1>5 DEF RemoteInv

(* A live item's change is either decided on or says nothing new.          *)
LEMMA ClassifyRemote ==
  ASSUME SurvivalInv, SurvivalInv', RemoteInv, NEW ch \in batch, ClassifyChange(ch)
  PROVE  RemoteInv'
  <1>a. /\ phase = "classify" /\ todo \in Seq(Action) /\ batch' = batch \ {ch}
        /\ UNCHANGED <<cloud, clock, row, cursor, present, local, phase, got, newCursor, ledger>>
    BY DEF ClassifyChange, SurvivalInv, TypeInv, TypeOK, EngineTypeOK, cloudVars, dbVars, folderVars
  <1>b. \/ todo' = todo /\ (PathsFor(ch) = {} \/ \E p \in PathsFor(ch) : Verdict(p, ch) = "noop")
        \/ \E p \in PathsFor(ch) : todo' = Append(todo, RemoteAction(p, ch))
    BY DEF ClassifyChange, Queue
  <1>c. \A k \in DOMAIN todo : k \in DOMAIN todo' /\ todo'[k] = todo[k]
    BY <1>a, <1>b
  <1>d. ledger \subseteq ledger' /\ CloudStep
    BY <1>a, NoCloudStep DEF SurvivalInv, cloudVars
  <1>1. CursorInv' /\ FilesKnown' /\ BodiesApart' /\ RowsKnown'
    <2>1. CursorInv'
      BY <1>a DEF RemoteInv, CursorInv
    <2> QED
      BY <1>a, <1>d, <2>1, FilesKnownKept, BodiesKept, RowsKnownKept DEF RemoteInv
  <1>2. DecisionsTraced'
    <2>1. ASSUME NEW c, NEW i, HeldOnlyBy(c, i) PROVE HeldOnlyBy(c, i)'
      BY <1>d, <2>1, HeldKept
    <2>2. ASSUME NEW k \in DOMAIN todo', Brings(todo'[k]),
                 NEW c, NEW i, todo'[k].hash = c, todo'[k].id = i
          PROVE  HeldOnlyBy(c, i)
      <3>1. CASE k \in DOMAIN todo /\ todo'[k] = todo[k]
        BY <2>2, <3>1 DEF RemoteInv, DecisionsTraced
      <3>2. ASSUME NEW p \in PathsFor(ch), todo'[k] = RemoteAction(p, ch) PROVE HeldOnlyBy(c, i)
        BY <2>2, <3>2 DEF RemoteInv, DecisionsTraced, RemoteAction
      <3>3. \/ k \in DOMAIN todo /\ todo'[k] = todo[k]
            \/ \E p \in PathsFor(ch) : todo'[k] = RemoteAction(p, ch)
        BY <1>a, <1>b, AppendElement
      <3> QED
        BY <3>1, <3>2, <3>3
    <2>3. \A x \in batch : HeldOnlyBy(x.hash, x.id)'
      BY <2>1 DEF RemoteInv, DecisionsTraced
    <2>4. \A k \in DOMAIN todo' : Brings(todo[k])' => HeldOnlyBy(todo[k].hash, todo[k].id)'
      BY <2>1, <2>2 DEF HeldOnlyBy, Brings
    <2> QED
      BY <1>a, <2>3, <2>4 DEF DecisionsTraced, HeldOnlyBy, Brings
  <1>3. ASSUME NEW i \in Ids, InFolder(i), ch = ChangeOf(i)
        PROVE  cloud[i].body \in Reported \/ Carried(i)'
    <2>1. /\ ch.id = i /\ ~ch.deleted /\ ~ch.folder /\ ch.hash = cloud[i].body
          /\ ch.hash \in Content /\ ch.path \in Paths /\ Live(i)
      BY <1>3 DEF ChangeOf, InFolder, LiveFile, Live, SurvivalInv, TypeInv, ContentInv
    <2>2. PathsFor(ch) = {ch.path}
      BY <2>1 DEF PathsFor
    <2>3. CASE Verdict(ch.path, ch) \in {"noop", "upload"}
      <3>1. ~RemoteChanged(ch.path, ch)
        BY <2>1, <2>3 DEF Verdict
      <3>2. HeldOnlyBy(ch.hash, None)
        BY <2>1, <3>1 DEF RemoteChanged, RemoteInv, RowsKnown
      <3> QED
        BY <2>1, <3>2, SyncAssumption DEF HeldOnlyBy
    <2>4. CASE Verdict(ch.path, ch) \notin {"noop", "upload"}
      <3>1. todo' = Append(todo, RemoteAction(ch.path, ch))
        BY <1>b, <2>2, <2>4
      <3>2. Len(todo) + 1 \in DOMAIN todo' /\ todo'[Len(todo) + 1] = RemoteAction(ch.path, ch)
        BY <1>a, <3>1
      <3>3. Verdict(ch.path, ch) \in {"download", "conflict"}
        BY <2>1, <2>4 DEF Verdict
      <3>4. LET a == todo'[Len(todo) + 1]
            IN  Brings(a) /\ ~a.folder /\ a.id = i /\ a.hash = cloud'[i].body
        BY <1>a, <2>1, <3>2, <3>3 DEF RemoteAction, Brings
      <3> QED
        BY <3>2, <3>4 DEF Carried, Brings
    <2> QED
      BY <2>3, <2>4
  <1>4. ItemsAccounted' /\ CycleMayFail'
    <2>1. ASSUME NEW i \in Ids
          PROVE  /\ InFolder(i)' = InFolder(i) /\ ChangeOf(i)' = ChangeOf(i)
                 /\ Unheard(i, cursor)' = Unheard(i, cursor)
                 /\ Unheard(i, newCursor)' = Unheard(i, newCursor)
                 /\ Carried(i) => Carried(i)'
                 /\ (cloud[i].body \in Reported)' = (cloud[i].body \in Reported)
      BY <1>a, <1>c
      DEF InFolder, LiveFile, Live, ChangeOf, Unheard, Carried, Brings, Reported, KnownHere, Tagged
    <2>2. ASSUME NEW i \in Ids, InFolder(i)
          PROVE  /\ Unheard(i, newCursor) \/ cloud[i].body \in Reported \/ Carried(i)'
                    \/ ChangeOf(i) \in batch'
                 /\ Unheard(i, cursor) \/ cloud[i].body \in Reported
      BY <1>3, <1>a, <2>1, <2>2 DEF RemoteInv, ItemsAccounted, CycleMayFail, Heard
    <2> QED
      BY <1>a, <2>1, <2>2 DEF ItemsAccounted, CycleMayFail, Heard
  <1>5. TransferTraced'
    BY <1>a DEF TransferTraced
  <1> QED
    BY <1>1, <1>2, <1>4, <1>5 DEF RemoteInv

(* The cycle ends without its cursor, or with it.                          *)
LEMMA CycleEndsRemote ==
  ASSUME SurvivalInv, SurvivalInv', RemoteInv, CycleFails \/ CommitCursor
  PROVE  RemoteInv'
  <1>a. /\ phase \in {"due", "classify"} /\ (phase = "due" => todo = <<>>)
        /\ phase' \in {"idle", "apply"} /\ batch' = {}
        /\ UNCHANGED <<cloud, clock, row, present, local, ledger>>
    BY DEF CycleFails, CommitCursor, SurvivalInv, TypeInv, TaskInv,
           cloudVars, dbVars, folderVars
  <1>b. \/ todo' = <<>> /\ UNCHANGED cursor
        \/ /\ phase = "classify" /\ batch = {} /\ UNCHANGED todo
           /\ cursor' = IF present THEN newCursor ELSE cursor
    BY DEF CycleFails, CommitCursor, SetChangeCursor, dbVars
  <1>c. ledger \subseteq ledger' /\ CloudStep
    BY <1>a, NoCloudStep DEF SurvivalInv, cloudVars
  <1>1. FilesKnown' /\ BodiesApart' /\ RowsKnown'
    BY <1>a, <1>c, FilesKnownKept, BodiesKept, RowsKnownKept DEF RemoteInv
  <1>2. CursorInv' /\ TransferTraced' /\ CycleMayFail'
    BY <1>a, <1>b DEF RemoteInv, CursorInv, TransferTraced, CycleMayFail
  <1>3. DecisionsTraced'
    <2>1. ASSUME NEW c, NEW i, HeldOnlyBy(c, i) PROVE HeldOnlyBy(c, i)'
      BY <1>c, <2>1, HeldKept
    <2>2. \A k \in DOMAIN todo' : k \in DOMAIN todo /\ todo'[k] = todo[k]
      <3>1. CASE todo' = <<>>
        BY <3>1
      <3> QED
        BY <1>b, <3>1
    <2>3. \A k \in DOMAIN todo' : Brings(todo[k])' => HeldOnlyBy(todo[k].hash, todo[k].id)'
      BY <2>1, <2>2 DEF RemoteInv, DecisionsTraced, HeldOnlyBy, Brings
    <2> QED
      BY <1>a, <2>3 DEF DecisionsTraced
  <1>4. ASSUME NEW i \in Ids, InFolder(i)
        PROVE  Unheard(i, cursor)' \/ cloud[i].body \in Reported \/ Carried(i)'
    <2>1. CASE UNCHANGED cursor /\ (phase = "due" \/ todo' = <<>>)
      <3>1. Unheard(i, cursor) \/ cloud[i].body \in Reported
        BY <1>4, <1>a DEF RemoteInv, ItemsAccounted, CycleMayFail, Carried, Heard
      <3> QED
        BY <1>a, <2>1, <3>1 DEF Unheard
    <2>2. CASE /\ phase = "classify" /\ batch = {} /\ UNCHANGED todo
               /\ cursor' = IF present THEN newCursor ELSE cursor
      <3>1. Unheard(i, newCursor) \/ cloud[i].body \in Reported \/ Carried(i)
        BY <1>4, <2>2 DEF RemoteInv, ItemsAccounted, Heard
      <3>2. Carried(i) => Carried(i)'
        BY <1>a, <2>2 DEF Carried, Brings
      <3>3. ~present => cursor = None
        BY DEF RemoteInv, CursorInv
      <3> QED
        BY <1>a, <2>2, <3>1, <3>2, <3>3 DEF Unheard
    <2> QED
      BY <1>a, <1>b, <2>1, <2>2
  <1>5. ItemsAccounted'
    <2>1. \A i \in Ids : InFolder(i)' = InFolder(i)
      BY <1>a DEF InFolder, LiveFile, Live
    <2>2. (\A c : c \in Reported <=> (c \in Reported)') /\ Heard' = cursor'
      BY <1>a DEF Reported, KnownHere, Tagged, Heard
    <2> QED
      BY <1>4, <1>a, <2>1, <2>2 DEF ItemsAccounted, Unheard
  <1> QED
    BY <1>1, <1>2, <1>3, <1>5 DEF RemoteInv

(* The pair's rows and its cursor go.                                      *)
LEMMA RemovePairRemote ==
  ASSUME SurvivalInv, SurvivalInv', RemoteInv, RemovePair
  PROVE  RemoteInv'
  <1>a. /\ UNCHANGED <<cloud, clock, local, phase, batch, todo, got, newCursor, ledger>>
        /\ cursor' = None /\ row' = [p \in Paths |-> NoRow] /\ present' = FALSE
    BY DEF RemovePair, RemovePairRow, cloudVars, folderVars, engineVars
  <1>b. ledger \subseteq ledger' /\ CloudStep
    BY <1>a, NoCloudStep DEF SurvivalInv, cloudVars
  <1>1. FilesKnown' /\ BodiesApart'
    BY <1>a, <1>b, FilesKnownKept, BodiesKept DEF RemoteInv
  <1>2. RowsKnown'
    BY <1>a, SyncAssumption DEF RowsKnown, HeldOnlyBy, NoRow
  <1>3. TransferTraced'
    BY <1>a, <1>b, TransferKept
  <1>4. DecisionsTraced'
    <2>1. ASSUME NEW c, NEW i, HeldOnlyBy(c, i) PROVE HeldOnlyBy(c, i)'
      BY <1>b, <2>1, HeldKept
    <2> QED
      BY <1>a, <2>1 DEF RemoteInv, DecisionsTraced, HeldOnlyBy, Brings
  <1>5. CursorInv' /\ CycleMayFail'
    BY <1>a DEF RemoteInv, CursorInv, CycleMayFail, Unheard
  <1>6. ItemsAccounted'
    <2>1. ASSUME NEW i \in Ids
          PROVE  /\ InFolder(i)' = InFolder(i) /\ ChangeOf(i)' = ChangeOf(i)
                 /\ Carried(i)' = Carried(i)
                 /\ (cloud[i].body \in Reported)' = (cloud[i].body \in Reported)
                 /\ Unheard(i, Heard) => Unheard(i, Heard)'
      BY <1>a
      DEF InFolder, LiveFile, Live, ChangeOf, Unheard, Heard, Carried, Brings, Reported, KnownHere, Tagged
    <2> QED
      BY <1>a, <2>1 DEF RemoteInv, ItemsAccounted
  <1> QED
    BY <1>1, <1>2, <1>3, <1>4, <1>5, <1>6 DEF RemoteInv

(* Every step keeps the account of remote edits.                           *)
LEMMA NextRemoteInv ==
  ASSUME SurvivalInv, SurvivalInv', RemoteInv, [Next]_vars
  PROVE  RemoteInv'
  <1> USE DEF cloudVars, dbVars, folderVars, engineVars
  <1>a. TypeInv
    BY DEF SurvivalInv
  <1>b. local \in [Paths -> Content \cup {Absent, Dir}] /\ row \in [Paths -> Row]
    BY <1>a DEF TypeInv, TypeOK, FolderTypeOK, DbTypeOK
  <1>c. FilesKnown /\ RowsKnown
    BY DEF RemoteInv
  <1>1. CASE RefreshWatchers
    BY <1>1, <1>a, NoCloudStep, RemoteElsewhere DEF RefreshWatchers
  <1>2. ASSUME NEW p \in Paths, IgnoreEvent(p) \/ LoseEvent(p) PROVE RemoteInv'
    BY <1>2, <1>a, NoCloudStep, RemoteElsewhere DEF IgnoreEvent, LoseEvent, Deliver
  <1>3. ASSUME NEW p \in Paths, TakeEvent(p) PROVE RemoteInv'
    <2>1. /\ phase = "idle" /\ todo = <<>> /\ phase' = "apply" /\ todo' = <<LocalAction(p)>>
          /\ UNCHANGED <<cloud, clock, row, present, cursor, local, batch, got, newCursor, ledger>>
      BY <1>3, <1>a DEF TakeEvent, Deliver, Idle, TypeInv, TaskInv
    <2>2. ledger \subseteq ledger' /\ CloudStep
      BY <1>a, <2>1, NoCloudStep
    <2>3. FilesKnown' /\ BodiesApart' /\ RowsKnown'
      BY <2>1, <2>2, FilesKnownKept, BodiesKept, RowsKnownKept DEF RemoteInv
    <2>4. CursorInv' /\ TransferTraced' /\ CycleMayFail'
      BY <2>1 DEF RemoteInv, CursorInv, TransferTraced, CycleMayFail
    <2>5. DecisionsTraced'
      <3>1. ASSUME NEW c, NEW i, HeldOnlyBy(c, i) PROVE HeldOnlyBy(c, i)'
        BY <2>2, <3>1, HeldKept
      <3>2. \A k \in DOMAIN todo' : ~Brings(todo[k])'
        BY <2>1 DEF Brings, LocalAction
      <3>3. \A ch \in batch : HeldOnlyBy(ch.hash, ch.id)'
        BY <3>1 DEF RemoteInv, DecisionsTraced
      <3> QED
        BY <2>1, <3>2, <3>3 DEF DecisionsTraced, HeldOnlyBy
    <2>6. ItemsAccounted'
      <3>1. ASSUME NEW i \in Ids
            PROVE  /\ InFolder(i)' = InFolder(i) /\ ~Carried(i)
                   /\ (cloud[i].body \in Reported)' = (cloud[i].body \in Reported)
                   /\ Unheard(i, Heard) => Unheard(i, Heard)'
        BY <2>1
        DEF InFolder, LiveFile, Live, Unheard, Heard, Carried, Brings, Reported, KnownHere, Tagged
      <3> QED
        BY <2>1, <3>1 DEF RemoteInv, ItemsAccounted
    <2> QED
      BY <2>3, <2>4, <2>5, <2>6 DEF RemoteInv
  <1>4. CASE BeginPoll
    BY <1>4, <1>a, NoCloudStep, RemoteElsewhere DEF BeginPoll, Idle
  <1>5. CASE RunCycle
    BY <1>5, ListRemote, ClassifyRemote, CycleEndsRemote DEF RunCycle
  <1>6. Working => /\ 1 \in DOMAIN todo /\ todo[1] = Act
                   /\ Act \in Action /\ Act.path \in Paths /\ phase # "classify"
    BY <1>a, ActDecided DEF Working
  <1>7. CASE MoveAside
    <2> DEFINE copy == ConflictingFileName(Act.path)
               gone == Mark({k.body : k \in Named(copy)}, "clobbered")
    <2>1. /\ phase = "apply" /\ Working /\ Act.kind = "conflict" /\ RenameAside(Act.path, copy)
          /\ UNCHANGED <<cloud, clock, present, row, cursor, batch, newCursor>>
      BY <1>7 DEF MoveAside, CanMoveAside, Working
    <2>2. \/ phase' = "moved" /\ ledger' = ledger \cup gone /\ UNCHANGED <<todo, got>>
          \/ Finish /\ ledger' = ledger \cup gone \cup Unserved
      BY <1>7 DEF MoveAside
    <2> HIDE DEF gone
    <2>3. ledger \subseteq ledger' /\ CloudStep
      BY <1>a, <2>1, <2>2, NoCloudStep
    <2>4. FilesKnown' /\ RowsKnown'
      <3>1. \A p \in Paths : local'[p] = local[p] \/ local'[p] = Absent
        BY <2>1 DEF RenameAside
      <3> QED
        BY <1>c, <2>1, <2>3, <3>1, FilesKnownKept, RowsKnownKept, SyncAssumption
    <2>5. CASE phase' = "moved" /\ UNCHANGED <<todo, got>>
      <3>1. TransferTraced'
        BY <2>1, <2>5 DEF TransferTraced, Act, Brings
      <3> QED
        BY <2>1, <2>3, <2>4, <2>5, <3>1, AccountsKept DEF RemoteInv
    <2>6. CASE Finish /\ ledger' = ledger \cup gone \cup Unserved
      <3>1. Delivered
        BY <2>6, UnservedReported DEF Delivered
      <3> QED
        BY <2>1, <2>3, <2>4, <2>6, <3>1, FinishAccounts
    <2> QED
      BY <2>2, <2>5, <2>6
  <1>8. ASSUME NEW ps, MakeDirs(ps), ledger \subseteq ledger' PROVE FilesKnown'
    <2>1. \A p \in Paths : local'[p] = local[p] \/ local'[p] = Dir
      BY <1>8 DEF MakeDirs
    <2> QED
      BY <1>8, <1>c, <2>1, FilesKnownKept, SyncAssumption
  <1>9. CASE MakeFolder
    <2>1. /\ Working /\ Act.folder /\ Finish
          /\ UNCHANGED <<cloud, clock, present, cursor, batch, newCursor, ledger>>
          /\ MakeDirs(Ancestors[Act.path] \cup {Act.path})
      BY <1>9 DEF MakeFolder, CanMakeFolder, Cleared, Working
    <2>2. ledger \subseteq ledger' /\ CloudStep /\ FilesKnown'
      BY <1>a, <1>8, <2>1, NoCloudStep
    <2>3. RowsKnown'
      <3>1. \A p \in Paths : row'[p].rhash \in {row[p].rhash, None}
        BY <1>9, <1>b DEF MakeFolder, RecordFileState
      <3> QED
        BY <1>c, <2>2, <3>1, RowsKnownKept, SyncAssumption DEF HeldOnlyBy
    <2>4. Delivered
      BY <2>1 DEF Delivered
    <2> QED
      BY <2>1, <2>2, <2>3, <2>4, FinishAccounts
  <1>10. CASE Fetch
    <2>1. /\ Working /\ Brings(Act) /\ ~Act.folder /\ MakeDirs(Ancestors[Act.path])
          /\ UNCHANGED <<cloud, clock, present, row, cursor, batch, newCursor>>
      BY <1>10 DEF Fetch, CanFetch, Cleared, Working, Brings
    <2>2. \/ /\ Act.id \in Ids /\ LiveFile(Act.id) /\ phase' = "fetched"
             /\ got' = [id |-> Act.id, hash |-> Act.hash, body |-> cloud[Act.id].body]
             /\ UNCHANGED <<todo, ledger>>
          \/ Finish /\ ledger' = ledger \cup Unserved
      BY <1>10 DEF Fetch
    <2>3. ledger \subseteq ledger' /\ CloudStep /\ FilesKnown' /\ RowsKnown'
      BY <1>a, <1>c, <1>8, <2>1, <2>2, NoCloudStep, RowsKnownKept
    <2>4. CASE /\ Act.id \in Ids /\ LiveFile(Act.id) /\ phase' = "fetched"
               /\ got' = [id |-> Act.id, hash |-> Act.hash, body |-> cloud[Act.id].body]
               /\ UNCHANGED <<todo, ledger>>
      <3>1. HeldOnlyBy(Act.hash, Act.id)
        BY <1>6, <2>1 DEF RemoteInv, DecisionsTraced
      <3>2. Act.hash = cloud[Act.id].body \/ HeldOnlyBy(Act.hash, None)
        BY <3>1 DEF HeldOnlyBy
      <3>3. ASSUME NEW c, HeldOnlyBy(c, None) PROVE HeldOnlyBy(c, None)'
        BY <2>3, <3>3, HeldKept
      <3>4. Act' = Act /\ got'.hash = Act.hash /\ got'.body = cloud[Act.id].body
        BY <2>4 DEF Act
      <3>5. Act.hash = cloud[Act.id].body \/ HeldOnlyBy(got.hash, None)'
        BY <3>2, <3>3, <3>4 DEF HeldOnlyBy
      <3>6. TransferTraced'
        BY <2>1, <2>4, <3>4, <3>5 DEF TransferTraced, Brings
      <3> QED
        BY <1>6, <2>1, <2>3, <2>4, <3>6, AccountsKept DEF RemoteInv
    <2>5. CASE Finish /\ ledger' = ledger \cup Unserved
      <3>1. Delivered
        BY <2>5, UnservedReported DEF Delivered
      <3> QED
        BY <2>1, <2>3, <2>5, <3>1, FinishAccounts
    <2> QED
      BY <2>2, <2>4, <2>5
  <1>11. CASE Install
    <2>1. /\ phase = "fetched" /\ phase' = "installed" /\ Put(Act.path, got.body)
          /\ ledger' = ledger \cup Destroyed(Act.path) \cup Mark({got.body}, "fetched")
          /\ UNCHANGED <<cloud, clock, present, row, cursor, batch, newCursor, todo, got>>
      BY <1>11 DEF Install, CanInstall
    <2>2. got.body \in Content /\ got.body \in InCloudOnce
      BY <1>a, <2>1 DEF TypeInv, ContentInv, SurvivalInv, StepSafe
    <2>3. <<got.body, "fetched">> \in ledger' /\ ledger \subseteq ledger'
      BY <2>1, <2>2 DEF Mark
    <2>4. got.body \in Tagged("fetched")' /\ got.body \in KnownHere' /\ got.body \in Reported'
      BY <2>2, <2>3 DEF Tagged, KnownHere, Reported
    <2>5. CloudStep /\ FilesKnown' /\ RowsKnown'
      <3>1. \A p \in Paths : local'[p] = local[p] \/ local'[p] = got.body
        BY <1>b, <2>1 DEF Put
      <3> QED
        BY <1>a, <1>c, <2>1, <2>3, <2>4, <3>1, NoCloudStep, FilesKnownKept, RowsKnownKept
    <2>6. HeldOnlyBy(got.hash, None)'
      <3>1. CASE got.hash = got.body
        BY <2>1, <2>2, <2>3, <2>4, <3>1, ReportedGrows DEF HeldOnlyBy
      <3>2. CASE HeldOnlyBy(got.hash, None)
        BY <2>1, <2>3, <2>5, <3>2, HeldKept DEF HeldOnlyBy
      <3> QED
        BY <2>1, <3>1, <3>2 DEF RemoteInv, TransferTraced
    <2>7. TransferTraced'
      <3>1. /\ Brings(Act) /\ Act.id \in Ids
            /\ LiveFile(Act.id) => Unheard(Act.id, cursor) \/ cloud[Act.id].body = got.body
        BY <2>1 DEF RemoteInv, TransferTraced
      <3>2. Act' = Act
        BY <2>1 DEF Act
      <3> QED
        BY <2>1, <2>4, <2>6, <3>1, <3>2 DEF TransferTraced, Brings, LiveFile, Live, Unheard
    <2> QED
      BY <2>1, <2>3, <2>5, <2>7, AccountsKept DEF RemoteInv
  <1>12. CASE Record
    <2>1. /\ phase \in {"installed", "sent"} /\ Working /\ Finish
          /\ UNCHANGED <<cloud, clock, present, cursor, batch, newCursor, local, ledger>>
          /\ \E lhash, status : RecordFileState(Act.path, got.id, lhash, got.hash, status)
      BY <1>12 DEF Record, CanRecord, Working
    <2>2. ledger \subseteq ledger' /\ CloudStep /\ FilesKnown'
      BY <1>a, <1>c, <2>1, NoCloudStep, FilesKnownKept
    <2>3. HeldOnlyBy(got.hash, None)
      BY <2>1 DEF RemoteInv, TransferTraced
    <2>4. RowsKnown'
      <3> SUFFICES ASSUME NEW p \in Paths, NEW c \in Content, row'[p].rhash = c
                   PROVE  HeldOnlyBy(c, None)'
        BY DEF RowsKnown, HeldOnlyBy
      <3>1. c = row[p].rhash \/ c = got.hash
        BY <1>b, <2>1 DEF RecordFileState
      <3>2. HeldOnlyBy(c, None)
        BY <1>c, <2>3, <3>1 DEF RowsKnown
      <3> QED
        BY <2>2, <3>2, HeldKept
    <2>5. Delivered
      <3> SUFFICES ASSUME Brings(Act), ~Act.folder, Act.hash \in Content, Act.id \in Ids, LiveFile(Act.id),
                          cloud[Act.id].body = Act.hash, ~Unheard(Act.id, cursor)
                   PROVE  Act.hash \in Reported'
        BY DEF Delivered
      <3>1. phase = "installed" /\ got.body \in Tagged("fetched")
        BY <2>1 DEF RemoteInv, TransferTraced
      <3>2. Act.hash = got.body
        BY <3>1 DEF RemoteInv, TransferTraced
      <3> QED
        BY <2>2, <3>1, <3>2, ReportedGrows DEF Reported, KnownHere
    <2> QED
      BY <2>1, <2>2, <2>4, <2>5, FinishAccounts
  <1>13. CASE CreateFolder
    <2>1. /\ Working /\ Act.kind = "upload" /\ Finish
          /\ UNCHANGED <<present, cursor, batch, newCursor, local, ledger>>
      BY <1>13 DEF CreateFolder, CanCreateFolder, Working
    <2>2. PICK i \in FreeIds :
            /\ Store(i, TRUE, None, LandingOfNew, Act.parent)
            /\ \/ RecordSynced(Act.path, i, None, None)
               \/ UNCHANGED row
      BY <1>13 DEF CreateFolder
    <2>3. ledger \subseteq ledger' /\ CloudStep
      BY <1>a, <2>1, <2>2, StoreStep, SyncAssumption DEF FreeIds
    <2>4. FilesKnown' /\ RowsKnown'
      <3>1. \A p \in Paths : row'[p].rhash \in {row[p].rhash, None}
        BY <2>2, <1>b DEF RecordSynced, RecordFileState
      <3> QED
        BY <1>c, <2>1, <2>3, <3>1, FilesKnownKept, RowsKnownKept, SyncAssumption DEF HeldOnlyBy
    <2>5. Delivered
      BY <2>1 DEF Delivered, Brings
    <2> QED
      BY <2>1, <2>3, <2>4, <2>5, FinishAccounts
  <1>14. CASE Send
    <2> DEFINE sent == Mark({local[Act.path]}, "sent")
               gone(i) == Mark({cloud[i].body} \ KnownHere, "overwritten")
    <2>1. /\ Working /\ phase = "apply" /\ ~Brings(Act) /\ IsFile(Act.path)
          /\ UNCHANGED <<present, row, cursor, local, batch, newCursor>>
      BY <1>14 DEF Send, CanSend, Working, Brings
    <2>2. PICK t \in Targets :
            /\ Store(t[1], FALSE, local[Act.path], t[2], t[3])
            /\ \/ /\ phase' = "sent"
                  /\ got' = [id |-> t[1], hash |-> local[Act.path], body |-> None]
                  /\ ledger' = ledger \cup sent \cup gone(t[1])
                  /\ UNCHANGED todo
               \/ /\ Finish
                  /\ ledger' = ledger \cup sent \cup gone(t[1]) \cup Unserved
      BY <1>14 DEF Send
    <2>3. t[1] \in Ids
      BY DEF Targets, FreeIds, LiveAt
    <2>4. <<local[Act.path], "sent">> \in ledger' /\ ledger \subseteq ledger'
      <3>1. <<local[Act.path], "sent">> \in sent
        BY <2>1 DEF Mark, IsFile
      <3> HIDE DEF sent, gone
      <3> QED
        BY <2>2, <3>1
    <2>5. local[Act.path] \in KnownHere
      BY <1>6, <1>c, <2>1 DEF FilesKnown
    <2>6. CloudStep
      BY <1>a, <2>2, <2>3, <2>5, StoreStep
    <2>7. FilesKnown' /\ RowsKnown'
      BY <1>c, <2>1, <2>4, <2>6, FilesKnownKept, RowsKnownKept
    <2>8. CASE /\ phase' = "sent" /\ UNCHANGED todo
               /\ got' = [id |-> t[1], hash |-> local[Act.path], body |-> None]
      <3>1. got'.hash = local[Act.path] /\ Act' = Act
        BY <2>8 DEF Act
      <3>2. local[Act.path] \in Reported' /\ local[Act.path] \in InCloudOnce'
        BY <2>1, <2>4, <2>5, ReportedGrows DEF Reported, InCloudOnce, Tagged, IsFile
      <3>3. HeldOnlyBy(got.hash, None)'
        BY <3>1, <3>2 DEF HeldOnlyBy
      <3>4. TransferTraced'
        BY <2>1, <2>8, <3>1, <3>3 DEF TransferTraced, Brings
      <3> QED
        BY <2>1, <2>4, <2>6, <2>7, <2>8, <3>4, AccountsKept DEF RemoteInv
    <2>9. CASE Finish
      <3>1. Delivered
        BY <2>1 DEF Delivered
      <3> QED
        BY <2>1, <2>4, <2>6, <2>7, <2>9, <3>1, FinishAccounts
    <2> QED
      BY <2>2, <2>8, <2>9
  <1>15. CASE DeleteLocal
    <2>1. /\ Working /\ Act.kind = "delete" /\ Finish
          /\ UNCHANGED <<cloud, clock, present, cursor, batch, newCursor>>
          /\ ledger' = ledger \cup Destroyed(Act.path)
          /\ row' = [row EXCEPT ![Act.path] = NoRow]
      BY <1>15 DEF DeleteLocal, CanDeleteLocal, Working, RemoveFileRecord
    <2>2. ledger \subseteq ledger' /\ CloudStep
      BY <1>a, <2>1, NoCloudStep
    <2>3. FilesKnown' /\ RowsKnown'
      <3>1. \A p \in Paths : local'[p] = local[p] \/ local'[p] = Absent
        BY <1>15, <1>b DEF DeleteLocal, Put
      <3>2. \A p \in Paths : row'[p].rhash \in {row[p].rhash, None}
        BY <2>1, <1>b DEF NoRow
      <3> QED
        BY <1>c, <2>2, <3>1, <3>2, FilesKnownKept, RowsKnownKept, SyncAssumption DEF HeldOnlyBy
    <2>4. Delivered
      BY <2>1 DEF Delivered, Brings
    <2> QED
      BY <2>1, <2>2, <2>3, <2>4, FinishAccounts
  <1>16. CASE ActionFails
    <2>1. /\ Working /\ Finish /\ ledger' = ledger \cup Unserved
          /\ UNCHANGED <<cloud, clock, present, row, cursor, local, batch, newCursor>>
      BY <1>16 DEF ActionFails
    <2>2. ledger \subseteq ledger' /\ CloudStep /\ FilesKnown' /\ RowsKnown'
      BY <1>a, <1>c, <2>1, NoCloudStep, FilesKnownKept, RowsKnownKept
    <2>3. Delivered
      BY <2>1, UnservedReported DEF Delivered
    <2> QED
      BY <2>1, <2>2, <2>3, FinishAccounts
  <1>17. ASSUME NEW p \in Paths, NEW c \in Content, UserWrite(p, c) PROVE RemoteInv'
    <2>1. /\ Put(p, c) /\ ByUser /\ ledger \subseteq ledger'
          /\ Mark({c}, "wroteHere") \subseteq ledger'
      BY <1>17 DEF UserWrite
    <2>2. c \in KnownHere'
      <3>1. <<c, "wroteHere">> \in Mark({c}, "wroteHere")
        BY DEF Mark
      <3> QED
        BY <2>1, <3>1 DEF KnownHere, Tagged
    <2>3. \A q \in Paths : local'[q] = local[q] \/ local'[q] = c
      BY <1>b, <2>1 DEF Put
    <2> QED
      BY <1>a, <2>1, <2>2, <2>3, NoCloudStep, RemoteElsewhere DEF ByUser
  <1>18. ASSUME NEW p \in Paths, UserMakeDir(p) \/ UserRemove(p) \/ FileTouched(p)
         PROVE  RemoteInv'
    <2>1. ByUser /\ UNCHANGED ledger
      BY <1>18 DEF UserMakeDir, UserRemove, FileTouched
    <2>2. \A q \in Paths : local'[q] = local[q] \/ local'[q] = Dir \/ local'[q] = Absent
      BY <1>18, <1>b DEF UserMakeDir, UserRemove, FileTouched, Put
    <2> QED
      BY <1>a, <2>1, <2>2, NoCloudStep, RemoteElsewhere, SyncAssumption DEF ByUser
  <1>19. CASE SetPaused \/ NextSecond
    BY <1>19, <1>a, NoCloudStep, RemoteElsewhere DEF SetPaused, NextSecond
  <1>20. CASE RemovePair
    BY <1>20, RemovePairRemote
  <1>21. ASSUME ByClient, CloudStep, ledger \subseteq ledger' PROVE RemoteInv'
    BY <1>21, RemoteElsewhere DEF ByClient
  <1>22. CASE Clients
    <2>1. ASSUME NEW i \in Ids, NEW c \in Content,
                 (\E p \in Paths : RemoteCreate(i, p, c)) \/ RemoteCreateAwkward(i, c)
                    \/ RemoteEdit(i, c)
          PROVE  RemoteInv'
      <3>1. /\ ByClient /\ Unused(c) /\ ledger \subseteq ledger'
            /\ \E path, parent : Store(i, FALSE, c, path, parent)
        BY <2>1 DEF RemoteCreate, RemoteCreateAwkward, RemoteEdit
      <3> QED
        BY <1>a, <1>21, <3>1, StoreStep
    <2>2. ASSUME NEW i \in Ids, NEW p \in Paths, RemoteCreateFolder(i, p) PROVE RemoteInv'
      <3>1. /\ ByClient /\ ledger \subseteq ledger'
            /\ \E parent : Store(i, TRUE, None, p, parent)
        BY <2>2 DEF RemoteCreateFolder
      <3> QED
        BY <1>a, <1>21, <3>1, StoreStep, SyncAssumption
    <2>3. ASSUME NEW i \in Ids, RemoteDelete(i) PROVE RemoteInv'
      BY <2>3, <1>a, <1>21, DropStep DEF RemoteDelete
    <2>4. ASSUME NEW i \in Ids, NEW p \in Paths \cup {Elsewhere}, RemoteMove(i, p) PROVE RemoteInv'
      <3>1. /\ ByClient /\ Live(i) /\ ledger \subseteq ledger'
            /\ \E parent : Store(i, FALSE, cloud[i].body, p, parent)
        BY <2>4 DEF RemoteMove, LiveFile
      <3> QED
        BY <1>a, <1>21, <3>1, StoreStep
    <2> QED
      BY <1>22, <2>1, <2>2, <2>3, <2>4 DEF Clients
  <1>23. CASE UNCHANGED vars
    BY <1>23, <1>a, NoCloudStep, RemoteElsewhere DEF vars
  <1>24. CASE Daemon
    BY <1>1, <1>2, <1>3, <1>4, <1>5, <1>7, <1>9, <1>10, <1>11, <1>12, <1>13, <1>14, <1>15,
       <1>16, <1>24
    DEF Daemon, LocalEvents, Apply
  <1>25. CASE User \/ NextSecond
    BY <1>17, <1>18, <1>19, <1>20, <1>25 DEF User
  <1> QED
    BY <1>22, <1>23, <1>24, <1>25 DEF Next

-----------------------------------------------------------------------------
(* Both accounts hold in every state the daemon can reach.                 *)
THEOREM AccountInvariant == Spec => []AccountInv
  <1>1. Init => AccountInv
    BY InitSurvivalInv, InitLocalInv, InitRemoteInv DEF AccountInv
  <1>2. AccountInv /\ [Next]_vars => AccountInv'
    BY NextSurvivalInv, NextLocalInv, NextRemoteInv DEF AccountInv
  <1> QED
    BY <1>1, <1>2, PTL DEF Spec

(* No local edit is forgotten: what the user saved and is still there has  *)
(* been sent or is about to be, unless it was saved in a decided action's  *)
(* window, with no watcher, or its one event came to nothing.              *)
THEOREM LocalEditsAccounted == Spec => []EveryLocalEditAccounted
  <1>1. AccountInv => EveryLocalEditAccounted
    BY ServedIsAccounted DEF AccountInv
  <1> QED
    BY <1>1, AccountInvariant, PTL

(* No remote edit is forgotten although run_cycle moves the cursor before  *)
(* the actions are applied: a file below the root has been here, will be   *)
(* listed, has an action decided for it or had one that failed, or was     *)
(* there before a first listing that starts from now.                      *)
THEOREM RemoteEditsAccounted == Spec => []EveryRemoteEditAccounted
  <1>1. RemoteInv => EveryRemoteEditAccounted
    <2> SUFFICES ASSUME RemoteInv, NEW i \in Ids, LiveFile(i), cloud[i].path \in Paths
                 PROVE  DownloadComing(i) \/ cloud[i].body \in Reported
      BY DEF EveryRemoteEditAccounted, Reported
    <2> QED
      BY DEF RemoteInv, ItemsAccounted, CycleMayFail, InFolder, DownloadComing, Unheard, Heard, Carried
  <1>2. AccountInv => EveryRemoteEditAccounted
    BY <1>1 DEF AccountInv
  <1> QED
    BY <1>2, AccountInvariant, PTL
=============================================================================
